------------------------- MODULE CorpusBuilderProofs -------------------------
(***************************************************************************)
(* Theorems about CorpusBuilder, for all command lines, answers of the     *)
(* model, tokenizers and numbers of builds.                                *)
(***************************************************************************)
EXTENDS CorpusBuilder, AllocationProofs, TLAPS

-----------------------------------------------------------------------------
\* Division by a positive number stays in the integers.
LEMMA DivType ==
    ASSUME NEW a \in Int, NEW b \in Nat \ {0} PROVE a \div b \in Int
OBVIOUS

\* An allocation has a whole number for each scenario.
LEMMA AllocationsType ==
    ASSUME NEW total \in Int, NEW scens \in Seq(Scenario),
           Total(Weights(scens)) \in Nat \ {0},
           NEW shares \in Allocations(total, Weights(scens))
    PROVE  DOMAIN shares = DOMAIN scens /\ \A i \in DOMAIN shares : shares[i] \in Int
<1> DEFINE weights == Weights(scens)
<1>1. DOMAIN weights = DOMAIN scens /\ \A i \in DOMAIN weights : weights[i] \in Int
  <2>1. \A i \in DOMAIN scens : scens[i] \in Scenario
    OBVIOUS
  <2>2. \A x \in Scenario : x.weight \in Int
    BY DEF Scenario
  <2> QED BY <2>1, <2>2 DEF Weights
<1>2. PICK rounding \in [{weights[i] : i \in DOMAIN weights} -> Rounding] :
         shares = AllocateCounts(total, RawQuotas(total, weights, rounding), Total(weights) * Ulp)
  BY DEF Allocations
<1> DEFINE raw == RawQuotas(total, weights, rounding)
           unit == Total(weights) * Ulp
<1>3. unit \in Nat \ {0}
  <2>1. \A n \in Nat \ {0} : n * 8 \in Nat \ {0}
    OBVIOUS
  <2> QED BY <2>1 DEF Ulp
<1>4. DOMAIN raw = DOMAIN weights
  BY DEF RawQuotas
<1>5. ASSUME NEW i \in DOMAIN raw PROVE raw[i] \div unit \in Int
  <2>1. weights[i] \in Int /\ rounding[weights[i]] \in {-1, 0, 1}
    <3> HIDE DEF weights
    <3> QED BY <1>1, <1>4 DEF Rounding
  <2>2. weights[i] * total * 8 + rounding[weights[i]] \in Int
    <3>1. \A w \in Int, r \in {-1, 0, 1} : w * total * 8 + r \in Int
      OBVIOUS
    <3> QED BY <2>1, <3>1
  <2>3. raw[i] \in Int
    BY <1>4, <2>2 DEF RawQuotas, Ulp
  <2> HIDE DEF raw, unit
  <2> QED BY <1>3, <2>3, DivType
<1>6. shares = [i \in DOMAIN raw |-> (raw[i] \div unit) +
        IF Cardinality(Ahead([k \in DOMAIN raw |-> raw[k] % unit], i))
             < total - Total([k \in DOMAIN raw |-> raw[k] \div unit]) THEN 1 ELSE 0]
  BY <1>2 DEF AllocateCounts
<1>7. DOMAIN raw = DOMAIN scens
  BY <1>1, <1>4
<1> HIDE DEF raw, unit
<1>8. \A i \in DOMAIN raw : raw[i] \div unit \in Int
  BY <1>5
<1> QED BY <1>6, <1>7, <1>8

-----------------------------------------------------------------------------
(* Type correctness.  The counters of the retries and of the continuations *)
(* are in range only because of where the program is when they move.       *)

Retries == Running => fails = attempt /\ how = "-"

Continuations ==
    /\ pc \in {"judge", "ask_more"} => low < 2
    /\ pc = "ask_more" => cont < MaxContinuations

TypeInv == TypeOK /\ Retries /\ Continuations

\* The state is in its type initially.
LEMMA InitType == Init => TypeInv
<1> SUFFICES ASSUME Init PROVE TypeInv
  OBVIOUS
<1>1. ProcessOK /\ LoopOK /\ Retries /\ Continuations
  BY BoundsAssumption DEF Init, ProcessOK, LoopOK, Labels, Reasons, MaxRetries, Retries,
     Running, Continuations
<1>2. PlanOK
  BY DEF Init, PlanOK, NoReply, Reply
<1>3. TextOK
  BY BoundsAssumption DEF Init, TextOK
<1>4. DiskOK
  <2>1. NoList \in Metadata
    BY DEF NoList, Metadata
  <2>2. DOMAIN << >> = {}
    OBVIOUS
  <2> QED BY <2>1, <2>2 DEF Init, DiskOK
<1> QED BY <1>1, <1>2, <1>3, <1>4 DEF TypeInv, TypeOK

\* The program counter, the command line and _call_with_retry's counters.
LEMMA ProcessType ==
    ASSUME ProcessOK, Retries, [Next]_vars PROVE ProcessOK' /\ Retries'
<1> USE DEF ProcessOK, Retries, Running, Labels, Reasons, MaxRetries,
            Goes, Proceeds, Ends, call
<1>1. CASE \E c \in Commands : Start(c)
  BY <1>1, BoundsAssumption DEF Start, NoMemory
<1>2. CASE DetectModel \/ LoadTokenizer \/ BeginStage1 \/ PrepareOutput \/ Summary
  BY <1>2 DEF DetectModel, LoadTokenizer, BeginStage1, PrepareOutput, Summary
<1>3. CASE CallFails \/ CallRefused
  BY <1>3 DEF CallFails, CallRefused, LastAttempt, Asking
<1>4. CASE \E r \in Replies : ScenariosReply(r)
  BY <1>4 DEF ScenariosReply, Answered
<1>5. CASE NextScenario \/ BeginDocument \/ Continue \/ LongEnough
  BY <1>5 DEF NextScenario, BeginDocument, Continue, LongEnough
<1>6. CASE \E n \in FirstReplies : FirstReply(n)
  BY <1>6 DEF FirstReply, Answered
<1>7. CASE EmptyReply \/ \E n \in MoreReplies : MoreReply(n)
  BY <1>7 DEF EmptyReply, MoreReply, Answered
<1>8. CASE Trim \/ AddNoise
  BY <1>8 DEF Trim, AddNoise
<1>9. CASE OpenDocument \/ WriteDocument \/ OpenJsonl \/ WriteJsonl \/ OpenMetadata \/ WriteMetadata
  BY <1>9 DEF OpenDocument, WriteDocument, OpenJsonl, WriteJsonl, OpenMetadata, WriteMetadata
<1>10. CASE Killed
  BY <1>10 DEF Killed, NoMemory
<1>11. CASE UNCHANGED vars
  BY <1>11 DEF vars
<1> QED BY <1>1, <1>2, <1>3, <1>4, <1>5, <1>6, <1>7, <1>8, <1>9, <1>10, <1>11 DEF Next, Step

\* Stage 1 and the allocation.
LEMMA PlanType ==
    ASSUME ProcessOK, PlanOK, [Next]_vars PROVE PlanOK'
<1>1. CASE (\E c \in Commands : Start(c)) \/ Killed
  <2>1. scenarios' = << >> /\ counts' = << >> /\ reply' = NoReply
    BY <1>1 DEF Start, Killed, NoMemory
  <2> QED BY <2>1 DEF PlanOK, NoReply, Reply
<1>2. ASSUME NEW r \in Replies, ScenariosReply(r) PROVE PlanOK'
  <2>1. r \in Reply /\ r.scenarios \in Seq(Scenario)
    BY RepliesAssumption DEF Reply
  <2>2. CASE Acceptable(r)
    <3>1. reply' = r /\ scenarios' = r.scenarios
          /\ counts' \in Allocations(cmd.documents, Weights(r.scenarios))
      BY <1>2, <2>2 DEF ScenariosReply
    <3>2. Total(Weights(r.scenarios)) \in Nat \ {0}
      BY <2>2 DEF Acceptable
    <3>3. cmd.documents \in Int
      BY CommandsAssumption DEF ProcessOK, Command
    <3>4. DOMAIN counts' = DOMAIN r.scenarios /\ \A i \in DOMAIN counts' : counts'[i] \in Int
      BY <2>1, <3>1, <3>2, <3>3, AllocationsType
    <3> QED BY <2>1, <3>1, <3>4 DEF PlanOK
  <2>3. CASE ~Acceptable(r)
    BY <1>2, <2>1, <2>3 DEF ScenariosReply, PlanOK
  <2> QED BY <2>2, <2>3
<1>3. CASE Step /\ ~(\E r \in Replies : ScenariosReply(r))
  <2>1. UNCHANGED plan
    BY <1>3 DEF Step, DetectModel, LoadTokenizer, BeginStage1, CallFails, CallRefused,
       PrepareOutput, NextScenario, BeginDocument, FirstReply, Continue, LongEnough,
       EmptyReply, MoreReply, Trim, AddNoise, OpenDocument, WriteDocument, OpenJsonl,
       WriteJsonl, OpenMetadata, WriteMetadata, Summary
  <2> QED BY <2>1 DEF plan, PlanOK
<1>4. CASE UNCHANGED vars
  BY <1>4 DEF vars, plan, PlanOK
<1> QED BY <1>1, <1>2, <1>3, <1>4 DEF Next, Step

\* The length below which a text is continued; none is for a target of zero or less.
LEMMA MinTargetType ==
    ASSUME NEW target \in Int
    PROVE  MinTarget(target) \in Int /\ (target <= 0 => MinTarget(target) <= 0)
<1>1. \A n \in Nat : (98 * n) \div 100 \in Nat
  OBVIOUS
<1>2. CASE target >= 0
  BY <1>1, <1>2 DEF MinTarget
<1>3. CASE target < 0
  <2>1. -target \in Nat
    BY <1>3
  <2>2. PICK m \in Nat : m = (98 * (-target)) \div 100
    BY <1>1, <2>1
  <2> QED BY <1>3, <2>2 DEF MinTarget
<1> QED BY <1>2, <1>3

\* Cutting a text leaves a number of tokens.
LEMMA TrimType ==
    ASSUME NEW n \in Int, NEW target \in Int, NEW m \in TrimToTokens(n, target)
    PROVE  m \in Int
BY TextsAssumption DEF TrimToTokens, Kept, NonNegative

\* What is told apart of a document's length.
LEMMA SizeType ==
    ASSUME ProcessOK, NEW n \in Int PROVE Size(n) \in Sizes
<1>1. cmd.target \in Int
  BY CommandsAssumption DEF ProcessOK, Command
<1>2. MinTarget(cmd.target) \in Int
  BY <1>1, MinTargetType
<1> QED BY <1>1, <1>2 DEF Size, Sizes

\* The loops of build_corpus.
LEMMA LoopType ==
    ASSUME ProcessOK, LoopOK, TextOK, [Next]_vars PROVE LoopOK'
<1>1. CASE (\E c \in Commands : Start(c)) \/ Killed
  <2>1. s' = 1 /\ j' = 0 /\ doc_id' = 0 /\ items' = << >>
    BY <1>1 DEF Start, Killed, NoMemory
  <2> QED BY <2>1 DEF LoopOK
<1>2. CASE NextScenario
  BY <1>2 DEF NextScenario, LoopOK
<1>3. CASE WriteDocument
  <2>1. Entry \in Items
    BY SizeType DEF Entry, Items, LoopOK, TextOK
  <2> QED BY <1>3, <2>1 DEF WriteDocument, LoopOK
<1>4. CASE Step /\ ~NextScenario /\ ~WriteDocument
  <2>1. UNCHANGED loop
    BY <1>4 DEF Step, DetectModel, LoadTokenizer, BeginStage1, CallFails, CallRefused,
       ScenariosReply, PrepareOutput, BeginDocument, FirstReply, Continue, LongEnough,
       EmptyReply, MoreReply, Trim, AddNoise, OpenDocument, OpenJsonl,
       WriteJsonl, OpenMetadata, WriteMetadata, Summary
  <2> QED BY <2>1 DEF loop, LoopOK
<1>5. CASE UNCHANGED vars
  BY <1>5 DEF vars, loop, LoopOK
<1> QED BY <1>1, <1>2, <1>3, <1>4, <1>5 DEF Next

\* generate_document's variables.
LEMMA TextType ==
    ASSUME ProcessOK, TextOK, Continuations, [Next]_vars
    PROVE  TextOK' /\ Continuations'
<1> USE DEF TextOK, Continuations, Goes, Proceeds, text
<1>1. ASSUME NoText, pc' \notin {"judge", "ask_more"} PROVE TextOK' /\ Continuations'
  BY <1>1, BoundsAssumption DEF NoText
<1>2. ASSUME UNCHANGED text, pc' \notin {"judge", "ask_more"}
      PROVE  TextOK' /\ Continuations'
  BY <1>2
<1>3. cmd.target \in Int
  BY CommandsAssumption DEF ProcessOK, Command
<1>4. CASE \E c \in Commands : Start(c)
  BY <1>1, <1>4 DEF Start
<1>5. CASE DetectModel \/ LoadTokenizer \/ BeginStage1 \/ PrepareOutput \/ Summary \/ CallRefused \/ Killed
  BY <1>1, <1>2, <1>5 DEF DetectModel, LoadTokenizer, BeginStage1, PrepareOutput, Summary,
     CallRefused, Killed, Ends
<1>6. CASE CallFails
  BY <1>1, <1>6 DEF CallFails, Ends, Asking
<1>7. CASE \E r \in Replies : ScenariosReply(r)
  BY <1>1, <1>2, <1>7 DEF ScenariosReply, Ends
<1>8. CASE NextScenario \/ BeginDocument \/ LongEnough
  BY <1>1, <1>2, <1>8 DEF NextScenario, BeginDocument, LongEnough, Ends
<1>9. CASE Continue
  BY <1>1, <1>9, BoundsAssumption DEF Continue, Ends, WantsMore
<1>10. CASE \E n \in FirstReplies : FirstReply(n)
  BY <1>10, TextsAssumption, BoundsAssumption DEF FirstReply, LowYield
<1>11. CASE EmptyReply
  BY <1>11 DEF EmptyReply
<1>12. CASE \E n \in MoreReplies : MoreReply(n)
  BY <1>12, TextsAssumption, BoundsAssumption DEF MoreReply, NewLow
<1>13. ASSUME NEW n \in Int, NEW m \in TrimToTokens(n, cmd.target) PROVE m \in Int
  BY <1>3, <1>13, TrimType
<1>14. CASE Trim
  BY <1>13, <1>14 DEF Trim
<1>15. CASE AddNoise
  BY <1>13, <1>15, TextsAssumption DEF AddNoise, Retrimmed
<1>16. CASE OpenDocument \/ OpenJsonl \/ WriteJsonl \/ OpenMetadata \/ WriteMetadata
  BY <1>2, <1>16 DEF OpenDocument, OpenJsonl, WriteJsonl, OpenMetadata, WriteMetadata
<1>17. CASE WriteDocument
  BY <1>1, <1>17 DEF WriteDocument
<1>18. CASE UNCHANGED vars
  BY <1>18 DEF vars
<1> QED BY <1>4, <1>5, <1>6, <1>7, <1>8, <1>9, <1>10, <1>11, <1>12, <1>14, <1>15, <1>16,
           <1>17, <1>18 DEF Next, Step

\* Every directory holds files of one type, by number.
Stores(dirs, Numbers, Type) ==
    /\ DOMAIN dirs = DOMAINS
    /\ \A e \in DOMAINS :
          DOMAIN dirs[e] \subseteq Numbers /\ \A k \in DOMAIN dirs[e] : dirs[e][k] \in Type

\* So it is when one more has been put in one of them.
LEMMA PutType ==
    ASSUME NEW Numbers, NEW Type, NEW dirs, NEW d \in DOMAINS, NEW i \in Numbers,
           NEW file \in Type, Stores(dirs, Numbers, Type)
    PROVE  Stores([dirs EXCEPT ![d] = Put(@, i, file)], Numbers, Type)
<1> DEFINE new == [dirs EXCEPT ![d] = Put(@, i, file)]
<1>1. DOMAIN new = DOMAINS /\ new[d] = Put(dirs[d], i, file)
      /\ \A e \in DOMAINS \ {d} : new[e] = dirs[e]
  BY DEF Stores
<1>2. /\ DOMAIN Put(dirs[d], i, file) = DOMAIN dirs[d] \cup {i}
      /\ \A k \in DOMAIN dirs[d] \cup {i} :
            Put(dirs[d], i, file)[k] = IF k = i THEN file ELSE dirs[d][k]
  BY DEF Put
<1> HIDE DEF new
<1>3. Stores(new, Numbers, Type)
  BY <1>1, <1>2 DEF Stores
<1> QED BY <1>3 DEF new

\* The steps that write a file.
Writes == OpenDocument \/ WriteDocument \/ OpenJsonl \/ WriteJsonl \/ OpenMetadata \/ WriteMetadata

\* No other step touches the disk.
LEMMA OthersLeaveDisk ==
    ASSUME [Next]_vars, ~Writes PROVE UNCHANGED disk
<1>1. CASE (\E c \in Commands : Start(c)) \/ Killed
  BY <1>1 DEF Start, Killed
<1>2. CASE Step
  BY <1>2 DEF Writes, Step, DetectModel, LoadTokenizer, BeginStage1, CallFails, CallRefused,
     ScenariosReply, PrepareOutput, NextScenario, BeginDocument, FirstReply, Continue,
     LongEnough, EmptyReply, MoreReply, Trim, AddNoise, Summary
<1>3. CASE UNCHANGED vars
  BY <1>3 DEF vars
<1> QED BY <1>1, <1>2, <1>3 DEF Next

\* The steps that write files keep their contents in type.
LEMMA DiskType ==
    ASSUME TypeOK, [Next]_vars PROVE DiskOK'
<1>1. cmd \in Command /\ Domain \in DOMAINS /\ cmd.target \in Int
  BY CommandsAssumption DEF TypeOK, ProcessOK, Command, Domain, list_domains
<1>2. build \in Nat /\ doc_id \in Nat /\ items \in Seq(Items) /\ tokens \in Int
  BY BoundsAssumption DEF TypeOK, ProcessOK, LoopOK, TextOK
<1>3. DiskOK /\ Stores(docs, Nat, Document) /\ Stores(jsonl, Int, Entries)
  BY DEF TypeOK, DiskOK, Stores
<1>4. Torn(build) \in Document
  BY <1>2 DEF Torn, Document, Sizes
<1>5. Size(tokens) \in Sizes
  BY <1>2, SizeType DEF TypeOK
<1>6. [build |-> build, whole |-> TRUE, tokens |-> Size(tokens)] \in Document
  BY <1>2, <1>5 DEF Document
<1>7. CASE OpenDocument \/ WriteDocument
  <2>1. PICK file \in Document : docs' = [docs EXCEPT ![Domain] = Put(@, doc_id, file)]
    BY <1>4, <1>6, <1>7 DEF OpenDocument, WriteDocument, Number
  <2>2. UNCHANGED <<jsonl, meta>>
    BY <1>7 DEF OpenDocument, WriteDocument
  <2>3. Stores(docs', Nat, Document)
    BY <1>1, <1>2, <1>3, <2>1, PutType
  <2> QED BY <1>3, <2>2, <2>3 DEF DiskOK, Stores
<1>8. CASE OpenJsonl \/ WriteJsonl
  <2>1. PICK file \in Entries : jsonl' = [jsonl EXCEPT ![Domain] = Put(@, cmd.target, file)]
    <3>1. [build |-> build, whole |-> FALSE, items |-> << >>] \in Entries
      BY <1>2 DEF Entries
    <3>2. [build |-> build, whole |-> TRUE, items |-> items] \in Entries
      BY <1>2 DEF Entries
    <3> QED BY <1>8, <3>1, <3>2 DEF OpenJsonl, WriteJsonl
  <2>2. UNCHANGED <<docs, meta>>
    BY <1>8 DEF OpenJsonl, WriteJsonl
  <2>3. Stores(jsonl', Int, Entries)
    BY <1>1, <1>3, <2>1, PutType
  <2> QED BY <1>3, <2>2, <2>3 DEF DiskOK, Stores
<1>9. CASE OpenMetadata \/ WriteMetadata
  <2>1. NoList \in Metadata
    BY DEF NoList, Metadata
  <2>2. cmd.documents \in Int
    BY <1>1 DEF Command
  <2>3. [build |-> build, whole |-> TRUE, target |-> cmd.target,
         documents |-> cmd.documents, items |-> items] \in Metadata
    BY <1>1, <1>2, <2>2 DEF Metadata
  <2>4. meta' \in [DOMAINS -> Metadata] /\ UNCHANGED <<docs, jsonl>>
    BY <1>1, <1>3, <1>9, <2>1, <2>3 DEF OpenMetadata, WriteMetadata, DiskOK
  <2> QED BY <1>3, <2>4 DEF DiskOK
<1>10. CASE UNCHANGED disk
  BY <1>3, <1>10 DEF DiskOK, disk
<1> QED BY <1>7, <1>8, <1>9, <1>10, OthersLeaveDisk DEF Writes

\* Every step keeps the types.
LEMMA NextType == ASSUME TypeInv, [Next]_vars PROVE TypeInv'
BY ProcessType, PlanType, LoopType, TextType, DiskType DEF TypeInv, TypeOK

\* The variables have their types in every build, whatever the commands, the answers
\* and the tokenizer.
THEOREM TypeCorrect == Spec => []TypeOK
<1>1. TypeInv => TypeOK
  BY DEF TypeInv
<1> QED BY <1>1, InitType, NextType, PTL DEF Spec

-----------------------------------------------------------------------------
(* FailureIsEarned.  Why a build may still fail depends on what it has come *)
(* through: the domain has a prompt, the scenarios have the keys.           *)

InBuild == Running /\ pc \notin {"detect", "tokenizer", "stage1"}
Prompted == InBuild => HasStage1Prompt(Domain)

Accepted ==
    \A i \in DOMAIN scenarios : REQUIRED_SCENARIO_KEYS[Domain] \subseteq Keys(scenarios[i])

InDocument == pc \in {"ask_first", "judge", "ask_more"} => s \in DOMAIN scenarios

FailureInv == Prompted /\ Accepted /\ InDocument /\ FailureIsEarned

\* Before the first build nothing has failed.
LEMMA InitFailure == Init => FailureInv
BY DEF Init, FailureInv, Prompted, Accepted, InDocument, FailureIsEarned, InBuild, Running

\* The keys a domain requires are among those its prompt asks for, and with the
\* program's own arguments they fill both templates.
LEMMA DomainsAreSound ==
    ASSUME NEW d \in DOMAINS, HasStage1Prompt(d)
    PROVE  /\ REQUIRED_SCENARIO_KEYS[d] \subseteq AsksFor[d]
           /\ Stage2Fields[d] \subseteq REQUIRED_SCENARIO_KEYS[d] \cup Stage2Arguments
           /\ ContinuationFields[d] \subseteq REQUIRED_SCENARIO_KEYS[d] \cup ContinuationArguments
<1> USE DEF REQUIRED_SCENARIO_KEYS, AsksFor, Stage2Fields, ContinuationFields,
            Stage2Arguments, ContinuationArguments
<1>1. CASE d = "legal"
  BY <1>1 DEF LegalKeys, LegalAsksFor, LegalStage2Fields, LegalContinuationFields
<1>2. CASE d = "medical"
  BY <1>2 DEF MedicalKeys, MedicalAsksFor, MedicalStage2Fields, MedicalContinuationFields
<1> QED BY <1>1, <1>2 DEF DOMAINS, HasStage1Prompt

\* No build gets past Stage 1 in a domain without a prompt.
LEMMA PromptedStep ==
    ASSUME Prompted, [Next]_vars PROVE Prompted'
<1> USE DEF Prompted, InBuild, Running, Goes, Proceeds, Ends, Domain
<1>1. CASE \E c \in Commands : Start(c)
  BY <1>1 DEF Start
<1>2. CASE BeginStage1
  BY <1>2 DEF BeginStage1
<1>3. CASE Step /\ ~BeginStage1
  BY <1>3 DEF Step, DetectModel, LoadTokenizer, CallFails, CallRefused, Asking,
     ScenariosReply, PrepareOutput, NextScenario, BeginDocument, FirstReply, Continue,
     LongEnough, EmptyReply, MoreReply, Trim, AddNoise, OpenDocument, WriteDocument,
     OpenJsonl, WriteJsonl, OpenMetadata, WriteMetadata, Summary
<1>4. CASE Killed \/ UNCHANGED vars
  BY <1>4 DEF Killed, vars
<1> QED BY <1>1, <1>2, <1>3, <1>4 DEF Next

\* The scenarios of a build stay those that were accepted.
LEMMA AcceptedStep ==
    ASSUME Accepted, [Next]_vars PROVE Accepted'
<1>1. CASE (\E c \in Commands : Start(c)) \/ Killed
  BY <1>1 DEF Start, Killed, NoMemory, Accepted
<1>2. ASSUME NEW r \in Replies, ScenariosReply(r) PROVE Accepted'
  <2>1. CASE Acceptable(r)
    BY <1>2, <2>1 DEF ScenariosReply, Acceptable, Accepted, Keys, Domain
  <2>2. CASE ~Acceptable(r)
    BY <1>2, <2>2 DEF ScenariosReply, Accepted, Keys, Domain
  <2> QED BY <2>1, <2>2
<1>3. CASE Step /\ ~(\E r \in Replies : ScenariosReply(r))
  <2>1. UNCHANGED <<scenarios, cmd>>
    BY <1>3 DEF Step, DetectModel, LoadTokenizer, BeginStage1, CallFails, CallRefused,
       PrepareOutput, NextScenario, BeginDocument, FirstReply, Continue, LongEnough,
       EmptyReply, MoreReply, Trim, AddNoise, OpenDocument, WriteDocument, OpenJsonl,
       WriteJsonl, OpenMetadata, WriteMetadata, Summary, plan
  <2> QED BY <2>1 DEF Accepted, Keys, Domain
<1>4. CASE UNCHANGED vars
  BY <1>4 DEF vars, plan, Accepted, Keys, Domain
<1> QED BY <1>1, <1>2, <1>3, <1>4 DEF Next, Step

\* A document under way stays with a scenario of the list.
LEMMA InDocumentStep ==
    ASSUME PlanOK, LoopOK, InDocument, [Next]_vars PROVE InDocument'
<1> USE DEF InDocument, Goes, Proceeds, Ends, plan, loop
<1>1. CASE (\E c \in Commands : Start(c)) \/ Killed
  BY <1>1 DEF Start, Killed
<1>2. CASE BeginDocument
  <2>1. s \in DOMAIN scenarios
    BY <1>2 DEF BeginDocument, PlanOK, LoopOK
  <2> QED BY <1>2, <2>1 DEF BeginDocument
<1>3. CASE Step /\ ~BeginDocument
  BY <1>3 DEF Step, DetectModel, LoadTokenizer, BeginStage1, CallFails, CallRefused, Asking,
     ScenariosReply, PrepareOutput, NextScenario, FirstReply, Continue,
     LongEnough, EmptyReply, MoreReply, Trim, AddNoise, OpenDocument, WriteDocument,
     OpenJsonl, WriteJsonl, OpenMetadata, WriteMetadata, Summary
<1>4. CASE UNCHANGED vars
  BY <1>4 DEF vars
<1> QED BY <1>1, <1>2, <1>3, <1>4 DEF Next

\* The three reasons FailureIsEarned is about, each where a build may end for it.
LEMMA EarnedStep ==
    ASSUME TypeInv, FailureInv, [Next]_vars PROVE FailureIsEarned'
<1> DEFINE Judged == {"gave_up", "bad_scenarios", "no_field"}
<1>1. cmd.domain \in DOMAINS /\ Domain = cmd.domain
  BY CommandsAssumption DEF TypeInv, TypeOK, ProcessOK, Command, Domain, list_domains
<1>2. ASSUME how' \notin Judged PROVE FailureIsEarned'
  BY <1>2 DEF FailureIsEarned
<1>3. CASE CallFails
  <2>1. CASE LastAttempt
    BY <1>3, <2>1 DEF CallFails, LastAttempt, MaxRetries, Ends, FailureIsEarned, Asking,
       Running, TypeInv, TypeOK, ProcessOK, Retries
  <2>2. CASE ~LastAttempt
    BY <1>2, <1>3, <2>2 DEF CallFails, Proceeds, Goes, Asking, Running, TypeInv, Retries
  <2> QED BY <2>1, <2>2
<1>4. ASSUME NEW r \in Replies, ScenariosReply(r) PROVE FailureIsEarned'
  <2>1. how = "-" /\ reply' = r /\ HasStage1Prompt(Domain)
    BY <1>4 DEF ScenariosReply, Running, TypeInv, Retries, FailureInv, Prompted, InBuild
  <2>2. CASE Acceptable(r)
    BY <1>2, <1>4, <2>1, <2>2 DEF ScenariosReply, Proceeds, Goes
  <2>3. CASE ~Acceptable(r)
    <3>1. \/ r.kind # "array"
          \/ \E i \in DOMAIN r.scenarios : r.scenarios[i].lacks # {}
          \/ Total(Weights(r.scenarios)) \notin Nat \ {0}
      BY <1>1, <2>1, <2>3, DomainsAreSound DEF Acceptable, Keys
    <3>2. how' = "bad_scenarios"
      BY <1>4, <2>3 DEF ScenariosReply, Ends
    <3> QED BY <2>1, <3>1, <3>2 DEF FailureIsEarned, Weights
  <2> QED BY <2>2, <2>3
<1>5. CASE BeginDocument \/ Continue
  <2>1. how = "-" /\ HasStage1Prompt(Domain) /\ s \in DOMAIN scenarios
        /\ UNCHANGED <<cmd, scenarios>>
    BY <1>5 DEF BeginDocument, Continue, Running, TypeInv, TypeOK, PlanOK, LoopOK, Retries,
       FailureInv, Prompted, InBuild, InDocument, plan
  <2>2. REQUIRED_SCENARIO_KEYS[Domain] \subseteq Keys(scenarios[s])
    BY <2>1 DEF FailureInv, Accepted
  <2>3. CASE how' = "no_field"
    <3>1. \/ ~Formats(Stage2Fields[Domain], Keys(scenarios[s]), Stage2Arguments)
          \/ ~Formats(ContinuationFields[Domain], Keys(scenarios[s]), ContinuationArguments)
      BY <1>5, <2>1, <2>3 DEF BeginDocument, Continue, Proceeds, Goes
    <3>2. Keys(scenarios[s]) \cap (Stage2Arguments \cup ContinuationArguments) # {}
      BY <1>1, <2>1, <2>2, <3>1, DomainsAreSound DEF Formats
    <3> QED BY <2>1, <2>3, <3>2 DEF FailureIsEarned, Keys
  <2>4. CASE how' # "no_field"
    BY <1>2, <1>5, <2>1, <2>4 DEF BeginDocument, Continue, Proceeds, Goes, Ends
  <2> QED BY <2>3, <2>4
<1>6. CASE (\E c \in Commands : Start(c)) \/ Killed
  BY <1>2, <1>6 DEF Start, Killed, Ends
<1>7. CASE DetectModel \/ LoadTokenizer \/ BeginStage1 \/ PrepareOutput \/ CallRefused \/ Summary
  BY <1>2, <1>7 DEF DetectModel, LoadTokenizer, BeginStage1, PrepareOutput, CallRefused,
     Summary, Ends, Goes, Proceeds, TypeInv, Retries, Running, Asking
<1>8. CASE \/ NextScenario \/ \E n \in FirstReplies : FirstReply(n)
           \/ LongEnough \/ EmptyReply \/ \E n \in MoreReplies : MoreReply(n)
           \/ Trim \/ AddNoise \/ OpenDocument \/ WriteDocument
           \/ OpenJsonl \/ WriteJsonl \/ OpenMetadata \/ WriteMetadata
  <2>1. Running /\ how' = how
    BY <1>8 DEF Running, Goes, Proceeds, NextScenario, FirstReply, LongEnough, EmptyReply,
       MoreReply, Trim, AddNoise, OpenDocument, WriteDocument, OpenJsonl, WriteJsonl,
       OpenMetadata, WriteMetadata
  <2> QED BY <1>2, <2>1 DEF TypeInv, Retries
<1>9. CASE UNCHANGED vars
  BY <1>9 DEF vars, plan, call, FailureInv, FailureIsEarned, Keys, Weights
<1> QED BY <1>3, <1>4, <1>5, <1>6, <1>7, <1>8, <1>9 DEF Next, Step

\* No build gives up on a server that was not given its attempts, turns down scenarios
\* that follow the prompt, or fails to fill a template with scenarios it has accepted.
THEOREM FailuresAreEarned == Spec => []FailureIsEarned
<1>1. TypeInv /\ FailureInv /\ [Next]_vars => TypeInv' /\ FailureInv'
  BY NextType, PromptedStep, AcceptedStep, InDocumentStep, EarnedStep
     DEF FailureInv, TypeInv, TypeOK
<1>2. FailureInv => FailureIsEarned
  BY DEF FailureInv
<1> QED BY <1>1, <1>2, InitType, InitFailure, PTL DEF Spec

-----------------------------------------------------------------------------
(* LengthIsExplained.  The reason for a short text is there when the loop   *)
(* is left; trimming makes none shorter than the tolerance, so only the      *)
(* noise can after that.                                                     *)

HasReason(n) == n < MinTarget(cmd.target) => GivenUp

\* One low yield is remembered in `low`.
Lows == pc \in {"judge", "ask_more"} /\ low = 1 => recent[2] < LowYield

\* A text is what it was before the noise, or off it by what the noise did.
Noisy ==
    \/ tokens = before
    \/ ~(tokens < MinTarget(cmd.target))
    \/ cmd.noise /\ tokens - before \in NoiseDeltas

LengthInv ==
    /\ Lows
    /\ pc = "trim" => HasReason(tokens)
    /\ pc \in {"noise", "open_document"} => HasReason(before)
    /\ pc = "noise" => cmd.noise /\ tokens = before
    /\ pc = "open_document" =>
          Noisy /\ (cmd.target >= 0 /\ tokens > cmd.target => tokens - cmd.target \in Drifts)

\* Before the first build there is no text.
LEMMA InitLength == Init => LengthInv
BY DEF Init, LengthInv, Lows

\* A text that was cut is not short.
LEMMA TrimmedIsLongEnough ==
    ASSUME ProcessOK, NEW n \in Int, NEW m \in TrimToTokens(n, cmd.target)
    PROVE  /\ m = n \/ ~(m < MinTarget(cmd.target))
           /\ cmd.target >= 0 /\ m > cmd.target => m - cmd.target \in Drifts
<1>1. cmd \in Commands /\ cmd.target \in Int
  BY CommandsAssumption DEF ProcessOK, Command
<1>2. /\ MinTarget(cmd.target) \in Int
      /\ cmd.target <= 0 => MinTarget(cmd.target) <= 0
  BY <1>1, MinTargetType
<1>3. CASE n <= cmd.target
  BY <1>1, <1>3 DEF TrimToTokens
<1>4. CASE ~(n <= cmd.target)
  <2>1. PICK d \in Drifts : m = NonNegative(Kept(n, cmd.target) + d)
    BY <1>4 DEF TrimToTokens
  <2>2. d \in Int /\ (cmd.target > 0 => cmd.target + d >= MinTarget(cmd.target))
    BY <1>1, DriftsAssumption, TextsAssumption
  <2>3. Kept(n, cmd.target) \in Int /\ (cmd.target >= 0 => Kept(n, cmd.target) = cmd.target)
    BY <1>1 DEF Kept, NonNegative
  <2>4. m \in Nat /\ m >= Kept(n, cmd.target) + d
        /\ (m > 0 => m = Kept(n, cmd.target) + d)
    BY <2>1, <2>2, <2>3 DEF NonNegative
  <2>5. ~(m < MinTarget(cmd.target))
    BY <1>1, <1>2, <2>2, <2>3, <2>4
  <2>6. cmd.target >= 0 /\ m > cmd.target => m - cmd.target = d
    BY <1>1, <2>2, <2>3, <2>4
  <2> QED BY <2>5, <2>6
<1> QED BY <1>3, <1>4

\* Every step carries the reason for a short text along.
LEMMA LengthStep ==
    ASSUME TypeInv, LengthInv, [Next]_vars PROVE LengthInv'
<1> USE DEF LengthInv, Lows, HasReason, GivenUp, Noisy, Goes, Proceeds, Ends, text
<1> DEFINE Told == {"judge", "ask_more", "trim", "noise", "open_document"}
<1>1. ASSUME pc' \notin Told PROVE LengthInv'
  BY <1>1
<1>2. ASSUME UNCHANGED <<pc, cmd, text>> PROVE LengthInv'
  BY <1>2
<1>3. /\ cmd.target \in Int /\ MinTarget(cmd.target) \in Int
      /\ tokens \in Int /\ cont \in 0..MaxContinuations /\ recent \in Nat \X Nat
      /\ MaxContinuations \in Nat
  BY CommandsAssumption, BoundsAssumption, MinTargetType
     DEF TypeInv, TypeOK, ProcessOK, TextOK, Command
<1>4. CASE (\E c \in Commands : Start(c)) \/ Killed
  BY <1>1, <1>4 DEF Start, Killed
<1>5. CASE \/ DetectModel \/ LoadTokenizer \/ BeginStage1 \/ PrepareOutput \/ CallRefused
           \/ (\E r \in Replies : ScenariosReply(r)) \/ NextScenario \/ BeginDocument
           \/ OpenDocument \/ WriteDocument \/ OpenJsonl \/ WriteJsonl
           \/ OpenMetadata \/ WriteMetadata \/ Summary
  <2>1. pc' \notin Told
    BY <1>5 DEF DetectModel, LoadTokenizer, BeginStage1, PrepareOutput, CallRefused,
       ScenariosReply, NextScenario, BeginDocument, OpenDocument, WriteDocument,
       OpenJsonl, WriteJsonl, OpenMetadata, WriteMetadata, Summary
  <2> QED BY <1>1, <2>1
<1>6. CASE CallFails
  BY <1>1, <1>2, <1>6 DEF CallFails
<1>7. CASE \E n \in FirstReplies : FirstReply(n)
  BY <1>7 DEF FirstReply
<1>8. CASE Continue
  BY <1>1, <1>8 DEF Continue
<1>9. CASE LongEnough
  BY <1>3, <1>9 DEF LongEnough, WantsMore
<1>10. CASE EmptyReply
  BY <1>3, <1>10 DEF EmptyReply
<1>11. ASSUME NEW n \in MoreReplies, MoreReply(n) PROVE LengthInv'
  <2>1. n \in Nat /\ recent' = <<recent[2], n>> /\ recent'[1] = recent[2] /\ recent'[2] = n
    BY <1>3, <1>11, TextsAssumption DEF MoreReply
  <2>2. low \in 0..1 /\ pc = "ask_more" /\ low' = NewLow(n)
    BY <1>11 DEF MoreReply, TypeInv, TypeOK, TextOK, Continuations
  <2>3. CASE low' >= 2
    <3>1. n < LowYield /\ recent[2] < LowYield /\ pc' = "trim"
      BY <1>11, <2>2, <2>3 DEF MoreReply, NewLow
    <3> QED BY <2>1, <3>1
  <2>4. CASE ~(low' >= 2)
    <3>1. pc' = "judge" /\ (low' = 1 => n < LowYield)
      BY <1>11, <2>2, <2>4 DEF MoreReply, NewLow
    <3> QED BY <2>1, <3>1
  <2> QED BY <2>3, <2>4
<1>12. CASE Trim
  <2>1. /\ tokens' \in TrimToTokens(tokens, cmd.target) /\ before' = tokens'
        /\ pc = "trim" /\ pc' = IF cmd.noise THEN "noise" ELSE "open_document"
        /\ UNCHANGED <<cmd, cont, recent>>
    BY <1>12 DEF Trim
  <2>2. /\ tokens' = tokens \/ ~(tokens' < MinTarget(cmd.target))
        /\ cmd.target >= 0 /\ tokens' > cmd.target => tokens' - cmd.target \in Drifts
    BY <1>3, <2>1, TrimmedIsLongEnough DEF TypeInv, TypeOK
  <2> QED BY <2>1, <2>2
<1>13. CASE AddNoise
  <2>1. PICK d \in NoiseDeltas : tokens' \in TrimToTokens(tokens + d, cmd.target)
    BY <1>13 DEF AddNoise, Retrimmed
  <2>2. pc = "noise" /\ pc' = "open_document" /\ UNCHANGED <<cmd, cont, recent, before>>
    BY <1>13 DEF AddNoise
  <2>3. d \in Int /\ tokens + d \in Int /\ (tokens + d) - tokens = d
    BY <1>3, TextsAssumption
  <2>4. /\ tokens' = tokens + d \/ ~(tokens' < MinTarget(cmd.target))
        /\ cmd.target >= 0 /\ tokens' > cmd.target => tokens' - cmd.target \in Drifts
    BY <2>1, <2>3, TrimmedIsLongEnough DEF TypeInv, TypeOK
  <2>5. cmd.noise /\ before = tokens
    BY <2>2
  <2> QED BY <2>1, <2>2, <2>3, <2>4, <2>5
<1>14. CASE UNCHANGED vars
  BY <1>2, <1>14 DEF vars
<1> QED BY <1>4, <1>5, <1>6, <1>7, <1>8, <1>9, <1>10, <1>11, <1>12, <1>13, <1>14 DEF Next, Step

\* Every document that is written is of the length asked for, but for what the
\* tolerance, the drift of the tokenizer, the model's reluctance or the noise explains.
THEOREM LengthsAreExplained == Spec => []LengthIsExplained
<1>1. TypeInv /\ LengthInv /\ [Next]_vars => TypeInv' /\ LengthInv'
  BY NextType, LengthStep
<1>2. TypeInv /\ LengthInv => LengthIsExplained
  <2> SUFFICES ASSUME TypeInv, LengthInv PROVE LengthIsExplained
    OBVIOUS
  <2>1. cmd.target \in Int /\ before \in Int
    BY CommandsAssumption DEF TypeInv, TypeOK, ProcessOK, TextOK, Command
  <2>2. MinTarget(cmd.target) \in Int
    BY <2>1, MinTargetType
  <2> QED BY <2>1, <2>2 DEF LengthInv, HasReason, Noisy, LengthIsExplained
<1> QED BY <1>1, <1>2, InitType, InitLength, PTL DEF Spec

-----------------------------------------------------------------------------
(* MetadataDescribesDisk, and that the directories are a SealedCorpus.  The *)
(* invariant says what a running build has written so far, and that all     *)
(* else is older.                                                           *)

\* Nothing is of a build that has not begun.
Older ==
    \A d \in DOMAINS :
        meta[d].build <= build /\ \A k \in DOMAIN docs[d] : docs[d][k].build <= build

\* Until a build writes its metadata there is none of its own.
MetadataIsOlder == Running /\ pc # "summary" => \A d \in DOMAINS : meta[d].build < build

\* What the list has is on disk.
Written ==
    /\ Len(items) = doc_id
    /\ Running => \A i \in 1..Len(items) :
          /\ i - 1 \in DOMAIN docs[Domain]
          /\ docs[Domain][i - 1] = [build |-> build, whole |-> TRUE, tokens |-> items[i].tokens]

\* What this build has put on disk is on the list, or about to be.
OwnFiles ==
    Running => \A k \in DOMAIN docs[Domain] :
        docs[Domain][k].build = build =>
            k < doc_id \/ (pc = "write_document" /\ k = doc_id)

Writing == {"write_document", "write_jsonl", "open_metadata", "write_metadata"}

JsonlIsWritten ==
    pc \in {"open_metadata", "write_metadata"} =>
        /\ cmd.target \in DOMAIN jsonl[Domain]
        /\ jsonl[Domain][cmd.target] = [build |-> build, whole |-> TRUE, items |-> items]

Withdrawn == pc = "write_metadata" => meta[Domain] = NoList

Progress == MetadataIsOlder /\ Written /\ OwnFiles /\ JsonlIsWritten /\ Withdrawn

DiskInv == Older /\ Progress /\ MetadataDescribesDisk

\* Every directory is empty and undescribed initially.
LEMMA InitDisk == Init => DiskInv
<1> SUFFICES ASSUME Init PROVE DiskInv
  OBVIOUS
<1>1. \A d \in DOMAINS : meta[d].build = 0 /\ meta[d].whole = FALSE /\ docs[d] = << >>
  BY DEF Init, NoList
<1>2. DOMAIN << >> = {} /\ Len(<< >>) = 0
  OBVIOUS
<1>3. pc = "idle" /\ build = 0 /\ doc_id = 0 /\ items = << >>
  BY DEF Init
<1>4. Older /\ Progress
  BY <1>1, <1>2, <1>3 DEF Older, Progress, MetadataIsOlder, Written, OwnFiles,
     JsonlIsWritten, Withdrawn, Running
<1>5. MetadataDescribesDisk
  BY <1>1, <1>2 DEF MetadataDescribesDisk, Layered
<1> QED BY <1>4, <1>5 DEF DiskInv

\* What the type invariant says of the disk, directory by directory.
LEMMA DiskFacts ==
    ASSUME TypeOK
    PROVE  /\ Domain \in DOMAINS /\ build \in Nat /\ doc_id \in Nat /\ tokens \in Int
           /\ items \in Seq(Items) /\ Len(items) \in Nat
           /\ DOMAIN docs = DOMAINS /\ DOMAIN jsonl = DOMAINS /\ DOMAIN meta = DOMAINS
           /\ \A d \in DOMAINS :
                 /\ meta[d].build \in Nat /\ Len(meta[d].items) \in Nat
                 /\ \A k \in DOMAIN docs[d] : k \in Nat /\ docs[d][k].build \in Nat
<1>1. Domain \in DOMAINS
  BY CommandsAssumption DEF TypeOK, ProcessOK, Command, Domain, list_domains
<1>2. build \in Nat /\ doc_id \in Nat /\ tokens \in Int /\ items \in Seq(Items)
  BY BoundsAssumption DEF TypeOK, ProcessOK, LoopOK, TextOK
<1>3. Len(items) \in Nat
  BY <1>2
<1>4. \A f \in Document : f.build \in Nat
  BY DEF Document
<1>5. \A m \in Metadata : m.build \in Nat /\ Len(m.items) \in Nat
  BY DEF Metadata
<1> QED BY <1>1, <1>2, <1>3, <1>4, <1>5 DEF TypeOK, DiskOK

\* What metadata says of the documents, or of the JSONL file, is so, or was before a
\* later build.
DocumentsOf(m, files) ==
    /\ \A i \in 1..Len(m.items) :
          /\ i - 1 \in DOMAIN files
          /\ \/ files[i - 1] = [build |-> m.build, whole |-> TRUE, tokens |-> m.items[i].tokens]
             \/ files[i - 1].build > m.build
    /\ \A k \in DOMAIN files : k >= Len(m.items) => files[k].build # m.build
JsonlOf(m, files) ==
    /\ m.target \in DOMAIN files
    /\ \/ files[m.target] = [build |-> m.build, whole |-> TRUE, items |-> m.items]
       \/ files[m.target].build > m.build

\* MetadataDescribesDisk, directory by directory.
LEMMA DescribedApart ==
    MetadataDescribesDisk <=>
        \A d \in DOMAINS :
            /\ Layered(docs[d])
            /\ meta[d].whole => DocumentsOf(meta[d], docs[d]) /\ JsonlOf(meta[d], jsonl[d])
BY DEF MetadataDescribesDisk, DocumentsOf, JsonlOf

\* A document that a later build replaces leaves the metadata as true as it was.
LEMMA LaterDocuments ==
    ASSUME NEW m, NEW files, NEW newFiles, NEW b \in Nat,
           m.build \in Nat, m.build < b, Len(m.items) \in Nat,
           DocumentsOf(m, files), DOMAIN files \subseteq DOMAIN newFiles,
           \A k \in DOMAIN newFiles :
              newFiles[k].build = b \/ (k \in DOMAIN files /\ newFiles[k] = files[k])
    PROVE  DocumentsOf(m, newFiles)
<1>1. ASSUME NEW i \in 1..Len(m.items)
      PROVE  /\ i - 1 \in DOMAIN newFiles
             /\ \/ newFiles[i - 1] = [build |-> m.build, whole |-> TRUE,
                                      tokens |-> m.items[i].tokens]
                \/ newFiles[i - 1].build > m.build
  <2>1. /\ i - 1 \in DOMAIN files
        /\ \/ files[i - 1] = [build |-> m.build, whole |-> TRUE, tokens |-> m.items[i].tokens]
           \/ files[i - 1].build > m.build
    BY DEF DocumentsOf
  <2>2. i - 1 \in DOMAIN newFiles
        /\ (newFiles[i - 1].build = b \/ newFiles[i - 1] = files[i - 1])
    BY <2>1
  <2>3. CASE newFiles[i - 1].build = b
    <3>1. newFiles[i - 1].build > m.build
      BY <2>3
    <3> QED BY <2>2, <3>1
  <2>4. CASE newFiles[i - 1] = files[i - 1]
    BY <2>1, <2>2, <2>4
  <2> QED BY <2>2, <2>3, <2>4
<1>2. \A k \in DOMAIN newFiles : k >= Len(m.items) => newFiles[k].build # m.build
  BY DEF DocumentsOf
<1> QED BY <1>1, <1>2 DEF DocumentsOf

\* So does a JSONL file.
LEMMA LaterJsonl ==
    ASSUME NEW m, NEW files, NEW newFiles, NEW b \in Nat,
           m.build \in Nat, m.build < b,
           JsonlOf(m, files), DOMAIN files \subseteq DOMAIN newFiles,
           \A k \in DOMAIN newFiles :
              newFiles[k].build = b \/ (k \in DOMAIN files /\ newFiles[k] = files[k])
    PROVE  JsonlOf(m, newFiles)
<1>1. /\ m.target \in DOMAIN newFiles
      /\ newFiles[m.target].build = b \/ newFiles[m.target] = files[m.target]
  BY DEF JsonlOf
<1>2. CASE newFiles[m.target].build = b
  <2>1. newFiles[m.target].build > m.build
    BY <1>2
  <2> QED BY <1>1, <2>1 DEF JsonlOf
<1>3. CASE newFiles[m.target] = files[m.target]
  BY <1>1, <1>3 DEF JsonlOf
<1> QED BY <1>1, <1>2, <1>3

\* A new build finds the directories as the earlier ones left them.
LEMMA StartDisk ==
    ASSUME TypeOK, DiskInv, NEW c \in Commands, Start(c) PROVE DiskInv'
<1>1. /\ pc' \in {"tokenizer", "detect"} /\ build' = build + 1
      /\ items' = << >> /\ doc_id' = 0
      /\ UNCHANGED <<docs, jsonl, meta>>
  BY DEF Start, NoMemory, disk
<1>2. Domain' \in DOMAINS
  BY CommandsAssumption DEF Start, Command, Domain, list_domains
<1>3. Len(<< >>) = 0
  OBVIOUS
<1>4. MetadataDescribesDisk'
  BY <1>1 DEF DiskInv, MetadataDescribesDisk
<1>5. Older' /\ MetadataIsOlder'
  BY <1>1, DiskFacts DEF DiskInv, Older, MetadataIsOlder
<1>6. OwnFiles'
  BY <1>1, <1>2, DiskFacts DEF DiskInv, Older, OwnFiles
<1>7. Written' /\ JsonlIsWritten' /\ Withdrawn'
  BY <1>1, <1>3 DEF Written, JsonlIsWritten, Withdrawn
<1> QED BY <1>4, <1>5, <1>6, <1>7 DEF DiskInv, Progress

\* The steps before, between and after the writes.
LEMMA QuietDisk ==
    ASSUME TypeOK, DiskInv, Step, ~Writes PROVE DiskInv'
<1>1. UNCHANGED <<docs, jsonl, meta>>
  BY OthersLeaveDisk DEF disk, Next
<1>2. /\ Running /\ pc \notin Writing /\ pc' \notin Writing /\ pc' # "summary"
      /\ pc = "summary" => pc' = "idle"
      /\ UNCHANGED <<cmd, build, items, doc_id>>
  BY DEF Writes, Step, DetectModel, LoadTokenizer, BeginStage1, CallFails, CallRefused, Asking,
     ScenariosReply, PrepareOutput, NextScenario, BeginDocument, FirstReply, Continue,
     LongEnough, EmptyReply, MoreReply, Trim, AddNoise, Summary, Goes, Proceeds, Ends,
     Running, Writing, loop
<1>3. MetadataDescribesDisk'
  BY <1>1 DEF DiskInv, MetadataDescribesDisk
<1>4. Older'
  BY <1>1, <1>2 DEF DiskInv, Older
<1>5. MetadataIsOlder' /\ Written' /\ OwnFiles'
  BY <1>1, <1>2 DEF DiskInv, Progress, MetadataIsOlder, Written, OwnFiles, Running, Domain, Writing
<1>6. JsonlIsWritten' /\ Withdrawn'
  BY <1>2 DEF JsonlIsWritten, Withdrawn, Writing
<1> QED BY <1>3, <1>4, <1>5, <1>6 DEF DiskInv, Progress

\* A build that is killed leaves files, and the claim of an earlier one about them.
LEMMA KilledDisk ==
    ASSUME DiskInv, Killed PROVE DiskInv'
<1>1. pc' = "idle" /\ UNCHANGED <<build, docs, jsonl, meta>>
      /\ items' = << >> /\ doc_id' = 0
  BY DEF Killed, Ends, NoMemory, disk
<1>2. Len(<< >>) = 0
  OBVIOUS
<1>3. MetadataDescribesDisk' /\ Older'
  BY <1>1 DEF DiskInv, MetadataDescribesDisk, Older
<1> QED BY <1>1, <1>2, <1>3 DEF DiskInv, Progress, MetadataIsOlder, Written, OwnFiles,
    JsonlIsWritten, Withdrawn, Running

\* The document a build opens, and then writes, is the one after those it has written.
LEMMA DocumentDisk ==
    ASSUME TypeOK, DiskInv, pc \in {"open_document", "write_document"}, build' = build,
           jsonl' = jsonl, meta' = meta,
           NEW file, file.build = build,
           docs' = [docs EXCEPT ![Domain] = Put(@, doc_id, file)]
    PROVE  /\ Older' /\ MetadataDescribesDisk'
           /\ DOMAIN docs'[Domain] = DOMAIN docs[Domain] \cup {doc_id}
           /\ docs'[Domain][doc_id] = file
           /\ \A k \in DOMAIN docs[Domain] : k # doc_id => docs'[Domain][k] = docs[Domain][k]
           /\ \A d \in DOMAINS \ {Domain} : docs'[d] = docs[d]
<1>1. /\ DOMAIN docs'[Domain] = DOMAIN docs[Domain] \cup {doc_id}
      /\ docs'[Domain][doc_id] = file
      /\ \A k \in DOMAIN docs[Domain] : k # doc_id => docs'[Domain][k] = docs[Domain][k]
      /\ \A d \in DOMAINS \ {Domain} : docs'[d] = docs[d]
  BY DiskFacts DEF Put
<1>2. /\ \A d \in DOMAINS : meta[d].build < build
      /\ \A d \in DOMAINS : \A k \in DOMAIN docs[d] : docs[d][k].build <= build
  BY DEF DiskInv, Progress, MetadataIsOlder, Running, Older
<1>3. Older'
  <2> SUFFICES ASSUME NEW d \in DOMAINS
               PROVE  (meta[d].build <= build /\ \A k \in DOMAIN docs[d] : docs[d][k].build <= build)'
    BY DEF Older
  <2>1. meta'[d].build <= build'
    BY <1>2, DiskFacts
  <2>2. CASE d = Domain
    BY <1>1, <1>2, <2>1, <2>2, DiskFacts
  <2>3. CASE d # Domain
    BY <1>1, <1>2, <2>1, <2>3
  <2> QED BY <2>2, <2>3
<1>4. Layered(docs'[Domain])
  <2> SUFFICES ASSUME NEW i \in DOMAIN docs'[Domain], NEW k \in DOMAIN docs'[Domain], i <= k
               PROVE  docs'[Domain][i].build >= docs'[Domain][k].build
    BY DEF Layered
  <2>1. i \in Nat /\ k \in Nat
    BY <1>1, DiskFacts
  <2>2. docs'[Domain][k].build \in Nat /\ docs'[Domain][k].build <= build
    BY <1>1, <1>2, DiskFacts
  <2>3. CASE i = doc_id
    BY <1>1, <2>2, <2>3, DiskFacts
  <2>4. CASE i < doc_id
    <3>1. Len(items) = doc_id /\ i + 1 \in 1..Len(items) /\ (i + 1) - 1 = i
      BY <2>1, <2>4, DiskFacts DEF DiskInv, Progress, Written
    <3>2. docs[Domain][i] = [build |-> build, whole |-> TRUE, tokens |-> items[i + 1].tokens]
      BY <3>1 DEF DiskInv, Progress, Written, Running
    <3>3. docs'[Domain][i].build = build
      BY <1>1, <2>4, <3>2, DiskFacts
    <3> QED BY <2>2, <3>3, DiskFacts
  <2>5. CASE i > doc_id
    <3>1. /\ i \in DOMAIN docs[Domain] /\ docs'[Domain][i] = docs[Domain][i]
          /\ k \in DOMAIN docs[Domain] /\ docs'[Domain][k] = docs[Domain][k]
      BY <1>1, <2>1, <2>5, DiskFacts
    <3>2. Layered(docs[Domain])
      BY DiskFacts DEF DiskInv, MetadataDescribesDisk
    <3> QED BY <3>1, <3>2 DEF Layered
  <2> QED BY <2>1, <2>3, <2>4, <2>5, DiskFacts
<1>5. ASSUME NEW d \in DOMAINS
      PROVE  /\ Layered(docs'[d])
             /\ meta'[d].whole => DocumentsOf(meta'[d], docs'[d]) /\ JsonlOf(meta'[d], jsonl'[d])
  <2>1. /\ Layered(docs[d])
        /\ meta[d].whole => DocumentsOf(meta[d], docs[d]) /\ JsonlOf(meta[d], jsonl[d])
    BY DescribedApart DEF DiskInv
  <2>2. CASE d # Domain
    BY <1>1, <2>1, <2>2
  <2>3. CASE d = Domain
    <3>1. DOMAIN docs[d] \subseteq DOMAIN docs'[d]
          /\ \A k \in DOMAIN docs'[d] :
                docs'[d][k].build = build \/ (k \in DOMAIN docs[d] /\ docs'[d][k] = docs[d][k])
      BY <1>1, <2>3
    <3>2. meta[d].build \in Nat /\ meta[d].build < build /\ Len(meta[d].items) \in Nat
          /\ build \in Nat
      BY <1>2, DiskFacts
    <3>3. ASSUME meta[d].whole PROVE DocumentsOf(meta[d], docs'[d])
      BY <2>1, <3>1, <3>2, <3>3, LaterDocuments
    <3> QED BY <1>4, <2>1, <2>3, <3>3
  <2> QED BY <2>2, <2>3
<1>6. MetadataDescribesDisk'
  BY <1>5 DEF MetadataDescribesDisk, DocumentsOf, JsonlOf
<1> QED BY <1>1, <1>3, <1>6

\* Opening a document empties one that metadata may describe.
LEMMA OpenDocumentDisk ==
    ASSUME TypeOK, DiskInv, OpenDocument PROVE DiskInv'
<1>1. /\ pc = "open_document" /\ pc' = "write_document"
      /\ docs' = [docs EXCEPT ![Domain] = Put(@, doc_id, Torn(build))]
      /\ UNCHANGED <<cmd, build, jsonl, meta, items, doc_id>>
  BY DEF OpenDocument, Proceeds, Goes, Number, loop
<1>2. Torn(build).build = build
  BY DEF Torn
<1>3. /\ Older' /\ MetadataDescribesDisk'
      /\ DOMAIN docs'[Domain] = DOMAIN docs[Domain] \cup {doc_id}
      /\ \A k \in DOMAIN docs[Domain] : k # doc_id => docs'[Domain][k] = docs[Domain][k]
  BY <1>1, <1>2, DocumentDisk
<1>4. Written'
  <2>1. /\ Len(items) = doc_id
        /\ \A i \in 1..Len(items) :
              /\ i - 1 \in DOMAIN docs[Domain]
              /\ docs[Domain][i - 1] = [build |-> build, whole |-> TRUE, tokens |-> items[i].tokens]
    BY <1>1 DEF DiskInv, Progress, Written, Running
  <2>2. \A i \in 1..doc_id : i - 1 # doc_id
    BY DiskFacts
  <2> QED BY <1>1, <1>3, <2>1, <2>2 DEF Written, Domain
<1>5. OwnFiles'
  BY <1>1, <1>3 DEF DiskInv, Progress, OwnFiles, Running, Domain
<1>6. MetadataIsOlder' /\ JsonlIsWritten' /\ Withdrawn'
  BY <1>1 DEF DiskInv, Progress, MetadataIsOlder, Running, JsonlIsWritten, Withdrawn
<1> QED BY <1>3, <1>4, <1>5, <1>6 DEF DiskInv, Progress

\* A written document is the next entry of the list.
LEMMA WriteDocumentDisk ==
    ASSUME TypeOK, DiskInv, WriteDocument PROVE DiskInv'
<1> DEFINE file == [build |-> build, whole |-> TRUE, tokens |-> Size(tokens)]
<1>1. /\ pc = "write_document" /\ pc' = "documents"
      /\ docs' = [docs EXCEPT ![Domain] = Put(@, doc_id, file)]
      /\ items' = Append(items, Entry) /\ doc_id' = doc_id + 1
      /\ UNCHANGED <<cmd, build, jsonl, meta>>
  BY DEF WriteDocument, Goes, Number
<1>2. /\ Older' /\ MetadataDescribesDisk'
      /\ DOMAIN docs'[Domain] = DOMAIN docs[Domain] \cup {doc_id}
      /\ docs'[Domain][doc_id] = file
      /\ \A k \in DOMAIN docs[Domain] : k # doc_id => docs'[Domain][k] = docs[Domain][k]
  <2>1. file.build = build
    OBVIOUS
  <2> HIDE DEF file
  <2> QED BY <1>1, <2>1, DocumentDisk
<1>3. Written'
  <2>1. Entry.tokens = Size(tokens)
    BY DEF Entry
  <2>2. /\ Len(items') = Len(items) + 1 /\ items'[Len(items) + 1].tokens = Size(tokens)
        /\ \A i \in 1..Len(items) : items'[i] = items[i]
    BY <1>1, <2>1, DiskFacts
  <2>3. Len(items) = doc_id
        /\ \A i \in 1..Len(items) :
              /\ i - 1 \in DOMAIN docs[Domain]
              /\ docs[Domain][i - 1] = [build |-> build, whole |-> TRUE, tokens |-> items[i].tokens]
    BY <1>1 DEF DiskInv, Progress, Written, Running
  <2>4. ASSUME NEW i \in 1..(doc_id + 1)
        PROVE  /\ i - 1 \in DOMAIN docs'[Domain]
               /\ docs'[Domain][i - 1] = [build |-> build, whole |-> TRUE, tokens |-> items'[i].tokens]
    <3>1. CASE i = doc_id + 1
      <4>1. i - 1 = doc_id /\ i = Len(items) + 1
        BY <2>3, <3>1, DiskFacts
      <4> QED BY <1>2, <2>2, <4>1
    <3>2. CASE i # doc_id + 1
      <4>1. i \in 1..Len(items) /\ i - 1 # doc_id
        BY <2>3, <3>2, DiskFacts
      <4> QED BY <1>2, <2>2, <2>3, <4>1
    <3> QED BY <3>1, <3>2
  <2> QED BY <1>1, <2>2, <2>3, <2>4 DEF Written, Domain
<1>4. OwnFiles'
  <2> HIDE DEF file
  <2>1. \A k \in DOMAIN docs[Domain] :
           docs[Domain][k].build = build => k < doc_id \/ k = doc_id
    BY <1>1 DEF DiskInv, Progress, OwnFiles, Running
  <2>2. \A k \in DOMAIN docs'[Domain] : docs'[Domain][k].build = build => k < doc_id + 1
    BY <1>2, <2>1, DiskFacts
  <2> QED BY <1>1, <2>2 DEF OwnFiles, Domain
<1>5. MetadataIsOlder' /\ JsonlIsWritten' /\ Withdrawn'
  BY <1>1 DEF DiskInv, Progress, MetadataIsOlder, Running, JsonlIsWritten, Withdrawn
<1> QED BY <1>2, <1>3, <1>4, <1>5 DEF DiskInv, Progress

\* The JSONL file is replaced by a later one than the metadata's.
LEMMA JsonlDisk ==
    ASSUME TypeOK, DiskInv, pc \in {"documents", "write_jsonl"}, build' = build,
           docs' = docs, meta' = meta,
           NEW file, file.build = build,
           jsonl' = [jsonl EXCEPT ![Domain] = Put(@, cmd.target, file)]
    PROVE  /\ Older' /\ MetadataDescribesDisk'
           /\ cmd.target \in DOMAIN jsonl'[Domain] /\ jsonl'[Domain][cmd.target] = file
<1>1. /\ DOMAIN jsonl'[Domain] = DOMAIN jsonl[Domain] \cup {cmd.target}
      /\ jsonl'[Domain][cmd.target] = file
      /\ \A k \in DOMAIN jsonl[Domain] : k # cmd.target => jsonl'[Domain][k] = jsonl[Domain][k]
      /\ \A d \in DOMAINS \ {Domain} : jsonl'[d] = jsonl[d]
  BY DiskFacts DEF Put
<1>2. \A d \in DOMAINS : meta[d].build < build
  BY DEF DiskInv, Progress, MetadataIsOlder, Running
<1>3. Older'
  BY DEF DiskInv, Older
<1>4. ASSUME NEW d \in DOMAINS
      PROVE  /\ Layered(docs[d])
             /\ meta[d].whole => DocumentsOf(meta[d], docs[d]) /\ JsonlOf(meta[d], jsonl'[d])
  <2>1. /\ Layered(docs[d])
        /\ meta[d].whole => DocumentsOf(meta[d], docs[d]) /\ JsonlOf(meta[d], jsonl[d])
    BY DescribedApart DEF DiskInv
  <2>2. CASE d # Domain
    BY <1>1, <2>1, <2>2
  <2>3. CASE d = Domain
    <3>1. DOMAIN jsonl[d] \subseteq DOMAIN jsonl'[d]
          /\ \A k \in DOMAIN jsonl'[d] :
                jsonl'[d][k].build = build \/ (k \in DOMAIN jsonl[d] /\ jsonl'[d][k] = jsonl[d][k])
      BY <1>1, <2>3
    <3>2. meta[d].build \in Nat /\ meta[d].build < build /\ build \in Nat
      BY <1>2, DiskFacts
    <3>3. ASSUME meta[d].whole PROVE JsonlOf(meta[d], jsonl'[d])
      BY <2>1, <3>1, <3>2, <3>3, LaterJsonl
    <3> QED BY <2>1, <2>3, <3>3
  <2> QED BY <2>2, <2>3
<1>5. MetadataDescribesDisk'
  BY <1>4 DEF MetadataDescribesDisk, DocumentsOf, JsonlOf
<1> QED BY <1>1, <1>3, <1>5

\* Opening the JSONL file empties one that metadata may describe.
LEMMA OpenJsonlDisk ==
    ASSUME TypeOK, DiskInv, OpenJsonl PROVE DiskInv'
<1> DEFINE file == [build |-> build, whole |-> FALSE, items |-> << >>]
<1>1. /\ pc = "documents" /\ pc' = "write_jsonl"
      /\ jsonl' = [jsonl EXCEPT ![Domain] = Put(@, cmd.target, file)]
      /\ UNCHANGED <<cmd, build, docs, meta, items, doc_id>>
  BY DEF OpenJsonl, Proceeds, Goes, loop
<1>2. Older' /\ MetadataDescribesDisk'
  <2>1. file.build = build
    OBVIOUS
  <2> HIDE DEF file
  <2> QED BY <1>1, <2>1, JsonlDisk
<1>3. Written' /\ OwnFiles'
  BY <1>1 DEF DiskInv, Progress, Written, OwnFiles, Running, Domain
<1>4. MetadataIsOlder' /\ JsonlIsWritten' /\ Withdrawn'
  BY <1>1 DEF DiskInv, Progress, MetadataIsOlder, Running, JsonlIsWritten, Withdrawn
<1> QED BY <1>2, <1>3, <1>4 DEF DiskInv, Progress

\* The JSONL file has the entries of the list.
LEMMA WriteJsonlDisk ==
    ASSUME TypeOK, DiskInv, WriteJsonl PROVE DiskInv'
<1> DEFINE file == [build |-> build, whole |-> TRUE, items |-> items]
<1>1. /\ pc = "write_jsonl" /\ pc' = "open_metadata"
      /\ jsonl' = [jsonl EXCEPT ![Domain] = Put(@, cmd.target, file)]
      /\ UNCHANGED <<cmd, build, docs, meta, items, doc_id>>
  BY DEF WriteJsonl, Proceeds, Goes, loop
<1>2. /\ Older' /\ MetadataDescribesDisk'
      /\ cmd.target \in DOMAIN jsonl'[Domain] /\ jsonl'[Domain][cmd.target] = file
  <2>1. file.build = build
    OBVIOUS
  <2> HIDE DEF file
  <2> QED BY <1>1, <2>1, JsonlDisk
<1>3. Written' /\ OwnFiles'
  BY <1>1 DEF DiskInv, Progress, Written, OwnFiles, Running, Domain
<1>4. MetadataIsOlder' /\ JsonlIsWritten' /\ Withdrawn'
  BY <1>1, <1>2
     DEF DiskInv, Progress, MetadataIsOlder, Running, JsonlIsWritten, Withdrawn, Domain
<1> QED BY <1>2, <1>3, <1>4 DEF DiskInv, Progress

\* Opening the metadata leaves none.
LEMMA OpenMetadataDisk ==
    ASSUME TypeOK, DiskInv, OpenMetadata PROVE DiskInv'
<1>1. /\ pc = "open_metadata" /\ pc' = "write_metadata"
      /\ meta' = [meta EXCEPT ![Domain] = NoList]
      /\ UNCHANGED <<cmd, build, docs, jsonl, items, doc_id>>
  BY DEF OpenMetadata, Proceeds, Goes, loop
<1>2. meta'[Domain] = NoList /\ \A d \in DOMAINS \ {Domain} : meta'[d] = meta[d]
  BY <1>1, DiskFacts
<1>3. NoList.build = 0 /\ NoList.whole = FALSE
  BY DEF NoList
<1>4. \A d \in DOMAINS : meta'[d].build < build
  BY <1>1, <1>2, <1>3, DiskFacts DEF DiskInv, Progress, MetadataIsOlder, Running
<1>5. MetadataDescribesDisk'
  <2>1. ASSUME NEW d \in DOMAINS
        PROVE  /\ Layered(docs[d])
               /\ meta'[d].whole => DocumentsOf(meta'[d], docs[d]) /\ JsonlOf(meta'[d], jsonl[d])
    BY <1>2, <1>3, DescribedApart DEF DiskInv
  <2> QED BY <1>1, <2>1 DEF MetadataDescribesDisk, DocumentsOf, JsonlOf
<1>6. Older'
  BY <1>1, <1>2, <1>3, DiskFacts DEF DiskInv, Older
<1>7. Written' /\ OwnFiles' /\ JsonlIsWritten'
  BY <1>1 DEF DiskInv, Progress, Written, OwnFiles, JsonlIsWritten, Running, Domain
<1>8. MetadataIsOlder' /\ Withdrawn'
  BY <1>1, <1>2, <1>4 DEF MetadataIsOlder, Withdrawn, Domain
<1> QED BY <1>5, <1>6, <1>7, <1>8 DEF DiskInv, Progress

\* All that the metadata says is true when it is written.
LEMMA WriteMetadataDisk ==
    ASSUME TypeOK, DiskInv, WriteMetadata PROVE DiskInv'
<1> DEFINE m == [build |-> build, whole |-> TRUE, target |-> cmd.target,
                 documents |-> cmd.documents, items |-> items]
<1>1. /\ pc = "write_metadata" /\ pc' = "summary"
      /\ meta' = [meta EXCEPT ![Domain] = m]
      /\ UNCHANGED <<cmd, build, docs, jsonl, items, doc_id>>
  BY DEF WriteMetadata, Proceeds, Goes, loop
<1>2. meta'[Domain] = m /\ \A d \in DOMAINS \ {Domain} : meta'[d] = meta[d]
  <2> HIDE DEF m
  <2> QED BY <1>1, DiskFacts
<1>3. m.build = build /\ m.target = cmd.target /\ m.items = items
  OBVIOUS
<1> HIDE DEF m
<1>4. DocumentsOf(m, docs[Domain]) /\ JsonlOf(m, jsonl[Domain])
  <2>1. /\ Len(items) = doc_id
        /\ \A i \in 1..Len(items) :
              /\ i - 1 \in DOMAIN docs[Domain]
              /\ docs[Domain][i - 1] = [build |-> build, whole |-> TRUE, tokens |-> items[i].tokens]
    BY <1>1 DEF DiskInv, Progress, Written, Running
  <2>2. /\ cmd.target \in DOMAIN jsonl[Domain]
        /\ jsonl[Domain][cmd.target] = [build |-> build, whole |-> TRUE, items |-> items]
    BY <1>1 DEF DiskInv, Progress, JsonlIsWritten
  <2>3. \A k \in DOMAIN docs[Domain] : docs[Domain][k].build = build => k < doc_id
    BY <1>1 DEF DiskInv, Progress, OwnFiles, Running
  <2>4. \A k \in DOMAIN docs[Domain] : k >= doc_id => docs[Domain][k].build # build
    BY <2>3, DiskFacts
  <2> QED BY <1>3, <2>1, <2>2, <2>4 DEF DocumentsOf, JsonlOf
<1>5. MetadataDescribesDisk'
  <2>1. ASSUME NEW d \in DOMAINS
        PROVE  /\ Layered(docs[d])
               /\ meta'[d].whole => DocumentsOf(meta'[d], docs[d]) /\ JsonlOf(meta'[d], jsonl[d])
    BY <1>2, <1>4, DescribedApart DEF DiskInv
  <2> QED BY <1>1, <2>1 DEF MetadataDescribesDisk, DocumentsOf, JsonlOf
<1>6. Older'
  BY <1>1, <1>2, <1>3, DiskFacts DEF DiskInv, Older
<1>7. Written' /\ OwnFiles'
  BY <1>1 DEF DiskInv, Progress, Written, OwnFiles, Running, Domain
<1>8. MetadataIsOlder' /\ JsonlIsWritten' /\ Withdrawn'
  BY <1>1 DEF MetadataIsOlder, JsonlIsWritten, Withdrawn
<1> QED BY <1>5, <1>6, <1>7, <1>8 DEF DiskInv, Progress

\* Every step keeps the invariant of the directories.
LEMMA NextDisk == ASSUME TypeOK, DiskInv, [Next]_vars PROVE DiskInv'
<1>1. CASE Step
  BY <1>1, QuietDisk, OpenDocumentDisk, WriteDocumentDisk, OpenJsonlDisk, WriteJsonlDisk,
     OpenMetadataDisk, WriteMetadataDisk DEF Writes
<1>2. CASE UNCHANGED vars
  BY <1>2 DEF vars, disk, loop, DiskInv, Progress, Older, MetadataIsOlder, Written, OwnFiles,
     JsonlIsWritten, Withdrawn, MetadataDescribesDisk, Running, Domain
<1> QED BY <1>1, <1>2, StartDisk, KilledDisk DEF Next

\* Whole metadata was true of the directory when it was written, and what is no longer as
\* it says is what a later build has replaced, however many builds were run over a
\* directory and wherever they were killed.
THEOREM MetadataIsTrue == Spec => []MetadataDescribesDisk
<1>1. TypeInv /\ DiskInv /\ [Next]_vars => TypeInv' /\ DiskInv'
  BY NextType, NextDisk DEF TypeInv
<1>2. DiskInv => MetadataDescribesDisk
  BY DEF DiskInv
<1> QED BY <1>1, <1>2, InitType, InitDisk, PTL DEF Spec

-----------------------------------------------------------------------------
(* The directories are a SealedCorpus: a build writes documents only until  *)
(* it has sealed the directory, and seals it when the list is as they are.  *)

seals == [d \in DOMAINS |-> [build |-> meta[d].build, list |-> meta[d].items]]

\* An empty disk is a disk without seals.
LEMMA InitSealed == Init => Sealed!Init
<1> SUFFICES ASSUME Init PROVE Sealed!Init
  OBVIOUS
<1>1. seals = [d \in DOMAINS |-> Sealed!NoSeal]
  BY DEF Init, NoList, seals, Sealed!NoSeal
<1>2. docs = [d \in DOMAINS |-> << >>]
  BY DEF Init
<1> QED BY <1>1, <1>2 DEF Sealed!Init, seals

\* A directory has the seal its metadata is.
LEMMA SealKept ==
    ASSUME NEW d \in DOMAINS, meta'[d] = meta[d] PROVE seals'[d] = seals[d]
BY DEF seals
LEMMA SealNow ==
    ASSUME NEW d \in DOMAINS
    PROVE  seals[d].build = meta[d].build /\ seals[d].list = meta[d].items
BY DEF seals
LEMMA SealAfter ==
    ASSUME NEW d \in DOMAINS
    PROVE  seals'[d].build = meta'[d].build /\ seals'[d].list = meta'[d].items
BY DEF seals
LEMMA NoSealNow ==
    ASSUME NEW d \in DOMAINS, meta[d] = NoList PROVE seals[d] = Sealed!NoSeal
BY DEF seals, NoList, Sealed!NoSeal
LEMMA NoSealAfter ==
    ASSUME NEW d \in DOMAINS, meta'[d] = NoList PROVE seals'[d] = Sealed!NoSeal
BY DEF seals, NoList, Sealed!NoSeal

\* The parts of a document that a reader tells apart.
LEMMA DocumentFields ==
    ASSUME NEW f, NEW b, NEW n, f = [build |-> b, whole |-> TRUE, tokens |-> n]
    PROVE  f.whole /\ f.tokens = n /\ f.build = b
OBVIOUS

\* The documents a build has written so far are whole, as they are listed and its own.
LEMMA WrittenFields ==
    ASSUME DiskInv, Running, NEW i \in 1..Len(items)
    PROVE  /\ i - 1 \in DOMAIN docs[Domain] /\ docs[Domain][i - 1].whole
           /\ docs[Domain][i - 1].tokens = items[i].tokens
           /\ docs[Domain][i - 1].build = build
<1>1. /\ i - 1 \in DOMAIN docs[Domain]
      /\ docs[Domain][i - 1] = [build |-> build, whole |-> TRUE, tokens |-> items[i].tokens]
  BY DEF DiskInv, Progress, Written
<1>2. PICK f : f = docs[Domain][i - 1]
  OBVIOUS
<1>3. f.whole /\ f.tokens = items[i].tokens /\ f.build = build
  <2>1. f = [build |-> build, whole |-> TRUE, tokens |-> items[i].tokens]
    BY <1>1, <1>2
  <2> QED BY <2>1, DocumentFields, Zenon
<1> QED BY <1>1, <1>2, <1>3

\* Every step writes what is not sealed by its own build, withdraws the seal, seals, or
\* changes nothing a reader sees.
LEMMA SealedStep ==
    ASSUME TypeOK, DiskInv, [Next]_vars
    PROVE  [Sealed!Next]_(Sealed!vars)
<1> USE DiskFacts
<1>1. CASE ~Writes \/ OpenJsonl \/ WriteJsonl
  <2>1. UNCHANGED <<docs, meta>>
    BY <1>1, OthersLeaveDisk DEF disk, OpenJsonl, WriteJsonl
  <2> QED BY <2>1 DEF Sealed!vars
<1>2. CASE Writes /\ ~OpenJsonl /\ ~WriteJsonl
  <2>1. /\ build' = build /\ Running /\ pc # "summary" /\ Domain' = Domain
        /\ \A d \in DOMAINS \ {Domain} : docs'[d] = docs[d] /\ meta'[d] = meta[d]
    BY <1>2 DEF Writes, OpenDocument, WriteDocument, OpenJsonl, WriteJsonl, OpenMetadata,
       WriteMetadata, Running, Domain
  <2>2. meta[Domain].build < build
    BY <2>1 DEF DiskInv, Progress, MetadataIsOlder
  <2>3. PICK d \in DOMAINS : d = Domain
    OBVIOUS
  <2>4. Sealed!Others(d)
    <3>1. \A e \in DOMAINS \ {d} : docs'[e] = docs[e] /\ seals'[e] = seals[e]
      BY <2>1, <2>3, SealKept
    <3> QED BY <3>1, Zenon DEF Sealed!Others, seals
  <2>5. CASE OpenDocument \/ WriteDocument
    <3>1. PICK file : file.build = build /\ docs' = [docs EXCEPT ![Domain] = Put(@, doc_id, file)]
      <4>1. Torn(build).build = build
        BY DEF Torn
      <4>2. [build |-> build, whole |-> TRUE, tokens |-> Size(tokens)].build = build
        OBVIOUS
      <4> QED BY <2>5, <4>1, <4>2 DEF OpenDocument, WriteDocument, Number
    <3>2. /\ DOMAIN docs'[d] = DOMAIN docs[d] \cup {doc_id}
          /\ docs'[d][doc_id].build = build
          /\ \A i \in DOMAIN docs[d] \ {doc_id} : docs'[d][i] = docs[d][i]
      BY <2>3, <3>1 DEF Put
    <3>3. seals'[d] = seals[d] /\ seals[d].build < build
      <4>1. meta'[d] = meta[d]
        BY <2>5 DEF OpenDocument, WriteDocument
      <4>2. seals[d].build = meta[d].build
        BY SealNow
      <4> QED BY <2>2, <2>3, <4>1, <4>2, SealKept
    <3>4. \A i \in DOMAIN docs[d] : i < doc_id => docs[d][i].whole /\ docs[d][i].build = build
      <4> SUFFICES ASSUME NEW i \in DOMAIN docs[d], i < doc_id
                   PROVE  docs[d][i].whole /\ docs[d][i].build = build
        OBVIOUS
      <4>1. i + 1 \in 1..Len(items) /\ (i + 1) - 1 = i
        BY DEF DiskInv, Progress, Written
      <4> QED BY <2>1, <2>3, <4>1, WrittenFields
    <3>5. doc_id \in DOMAIN docs'[d] /\ docs'[d][doc_id].build > seals[d].build
      <4>1. meta[d].build \in Nat /\ build \in Nat /\ seals[d].build = meta[d].build
        BY SealNow
      <4> QED BY <3>2, <3>3, <4>1
    <3>6. \A i \in DOMAIN docs[d] :
             i < doc_id => docs[d][i].whole /\ docs[d][i].build = docs'[d][doc_id].build
      BY <3>2, <3>4
    <3>7. Sealed!Write(d)
      BY <2>4, <3>2, <3>3, <3>5, <3>6, Zenon DEF Sealed!Write, seals
    <3> QED BY <3>7, Zenon DEF Sealed!Next
  <2>6. CASE OpenMetadata
    <3>1. docs'[d] = docs[d] /\ meta'[d] = NoList
      BY <2>3, <2>6 DEF OpenMetadata
    <3>2. seals'[d] = Sealed!NoSeal
      BY <3>1, NoSealAfter
    <3>3. Sealed!Withdraw(d)
      BY <2>4, <3>1, <3>2, Zenon DEF Sealed!Withdraw, seals
    <3> QED BY <3>3, Zenon DEF Sealed!Next
  <2>7. CASE WriteMetadata
    <3>1. /\ docs'[d] = docs[d] /\ meta[d] = NoList
          /\ meta'[d].build = build /\ meta'[d].items = items
      BY <2>3, <2>7 DEF WriteMetadata, DiskInv, Progress, Withdrawn
    <3>2. seals[d] = Sealed!NoSeal
      BY <3>1, NoSealNow
    <3>3. seals'[d].build = build /\ seals'[d].list = items
      BY <3>1, SealAfter
    <3>4. \A i \in 1..Len(items) :
             /\ i - 1 \in DOMAIN docs[d] /\ docs[d][i - 1].whole
             /\ docs[d][i - 1].tokens = items[i].tokens /\ docs[d][i - 1].build = build
      BY <2>1, <2>3, WrittenFields
    <3>5. \A k \in DOMAIN docs[d] : docs[d][k].build = build => k < Len(items)
      BY <2>1, <2>3, <2>7 DEF WriteMetadata, DiskInv, Progress, OwnFiles, Written
    <3>6. Sealed!Matches(docs[d], seals'[d])
      BY <3>3, <3>4, <3>5 DEF Sealed!Matches
    <3>7. Sealed!Seal(d)
      BY <2>4, <3>1, <3>2, <3>6, Zenon DEF Sealed!Seal, seals
    <3> QED BY <3>7, Zenon DEF Sealed!Next
  <2> QED BY <1>2, <2>5, <2>6, <2>7 DEF Writes
<1> QED BY <1>1, <1>2

\* What the builder writes, killed or not, is what SealedCorpus promises to readers.
THEOREM BuilderImplementsSealedCorpus == Spec => ImplementsSealedCorpus
<1>1. TypeInv /\ DiskInv /\ [Next]_vars => TypeInv' /\ DiskInv'
  BY NextType, NextDisk DEF TypeInv
<1>2. TypeInv /\ DiskInv /\ [Next]_vars => [Sealed!Next]_(Sealed!vars)
  BY SealedStep DEF TypeInv
<1> QED BY <1>1, <1>2, InitType, InitDisk, InitSealed, PTL DEF Spec, ImplementsSealedCorpus, Sealed!Spec

-----------------------------------------------------------------------------
(* AllocationIsProportional.  SharesAreFair is about the shares; that a      *)
(* build writes what was allocated is an invariant of its two loops: the     *)
(* entries are the shares of the scenarios before this one, and j.           *)

BeforeLoop == {"detect", "tokenizer", "stage1", "ask_scenarios", "prepare"}
InLoop == {"ask_first", "judge", "ask_more", "trim", "noise", "open_document", "write_document"}
AfterLoop == {"write_jsonl", "open_metadata", "write_metadata", "summary"}

\* for _ in range(count) does nothing for a count below zero.
Made(shares) == [i \in DOMAIN shares |-> IF shares[i] > 0 THEN shares[i] ELSE 0]

\* The entries, the scenario and the document of the loops agree.
Counted ==
    /\ s <= Len(scenarios) + 1
    /\ Len(items) = Area(Made(counts), 1..(s - 1)) + j
    /\ s <= Len(scenarios) => j <= Made(counts)[s]
    /\ s > Len(scenarios) => j = 0
\* The loops are not begun, under way, or done.
Placed ==
    /\ pc \in BeforeLoop => s = 1 /\ j = 0 /\ items = << >>
    /\ pc \in InLoop => s <= Len(scenarios) /\ j < counts[s]
    /\ pc \in AfterLoop => s > Len(scenarios)
Finished ==
    /\ how = "done" => s > Len(scenarios) /\ items # << >>
    /\ how = "no_documents" => s > Len(scenarios) /\ items = << >>
Allocated ==
    scenarios # << >> =>
        /\ Total(Weights(scenarios)) \in Nat \ {0}
        /\ counts \in Allocations(cmd.documents, Weights(scenarios))

CountInv == Counted /\ Placed /\ Finished /\ Allocated

\* What the loops make of the shares is a finite function into the integers.
LEMMA MadeType ==
    ASSUME NEW scens \in Seq(Scenario), NEW shares, DOMAIN shares = DOMAIN scens,
           \A i \in DOMAIN shares : shares[i] \in Int
    PROVE  /\ Integers(Made(shares)) /\ DOMAIN Made(shares) = 1..Len(scens)
           /\ DOMAIN shares = 1..Len(scens) /\ Len(scens) \in Nat
           /\ \A i \in 1..Len(scens) : Made(shares)[i] \in Nat
           /\ Area(Made(shares), {}) = 0
           /\ \A n \in Nat : n <= Len(scens) => Area(Made(shares), 1..n) \in Int
           /\ \A n \in 1..Len(scens) :
                 Area(Made(shares), 1..n) = Made(shares)[n] + Area(Made(shares), 1..(n - 1))
<1> DEFINE f == Made(shares)
<1>1. DOMAIN shares = 1..Len(scens) /\ Len(scens) \in Nat /\ DOMAIN f = 1..Len(scens)
  BY DEF Made
<1>2. IsFiniteSet(1..Len(scens))
  BY <1>1, 1 \in Int, FS_Interval
<1>3. Integers(f) /\ \A i \in 1..Len(scens) : f[i] \in Nat
  BY <1>1, <1>2 DEF Made, Integers
<1> HIDE DEF f
<1>4. Area(f, {}) = 0
  BY <1>3, AreaStep
<1>5. ASSUME NEW n \in Nat, n <= Len(scens) PROVE Area(f, 1..n) \in Int
  <2>1. 1..n \in SUBSET DOMAIN f
    BY <1>1, <1>5
  <2> QED BY <1>3, <2>1, AreaStep
<1>6. ASSUME NEW n \in 1..Len(scens) PROVE Area(f, 1..n) = f[n] + Area(f, 1..(n - 1))
  <2>1. 1..n \in SUBSET DOMAIN f /\ n \in 1..n
    BY <1>1
  <2>2. (1..n) \ {n} = 1..(n - 1)
    BY <1>1
  <2>3. Area(f, 1..n) = f[n] + Area(f, (1..n) \ {n})
    BY <1>3, <2>1, AreaStep
  <2> QED BY <2>2, <2>3
<1> QED BY <1>1, <1>3, <1>4, <1>5, <1>6 DEF f

\* So it is for the shares of a state.
LEMMA MadeHere ==
    ASSUME TypeOK
    PROVE  /\ scenarios \in Seq(Scenario) /\ DOMAIN counts = DOMAIN scenarios
           /\ \A i \in DOMAIN counts : counts[i] \in Int
           /\ s \in Nat \ {0} /\ j \in Nat
BY DEF TypeOK, PlanOK, LoopOK

\* Before the first scenario nothing is counted.
LEMMA NothingCounted ==
    ASSUME NEW scens \in Seq(Scenario), NEW shares, DOMAIN shares = DOMAIN scens,
           \A i \in DOMAIN shares : shares[i] \in Int
    PROVE  /\ 1 <= Len(scens) + 1
           /\ Len(<< >>) = Area(Made(shares), 1..(1 - 1)) + 0
           /\ 1 <= Len(scens) => 0 <= Made(shares)[1]
<1>1. 1..(1 - 1) = {} /\ Len(<< >>) = 0
  OBVIOUS
<1> QED BY <1>1, MadeType

\* Before the first build nothing is counted.
LEMMA InitCount == Init => CountInv
<1> SUFFICES ASSUME Init PROVE CountInv
  OBVIOUS
<1>1. scenarios \in Seq(Scenario) /\ DOMAIN counts = DOMAIN scenarios /\ DOMAIN counts = {}
  BY DEF Init
<1>2. Counted
  BY <1>1, NothingCounted DEF Init, Counted
<1> QED BY <1>2 DEF Init, CountInv, Placed, Finished, Allocated, BeforeLoop, InLoop, AfterLoop

\* A build that starts, or is killed, has forgotten the one before.
LEMMA ResetCount ==
    ASSUME (\E c \in Commands : Start(c)) \/ Killed PROVE CountInv'
<1>1. /\ scenarios' = << >> /\ counts' = << >> /\ s' = 1 /\ j' = 0 /\ items' = << >>
      /\ pc' \in {"idle", "tokenizer", "detect"} /\ how' \in {"-", "killed"}
  BY DEF Start, Killed, NoMemory, Ends
<1>2. scenarios' \in Seq(Scenario) /\ DOMAIN counts' = DOMAIN scenarios' /\ DOMAIN counts' = {}
  BY <1>1
<1>3. Counted'
  BY <1>1, <1>2, NothingCounted DEF Counted
<1> QED BY <1>1, <1>3 DEF CountInv, Placed, Finished, Allocated, BeforeLoop, InLoop, AfterLoop

\* The scenarios come with their allocation, before the loops begin.
LEMMA PlannedCount ==
    ASSUME TypeOK, TypeOK', Retries, CountInv, NEW r \in Replies, ScenariosReply(r)
    PROVE  CountInv'
<1>1. /\ s' = 1 /\ j' = 0 /\ items' = << >> /\ cmd' = cmd
      /\ how' \in {"-", "bad_scenarios"} /\ pc' \in {"prepare", "idle"}
  BY DEF ScenariosReply, Goes, Proceeds, Ends, CountInv, Placed, BeforeLoop, Retries, Running, loop
<1>2. /\ scenarios' \in Seq(Scenario) /\ DOMAIN counts' = DOMAIN scenarios'
      /\ \A i \in DOMAIN counts' : counts'[i] \in Int
  BY DEF TypeOK, PlanOK
<1>3. Counted'
  BY <1>1, <1>2, NothingCounted DEF Counted
<1>4. Allocated'
  BY DEF ScenariosReply, CountInv, Allocated, Acceptable
<1> QED BY <1>1, <1>3, <1>4 DEF CountInv, Placed, Finished, BeforeLoop, InLoop, AfterLoop

\* A scenario that has all its documents has its share.
LEMMA NextScenarioCount ==
    ASSUME TypeOK, Retries, CountInv, NextScenario PROVE CountInv'
<1>1. /\ how = "-" /\ pc = "documents" /\ s <= Len(scenarios) /\ j >= counts[s]
      /\ s' = s + 1 /\ j' = 0
      /\ UNCHANGED <<pc, cmd, how, scenarios, counts, items>>
  BY DEF NextScenario, plan, Retries, Running
<1> DEFINE made == Made(counts)
<1>2. /\ s \in 1..Len(scenarios) /\ s - 1 \in Nat /\ s - 1 <= Len(scenarios) /\ Len(scenarios) \in Nat
      /\ \A i \in 1..Len(scenarios) : made[i] \in Nat
  BY <1>1, MadeHere, MadeType
<1>3. j = made[s]
  BY <1>1, <1>2, MadeHere, MadeType DEF Made, CountInv, Counted
<1> HIDE DEF made
<1>4. Area(made, 1..s) = made[s] + Area(made, 1..(s - 1)) /\ Area(made, 1..(s - 1)) \in Int
  BY <1>2, MadeHere, MadeType DEF made
<1>5. Len(items) = Area(made, 1..(s - 1)) + j
  BY DEF made, CountInv, Counted
<1>6. s' - 1 = s
  BY <1>2, <1>1
<1>7. Len(items) = Area(made, 1..(s' - 1)) + 0
  BY <1>2, <1>3, <1>4, <1>5, <1>6
<1>8. s' <= Len(scenarios) => 0 <= made[s']
  BY <1>1, <1>2
<1>9. s' <= Len(scenarios) + 1
  BY <1>1, <1>2
<1>10. Counted'
  BY <1>1, <1>7, <1>8, <1>9 DEF Counted, made
<1> QED BY <1>1, <1>10 DEF CountInv, Placed, Finished, Allocated, BeforeLoop, InLoop, AfterLoop, Weights

\* A document that is written is one of its scenario's share.
LEMMA WriteDocumentCount ==
    ASSUME TypeOK, Retries, CountInv, WriteDocument PROVE CountInv'
<1>1. /\ pc = "write_document" /\ pc' = "documents" /\ how' = how /\ how = "-"
      /\ items' = Append(items, Entry) /\ j' = j + 1
      /\ UNCHANGED <<s, cmd, scenarios, counts>>
  BY DEF WriteDocument, Goes, plan, Retries, Running
<1>2. s <= Len(scenarios) /\ j < counts[s]
  BY <1>1 DEF CountInv, Placed, InLoop
<1> DEFINE made == Made(counts)
<1>3. Len(items') = Len(items) + 1 /\ Len(items) \in Nat
  BY <1>1 DEF TypeOK, LoopOK
<1>4. /\ s \in 1..Len(scenarios) /\ s - 1 \in Nat /\ s - 1 <= Len(scenarios) /\ Len(scenarios) \in Nat
      /\ j + 1 <= made[s]
  BY <1>2, MadeHere, MadeType DEF Made
<1> HIDE DEF made
<1>5. Area(made, 1..(s - 1)) \in Int
  BY <1>4, MadeHere, MadeType DEF made
<1>6. Len(items) = Area(made, 1..(s - 1)) + j
  BY DEF made, CountInv, Counted
<1>7. Len(items') = Area(made, 1..(s - 1)) + (j + 1)
  BY <1>3, <1>5, <1>6, MadeHere
<1>8. s <= Len(scenarios) + 1 /\ ~(s > Len(scenarios))
  BY <1>4
<1>9. Counted'
  BY <1>1, <1>4, <1>7, <1>8 DEF Counted, made
<1> QED BY <1>1, <1>9 DEF CountInv, Placed, Finished, Allocated, BeforeLoop, InLoop, AfterLoop, Weights

\* Where the program goes without counting.
LEMMA OtherPlaces ==
    ASSUME TypeOK, Retries, Placed, Step, ~NextScenario, ~WriteDocument,
           ~(\E r \in Replies : ScenariosReply(r))
    PROVE  /\ UNCHANGED <<cmd, scenarios, counts, s, j, items>>
           /\ pc' \in BeforeLoop => pc \in BeforeLoop
           /\ pc' \in InLoop => pc \in InLoop \/ (s <= Len(scenarios) /\ j < counts[s])
           /\ pc' \in AfterLoop => pc \in AfterLoop \/ s > Len(scenarios)
           /\ how' \in {"done", "no_documents"} =>
                 /\ pc \in AfterLoop
                 /\ how' = "no_documents" <=> items = << >>
<1> USE DEF Retries, Running, Goes, Proceeds, Ends, BeforeLoop, InLoop, AfterLoop, plan, loop
<1>1. CASE DetectModel \/ LoadTokenizer \/ BeginStage1 \/ PrepareOutput
  BY <1>1 DEF DetectModel, LoadTokenizer, BeginStage1, PrepareOutput
<1>2. CASE CallFails \/ CallRefused
  BY <1>2 DEF CallFails, CallRefused, Asking
<1>3. CASE BeginDocument \/ Continue \/ LongEnough \/ EmptyReply
  BY <1>3 DEF BeginDocument, Continue, LongEnough, EmptyReply
<1>4. CASE (\E n \in FirstReplies : FirstReply(n)) \/ (\E n \in MoreReplies : MoreReply(n))
  BY <1>4 DEF FirstReply, MoreReply
<1>5. CASE Trim \/ AddNoise
  BY <1>5 DEF Trim, AddNoise
<1>6. CASE OpenDocument \/ OpenJsonl \/ WriteJsonl \/ OpenMetadata \/ WriteMetadata
  BY <1>6 DEF OpenDocument, OpenJsonl, WriteJsonl, OpenMetadata, WriteMetadata
<1>7. CASE Summary
  BY <1>7 DEF Summary
<1> QED BY <1>1, <1>2, <1>3, <1>4, <1>5, <1>6, <1>7 DEF Step

\* Every step keeps the count.
LEMMA NextCount ==
    ASSUME TypeOK, TypeOK', Retries, CountInv, [Next]_vars PROVE CountInv'
<1>1. CASE Step /\ ~NextScenario /\ ~WriteDocument /\ ~(\E r \in Replies : ScenariosReply(r))
  <2>1. UNCHANGED <<cmd, scenarios, counts, s, j, items>>
    BY <1>1, OtherPlaces DEF CountInv
  <2>2. Counted' /\ Allocated'
    BY <2>1 DEF CountInv, Counted, Allocated
  <2>3. Placed' /\ Finished'
    BY <1>1, <2>1, OtherPlaces DEF CountInv, Placed, Finished
  <2> QED BY <2>2, <2>3 DEF CountInv
<1>2. CASE UNCHANGED vars
  BY <1>2 DEF vars, plan, loop, CountInv, Counted, Placed, Finished, Allocated
<1> QED BY <1>1, <1>2, ResetCount, PlannedCount, NextScenarioCount, WriteDocumentCount DEF Next

\* The sign of a quota, rounded down or up, is that of the weight times the documents.
LEMMA QuotaSign ==
    ASSUME NEW w \in Nat, NEW total \in Int, NEW W \in Nat \ {0}
    PROVE  /\ total >= 0 => (w * total) \div W >= 0
           /\ total < 0 => Ceiling(w * total, W) <= 0
<1>1. PICK x \in Int : x = w * total
  OBVIOUS
<1>2. (total >= 0 => x >= 0) /\ (total < 0 => x <= 0)
  BY <1>1
<1>3. \A y \in Int : y >= 0 => y \div W >= 0
  OBVIOUS
<1>4. -x \in Int /\ (x <= 0 => -x >= 0)
  BY <1>1
<1>5. x <= 0 => (-x) \div W >= 0
  BY <1>3, <1>4
<1>6. (-x) \div W \in Int
  BY <1>4
<1> QED BY <1>1, <1>2, <1>3, <1>5, <1>6 DEF Ceiling

\* The weights of a state are numbered integers.
LEMMA WeightsType ==
    ASSUME TypeOK
    PROVE  /\ Fractions(Weights(scenarios)) /\ DOMAIN Weights(scenarios) = DOMAIN scenarios
           /\ \A i \in DOMAIN scenarios : Weights(scenarios)[i] \in Int
<1>1. DOMAIN scenarios = 1..Len(scenarios) /\ Len(scenarios) \in Nat
      /\ \A i \in DOMAIN scenarios : scenarios[i] \in Scenario
  BY MadeHere
<1>2. \A x \in Scenario : x.weight \in Int
  BY DEF Scenario
<1>3. IsFiniteSet(1..Len(scenarios))
  BY <1>1, 1 \in Int, FS_Interval
<1> QED BY <1>1, <1>2, <1>3 DEF Fractions, Integers, Weights

\* The loops, once done, have made a fair share of documents of every scenario.
LEMMA MadeAll ==
    ASSUME TypeOK, CountInv, scenarios # << >>, s > Len(scenarios),
           \A i \in DOMAIN scenarios : Weights(scenarios)[i] >= 0
    PROVE  Len(items) = IF cmd.documents >= 0 THEN cmd.documents ELSE 0
<1> DEFINE weights == Weights(scenarios)
           made == Made(counts)
<1>1. PICK total \in Int : total = cmd.documents
  BY CommandsAssumption DEF TypeOK, ProcessOK, Command
<1>2. PICK W \in Nat \ {0} : W = Total(weights)
  BY DEF CountInv, Allocated
<1>3. /\ Fractions(weights) /\ DOMAIN weights = DOMAIN scenarios /\ DOMAIN counts = DOMAIN scenarios
      /\ \A i \in DOMAIN scenarios : weights[i] \in Nat /\ counts[i] \in Int
  BY MadeHere, WeightsType
<1>4. IsFairShare(counts, total, weights)
  BY <1>1, <1>2, <1>3, SharesAreFair DEF CountInv, Allocated
<1> HIDE DEF weights
<1>5. /\ Total(counts) = total
      /\ \A i \in DOMAIN scenarios : /\ counts[i] >= (weights[i] * total) \div W
                                     /\ counts[i] <= Ceiling(weights[i] * total, W)
  BY <1>2, <1>3, <1>4 DEF IsFairShare
<1>6. ASSUME NEW i \in DOMAIN scenarios
      PROVE  /\ total >= 0 => counts[i] >= 0
             /\ total < 0 => counts[i] <= 0
  <2>1. PICK least \in Int : least = (weights[i] * total) \div W
    <3>1. weights[i] * total \in Int
      BY <1>3
    <3> QED BY <3>1
  <2>2. PICK most \in Int : most = Ceiling(weights[i] * total, W)
    <3>1. -(weights[i] * total) \in Int
      BY <1>3
    <3>2. -((-(weights[i] * total)) \div W) \in Int
      BY <3>1
    <3> QED BY <3>2 DEF Ceiling
  <2>3. (total >= 0 => least >= 0) /\ (total < 0 => most <= 0)
    BY <1>3, <2>1, <2>2, QuotaSign
  <2>4. counts[i] >= least /\ counts[i] <= most /\ counts[i] \in Int
    BY <1>3, <1>5, <2>1, <2>2
  <2> QED BY <2>3, <2>4
<1>7. Len(items) = Area(made, DOMAIN made)
  <2>1. /\ s - 1 = Len(scenarios) /\ j = 0 /\ Len(items) = Area(made, 1..(s - 1)) + j
        /\ Len(scenarios) \in Nat
    BY MadeHere DEF CountInv, Counted
  <2>2. Area(made, 1..Len(scenarios)) \in Int /\ DOMAIN made = 1..Len(scenarios)
    BY <2>1, MadeHere, MadeType
  <2> HIDE DEF made
  <2> QED BY <2>1, <2>2
<1>8. Integers(made) /\ DOMAIN made = DOMAIN scenarios /\ DOMAIN counts = DOMAIN scenarios
  BY MadeHere, MadeType DEF Made
<1>9. CASE total >= 0
  <2>1. made = counts
    <3>1. \A i \in DOMAIN scenarios : made[i] = counts[i]
      BY <1>3, <1>6, <1>9 DEF Made
    <3>2. made = [i \in DOMAIN scenarios |-> made[i]]
      BY <1>8 DEF Made
    <3>3. counts = [i \in DOMAIN scenarios |-> counts[i]]
      <4>1. PICK rounding : counts = AllocateCounts(cmd.documents, RawQuotas(cmd.documents, Weights(scenarios), rounding),
                                                    Total(Weights(scenarios)) * Ulp)
        BY DEF CountInv, Allocated, Allocations
      <4>2. counts = [i \in DOMAIN counts |-> counts[i]]
        BY <4>1 DEF AllocateCounts
      <4> QED BY <4>2, <1>3
    <3> HIDE DEF made
    <3> QED BY <3>1, <3>2, <3>3
  <2>2. Total(made) = Area(made, DOMAIN made)
    BY <1>8, TotalIsArea
  <2> QED BY <1>1, <1>5, <1>7, <1>9, <2>1, <2>2
<1>10. CASE total < 0
  <2>1. \A i \in DOMAIN made : made[i] = IF i \in {} THEN 1 ELSE 0
    BY <1>3, <1>6, <1>8, <1>10 DEF Made
  <2> HIDE DEF made
  <2>2. {} \in SUBSET DOMAIN made
    OBVIOUS
  <2>3. Total(made) = Cardinality({})
    BY <1>8, <2>1, <2>2, TotalCounts
  <2>4. Total(made) = Area(made, DOMAIN made)
    BY <1>8, TotalIsArea
  <2> QED BY <1>1, <1>7, <1>10, <2>3, <2>4, FS_EmptySet
<1> QED BY <1>9, <1>10

\* Every allocation a build makes is fair, and a build that ends by itself has made it.
THEOREM AllocationIsFair == Spec => []AllocationIsProportional
<1>1. TypeInv /\ CountInv /\ TypeInv' /\ [Next]_vars => CountInv'
  BY NextCount DEF TypeInv
<1>2. TypeInv /\ CountInv => AllocationIsProportional
  <2> SUFFICES ASSUME TypeInv, CountInv, scenarios # << >>
               PROVE  /\ IsFairShare(counts, cmd.documents, Weights(scenarios))
                      /\ \A n \in 0..MaxShares : \A shares \in Allocations(n, Weights(scenarios)) :
                            IsFairShare(shares, n, Weights(scenarios))
                      /\ (\A i \in DOMAIN Weights(scenarios) : Weights(scenarios)[i] >= 0) =>
                            /\ how = "done" => Len(items) = cmd.documents
                            /\ how = "no_documents" => cmd.documents <= 0
    BY DEF AllocationIsProportional
  <2>1. /\ Fractions(Weights(scenarios)) /\ Total(Weights(scenarios)) \in Nat \ {0}
        /\ DOMAIN Weights(scenarios) = DOMAIN scenarios
        /\ counts \in Allocations(cmd.documents, Weights(scenarios))
        /\ cmd.documents \in Int
    BY WeightsType, CommandsAssumption DEF TypeInv, TypeOK, ProcessOK, Command, CountInv, Allocated
  <2>2. IsFairShare(counts, cmd.documents, Weights(scenarios))
    BY <2>1, SharesAreFair
  <2>3. ASSUME NEW n \in 0..MaxShares, NEW shares \in Allocations(n, Weights(scenarios))
        PROVE  IsFairShare(shares, n, Weights(scenarios))
    <3>1. n \in Int
      BY BoundsAssumption
    <3> QED BY <2>1, <2>3, <3>1, SharesAreFair
  <2>4. ASSUME \A i \in DOMAIN Weights(scenarios) : Weights(scenarios)[i] >= 0
        PROVE  /\ how = "done" => Len(items) = cmd.documents
               /\ how = "no_documents" => cmd.documents <= 0
    <3>1. s > Len(scenarios) => Len(items) = IF cmd.documents >= 0 THEN cmd.documents ELSE 0
      BY <2>1, <2>4, MadeAll DEF TypeInv
    <3>2. items \in Seq(Items)
      BY DEF TypeInv, TypeOK, LoopOK
    <3>3. items = << >> <=> Len(items) = 0
      BY <3>2
    <3> QED BY <2>1, <3>1, <3>3 DEF CountInv, Finished
  <2> QED BY <2>2, <2>3, <2>4
<1> QED BY <1>1, <1>2, InitType, InitCount, NextType, PTL DEF Spec
===============================================================================
