----------------------------- MODULE Generators -----------------------------
(***************************************************************************)
(* The registry of document domains, corpus/generators/.  A domain module  *)
(* is its four attributes.  Of a prompt or template only the names in it   *)
(* matter: the keys a Stage 1 prompt asks the model for, and the           *)
(* placeholders a template wants filled.                                   *)
(***************************************************************************)

\* Beside the definitions there are mutants, operators that nothing uses: each is
\* the definition it stands before with a bug the code does not have.

\* generators/legal.py
LegalKeysWithoutParties ==
    {"scenario_id", "title", "doc_type", "setting", "weight", "context"}
LegalKeys ==
    {"scenario_id", "title", "doc_type", "setting", "weight", "context", "parties"}
LegalAsksFor ==
    {"scenario_id", "title", "doc_type", "setting", "context", "parties", "weight"}
LegalStage2Fields ==
    {"doc_type", "title", "setting", "context", "parties", "token_target", "doc_number"}
LegalContinuationFields == {"doc_type", "remaining_tokens"}

\* generators/medical.py
MedicalKeys == {"scenario_id", "title", "doc_type", "setting", "weight"}
MedicalAsksFor == {"scenario_id", "title", "doc_type", "setting", "weight"}
MedicalStage2Fields == {"doc_type", "setting", "title", "token_target", "doc_number"}
MedicalContinuationFields == {"doc_type", "remaining_tokens"}

\* generators/narrative.py is a stub: its keys are there, its prompts are None.
NarrativeKeys == {"scenario_id", "title", "doc_type", "setting", "weight"}

-----------------------------------------------------------------------------
DOMAINS == {"legal", "medical", "narrative"}

\* What the command line offers, implemented or not.
list_domains == DOMAINS

HasStage1Prompt(d) == d # "narrative"

REQUIRED_SCENARIO_KEYS ==
    [legal |-> LegalKeys, medical |-> MedicalKeys, narrative |-> NarrativeKeys]

\* The keys of a scenario that follows the Stage 1 prompt to the letter.
AsksFor == [legal |-> LegalAsksFor, medical |-> MedicalAsksFor, narrative |-> {}]

Stage2Fields ==
    [legal |-> LegalStage2Fields, medical |-> MedicalStage2Fields, narrative |-> {}]
ContinuationFields ==
    [legal |-> LegalContinuationFields, medical |-> MedicalContinuationFields,
     narrative |-> {}]

\* What build_corpus.py passes to format() beside the scenario's own keys.
Stage2Arguments == {"token_target", "doc_number"}
ContinuationArguments == {"remaining_tokens"}

\* template.format(**scenario, argument=...): a placeholder without a value is a
\* KeyError, a key of the scenario that is also an argument a TypeError.
Formats(fields, keys, arguments) ==
    /\ fields \subseteq keys \cup arguments
    /\ keys \cap arguments = {}
=============================================================================
