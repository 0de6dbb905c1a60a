------------------------------ MODULE TaskSpec ------------------------------
(***************************************************************************)
(* The task of a job (types/task.rs): the names clients use, the prompts   *)
(* of the two task types, and the Florence tokens they stand for.          *)
(*                                                                         *)
(* A string of a client is [text, padded]: what is left after trim(), and  *)
(* whether there was whitespace around it.                                 *)
(***************************************************************************)
EXTENDS TLC

CONSTANT None       \* an Option that is not there, or a Result that is an error

\* SINGLE_TASK_PROMPTS
SinglePrompts ==
    {"Caption", "Detailed Caption", "More Detailed Caption", "Object Detection",
     "Dense Region Caption", "Region Proposal", "Caption to Phrase Grounding",
     "Referring Expression Segmentation", "Region to Segmentation", "Open Vocabulary Detection",
     "Region to Category", "Region to Description", "OCR", "OCR with Region"}

\* CASCADED_TASK_PROMPTS
CascadedPrompts ==
    {"Caption + Grounding", "Detailed Caption + Grounding", "More Detailed Caption + Grounding"}

\* TaskPrompt::single_task_token, over the prompts of a single task.
SingleToken ==
    [p \in SinglePrompts |->
      CASE p = "Caption"                             -> "CAPTION"
        [] p = "Detailed Caption"                    -> "DETAILED_CAPTION"
        [] p = "More Detailed Caption"               -> "MORE_DETAILED_CAPTION"
        [] p = "Object Detection"                    -> "OD"
        [] p = "Dense Region Caption"                -> "DENSE_REGION_CAPTION"
        [] p = "Region Proposal"                     -> "REGION_PROPOSAL"
        [] p = "Caption to Phrase Grounding"         -> "CAPTION_TO_PHRASE_GROUNDING"
        [] p = "Referring Expression Segmentation"   -> "REFERRING_EXPRESSION_SEGMENTATION"
        [] p = "Region to Segmentation"              -> "REGION_TO_SEGMENTATION"
        [] p = "Open Vocabulary Detection"           -> "OPEN_VOCABULARY_DETECTION"
        [] p = "Region to Category"                  -> "REGION_TO_CATEGORY"
        [] p = "Region to Description"               -> "REGION_TO_DESCRIPTION"
        [] p = "OCR"                                 -> "OCR"
        [] p = "OCR with Region"                     -> "OCR_WITH_REGION"]

\* TaskPrompt::cascaded_caption_token, over those of a cascaded task.
CaptionToken ==
    [p \in CascadedPrompts |->
      CASE p = "Caption + Grounding"                 -> "CAPTION"
        [] p = "Detailed Caption + Grounding"        -> "DETAILED_CAPTION"
        [] p = "More Detailed Caption + Grounding"   -> "MORE_DETAILED_CAPTION"]

TaskTypes == {"Single", "Cascaded"}

\* TaskType::prompts
PromptsOf(type) == IF type = "Single" THEN SinglePrompts ELSE CascadedPrompts

Text(s) == [text |-> s, padded |-> FALSE]

\* TaskType::as_str, with the label of the Florence Space.
TypeName(type) == Text(IF type = "Single" THEN "Single task" ELSE "Cascased task")

\* Mutant of PromptName: the token is stored instead of the name.
PromptToken(prompt) == Text((SingleToken @@ CaptionToken)[prompt])

\* TaskPrompt::as_str
PromptName(prompt) == Text(prompt)

\* Mutant of TypesNamed: the string is not trimmed.
TypesNamedExactly(v) ==
    {t \in TaskTypes : v = TypeName(t) \/ (t = "Cascaded" /\ v = Text("Cascaded task"))}

\* TaskType::parse: the type that v names, if any, in either spelling.
TypesNamed(v) ==
    {t \in TaskTypes :
        v.text = TypeName(t).text \/ (t = "Cascaded" /\ v.text = "Cascaded task")}

\* TaskPrompt::parse_for_type
PromptsNamed(type, v) == {p \in PromptsOf(type) : p = v.text}

\* normalize_optional_text
NormalizeText(v) == IF v = None \/ v.text = <<>> THEN None ELSE Text(v.text)

\* None is no name.
ASSUME NoneAssumption ==
    \A t \in TaskTypes : None # TypeName(t) /\ \A p \in PromptsOf(t) : None # PromptName(p)

\* TaskSpec::new, of a prompt that belongs to the type, on the text normalized.
SpecOf(type, prompt, text_input) ==
    [task_type |-> type, task_prompt |-> prompt, text_input |-> NormalizeText(text_input)]

\* TaskSpec::from_strings, with what the strings leave out, and TaskSpec::new,
\* which refuses a prompt of the other type: at most one specification.
SpecsNamed(task_type, task_prompt, text_input) ==
    UNION {
      {SpecOf(t, p, text_input) :
         p \in PromptsOf(t) \cap
                 IF task_prompt = None THEN {"Caption"} ELSE PromptsNamed(t, task_prompt)} :
      t \in IF task_type = None THEN {"Single"} ELSE TypesNamed(task_type)}

\* The specification, or None for a TaskSpecError.
FromStrings(task_type, task_prompt, text_input) ==
    LET specs == SpecsNamed(task_type, task_prompt, text_input)
    IN  IF specs = {} THEN None ELSE CHOOSE s \in specs : TRUE

=============================================================================
