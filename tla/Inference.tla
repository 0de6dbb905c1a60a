----------------------------- MODULE Inference -----------------------------
(***************************************************************************)
(* FlorenceWorker::infer (inference.rs), in the blocking thread of one     *)
(* job: the task plan, greedy generation with the key/value cache, and the *)
(* post-processing of the text.                                            *)
(*                                                                         *)
(* The four ONNX models are external.  What the decoder knows is kept as   *)
(* what it was fed: the tokens its cache covers and the encoder output it  *)
(* attends to.  The token it picks next is arbitrary.  Tensors, prompts'   *)
(* wording and the image are left out.                                     *)
(***************************************************************************)
EXTENDS OcrRegions, TaskSpec

CONSTANTS
    Vocabulary,     \* the pieces the decoder generates in an OCR task
    Offered(_),     \* bound: those it may pick as its n-th token
    Eos,            \* EOS_TOKEN_ID, which is also DECODER_START_TOKEN_ID
    MaxNewTokens,   \* config.max_new_tokens
    SessionsFail    \* whether an ONNX call or the image decoder may fail

ASSUME InferenceAssumption ==
    /\ Eos \in Vocabulary /\ None \notin Vocabulary
    /\ \A p \in Vocabulary : IsLoc(p) => p.value \in Nat
    /\ MaxNewTokens \in Nat
    /\ \A n \in 1..MaxNewTokens : Eos \in Offered(n) /\ Offered(n) \subseteq Vocabulary
    /\ SessionsFail \in BOOLEAN

VARIABLES
    task,       \* the TaskSpec of the job, or None
    textInput,  \* the text input of the generation at hand
    step,       \* where infer stands
    steps,      \* the generations left, from run_task_plan
    encoded,    \* how many generations have run the encoder
    ids,        \* generated_ids, without the start token
    cache,      \* decoder keys and values: the tokens they were computed from
    attends,    \* the encoder run that the cached encoder keys belong to
    text,       \* generated_text
    generations \* the generations finished

inferVars ==
    <<task, textInput, step, steps, encoded, ids, cache, attends, text, generations>>
vars == <<inferVars, ocrVars>>

NoCache == <<>>

\* prompt_text_for_task: the tokens that go through required_text_input.
RequiresText ==
    {"CAPTION_TO_PHRASE_GROUNDING", "REFERRING_EXPRESSION_SEGMENTATION",
     "REGION_TO_SEGMENTATION", "OPEN_VOCABULARY_DETECTION",
     "REGION_TO_CATEGORY", "REGION_TO_DESCRIPTION"}

\* run_task_plan: the tokens of the generations.
Plan(t) ==
    IF t.task_type = "Cascaded"
      THEN <<CaptionToken[t.task_prompt], "CAPTION_TO_PHRASE_GROUNDING">>
      ELSE <<SingleToken[t.task_prompt]>>

\* The text of the first generation; that of a cascaded task is not used.
FirstText(t) ==
    IF t.task_type = "Cascaded" \/ t.text_input = None THEN None ELSE t.text_input.text

\* Only the structure of OCR text is looked at; elsewhere a piece is a word.
Pieces(token) ==
    {p \in Offered(Len(ids) + 1) : token = "OCR_WITH_REGION" \/ p = Eos \/ p.kind = "word"}

\* clean_generated_text: the special tokens go.  Generation stops at the first
\* Eos, which can only be the last token.
Clean(s) == IF s # <<>> /\ s[Len(s)] = Eos THEN SubSeq(s, 1, Len(s) - 1) ELSE s

Fed == <<Eos>> \o ids          \* generated_ids, with the start token

Init ==
    /\ task = None
    /\ textInput = None
    /\ step = "waiting"
    /\ steps = <<>>
    /\ encoded = 0
    /\ ids = <<>>
    /\ cache = NoCache
    /\ attends = 0
    /\ text = <<>>
    /\ generations = <<>>
    /\ OcrInit

-----------------------------------------------------------------------------

\* infer is called with a task, which TaskSpec::new has let through; whether
\* the task needs a text is not looked at before.
Receive(t) ==
    /\ step = "waiting"
    /\ task' = t
    /\ textInput' = FirstText(t)
    /\ steps' = Plan(t)
    /\ step' = "image"
    /\ UNCHANGED <<encoded, ids, cache, attends, text, generations, ocrVars>>

\* The image is decoded and run through the vision encoder.
EncodeImage ==
    /\ step = "image"
    /\ step' = "prompt"
    /\ UNCHANGED <<task, textInput, steps, encoded, ids, cache, attends, text, generations,
                   ocrVars>>

\* ResolvedTask::new, encode_prompt, the encoder, and a decoder without cache.
BeginGeneration ==
    /\ step = "prompt"
    /\ Head(steps) \in RequiresText => textInput \notin {None, <<>>}
    /\ step' = "decode"
    /\ encoded' = encoded + 1
    /\ ids' = <<>>
    /\ cache' = NoCache
    /\ UNCHANGED <<task, textInput, steps, attends, text, generations, ocrVars>>

\* The loop of generate_once runs another time.
Generating ==
    /\ step = "decode"
    /\ Len(ids) < MaxNewTokens
    /\ ids # <<>> => ids[Len(ids)] # Eos

Pick == \E p \in Pieces(Head(steps)) : ids' = Append(ids, p)

\* run_decoder_model: all tokens, and a cache of its own.
DecodeFirst ==
    /\ Generating /\ cache = NoCache
    /\ cache' = Fed
    /\ attends' = encoded
    /\ Pick
    /\ UNCHANGED <<task, textInput, step, steps, encoded, text, generations, ocrVars>>

\* Mutant of DecodeCached: all tokens again, with the cache.
DecodeCachedAll ==
    /\ Generating /\ cache # NoCache
    /\ cache' = cache \o Fed
    /\ Pick
    /\ UNCHANGED <<task, textInput, step, steps, encoded, attends, text, generations, ocrVars>>

\* run_cached_decoder_model: the last token; the encoder keys are kept.
DecodeCached ==
    /\ Generating /\ cache # NoCache
    /\ cache' = Append(cache, Fed[Len(Fed)])
    /\ Pick
    /\ UNCHANGED <<task, textInput, step, steps, encoded, attends, text, generations, ocrVars>>

EndDecoding ==
    /\ step = "decode" /\ ~Generating
    /\ step' = IF Head(steps) = "OCR_WITH_REGION" THEN "parse" ELSE "result"
    /\ text' = Clean(ids)
    /\ cursor' = 1 /\ items' = <<>>
    /\ UNCHANGED <<task, textInput, steps, encoded, ids, cache, attends, generations>>

ParseRegion ==
    /\ step = "parse"
    /\ ParseNext(text)
    /\ UNCHANGED inferVars

\* Mutant of EndParse: a text without regions is not handed on.
EndParseWithItems ==
    /\ step = "parse"
    /\ ParseEnds(text) /\ items # <<>>
    /\ step' = "result"
    /\ UNCHANGED <<task, textInput, steps, encoded, ids, cache, attends, text, generations,
                   ocrVars>>

\* post_process_generation: no more "<loc_"; without items the result is the text.
EndParse ==
    /\ step = "parse"
    /\ ParseEnds(text)
    /\ step' = "result"
    /\ UNCHANGED <<task, textInput, steps, encoded, ids, cache, attends, text, generations,
                   ocrVars>>

\* Mutant of EndGeneration: the grounding gets the text of the request, if any.
EndGenerationWithInput ==
    /\ step = "result"
    /\ generations' = Append(generations,
          [task_token |-> Head(steps), text |-> text, input |-> textInput])
    /\ steps' = Tail(steps)
    /\ textInput' = IF task.text_input = None THEN text ELSE task.text_input.text
    /\ step' = IF Tail(steps) = <<>> THEN "done" ELSE "prompt"
    /\ UNCHANGED <<task, encoded, ids, cache, attends, text, ocrVars>>

\* GenerationMetadata; the text of a caption is the input of the grounding.
EndGeneration ==
    /\ step = "result"
    /\ generations' = Append(generations,
          [task_token |-> Head(steps), text |-> text, input |-> textInput])
    /\ steps' = Tail(steps)
    /\ textInput' = IF Tail(steps) = <<>> THEN textInput ELSE text
    /\ step' = IF Tail(steps) = <<>> THEN "done" ELSE "prompt"
    /\ UNCHANGED <<task, encoded, ids, cache, attends, text, ocrVars>>

Fail ==
    /\ step' = "failed"
    /\ UNCHANGED <<task, textInput, steps, encoded, ids, cache, attends, text, generations,
                   ocrVars>>

\* required_text_input: the whole job fails.
TextMissing ==
    step = "prompt" /\ Head(steps) \in RequiresText /\ textInput \in {None, <<>>} /\ Fail

\* An image that does not decode, or an error of a session or the tokenizer.
SessionFails == SessionsFail /\ step \in {"image", "prompt", "decode"} /\ Fail

Advance ==
    \/ EncodeImage \/ BeginGeneration \/ TextMissing
    \/ DecodeFirst \/ DecodeCached \/ EndDecoding
    \/ ParseRegion \/ EndParse \/ EndGeneration

\* Every task that TaskSpec::new lets through.
Tasks ==
    {[task_type |-> y, task_prompt |-> p, text_input |-> x] :
        y \in TaskTypes, p \in DOMAIN SingleToken \cup DOMAIN CaptionToken,
        x \in {None, Text(<<[kind |-> "word", value |-> 0]>>)}}

Next ==
    \/ \E t \in Tasks : t.task_prompt \in PromptsOf(t.task_type) /\ Receive(t)
    \/ Advance
    \/ SessionFails

\* Nothing in the thread waits for anything else.
Spec == Init /\ [][Next]_vars /\ WF_vars(Advance)

-----------------------------------------------------------------------------

\* Whenever the decoder is about to run, it has seen every token of this
\* generation but the last exactly once and in order, against the encoder
\* output of this generation: the cached path computes what a decoder fed the
\* whole prefix would.
CacheCoversPrefix ==
    step = "decode" /\ cache # NoCache =>
        /\ Append(cache, Fed[Len(Fed)]) = Fed
        /\ attends = encoded

\* The items of an OCR-with-region result are the regions of the text: every
\* maximal run of at least two points, with its own text and box.
RegionsAreThoseOfText ==
    step = "result" /\ Head(steps) = "OCR_WITH_REGION" =>
        IsRegionList(items, text)

\* The thread returns: generation is bounded by max_new_tokens and the parser
\* moves on with every turn.
ThreadReturns == step = "image" ~> step \in {"done", "failed"}

=============================================================================
