---------------------------- MODULE TaskPipeline ----------------------------
(***************************************************************************)
(* A request from its body to its result: the submission (Submission), the *)
(* JobRequest in the queue, and the inference that a worker runs for it    *)
(* (Inference).  The image is read again when the job runs: the server's   *)
(* own copy of an upload, or whatever is at the local path by then.        *)
(***************************************************************************)
EXTENDS Inference, Submission

pipelineVars == <<vars, submissionVars>>

PipelineInit == Init /\ SubmissionInit

\* What ImageReader::open finds at the image_path of the record.
ImageNow == IF record.input_kind = "upload" THEN saved ELSE local

\* process_worker_request hands the task of the JobRequest to infer.
StartInference ==
    /\ queued # None
    /\ Receive(queued)
    /\ UNCHANGED submissionVars

\* infer goes on; it gets past the image only when that decodes.
Infer ==
    /\ step = "image" => Decodes(ImageNow)
    /\ Advance
    /\ UNCHANGED submissionVars

ImageFails ==
    /\ step = "image" /\ ~Decodes(ImageNow)
    /\ Fail
    /\ UNCHANGED submissionVars

Submit    == Handle /\ UNCHANGED vars
Disturb   == SubmissionFault /\ UNCHANGED vars
ModelFails == SessionFails /\ UNCHANGED submissionVars

PipelineNext ==
    Submit \/ Disturb \/ StartInference \/ Infer \/ ImageFails \/ ModelFails

\* A handler that is not dropped and a worker that has a job go on.
PipelineSpec ==
    /\ PipelineInit /\ [][PipelineNext]_pipelineVars
    /\ WF_pipelineVars(Submit)
    /\ WF_pipelineVars(StartInference \/ Infer \/ ImageFails)

-----------------------------------------------------------------------------
(* What the client asked for, read off the request as it was sent and as   *)
(* docs/tasks.md describes its fields.                                     *)

\* The value of the last field with one of these names.
LastOf(names) ==
    LET at == {i \in DOMAIN request.fields : request.fields[i].name \in names}
    IN  IF at = {} THEN None ELSE request.fields[Max(at)].value

AskedType ==
    IF request.kind = "upload" THEN LastOf({"task_type", "task_type_selector"})
                               ELSE request.body.task_type

AskedPrompt ==
    IF request.kind = "upload" THEN LastOf({"task_prompt", "task"})
    ELSE IF request.body.task_prompt # None THEN request.body.task_prompt ELSE request.body.task

AskedText == IF request.kind = "upload" THEN LastOf({"text_input"}) ELSE request.body.text_input
AskedHook == IF request.kind = "upload" THEN LastOf({"webhook_url"}) ELSE request.body.webhook_url

TypeAsked   == IF AskedType = None THEN "Single task" ELSE AskedType.text
PromptAsked == IF AskedPrompt = None THEN "Caption" ELSE AskedPrompt.text
TextAsked   == IF AskedText = None THEN <<>> ELSE AskedText.text

\* task_type and task_prompt are a pair that docs/tasks.md lists.
TaskIsListed ==
    \/ TypeAsked = "Single task" /\ PromptAsked \in DOMAIN SingleToken
    \/ TypeAsked \in {"Cascased task", "Cascaded task"} /\ PromptAsked \in DOMAIN CaptionToken

\* An image that can be read, and a URL that docs/http-api.md allows.
UploadIsSound ==
    LET image == LastOf({"image", "file"}) IN
    /\ image # None
    /\ image.bytes \in {"photo", "cut"} /\ image.content_type \in {None, "image"}
    /\ AskedHook # None => AskedHook.text \in {"", "public"}
    /\ \A i \in DOMAIN request.fields : request.fields[i].complete

\* The job in the queue does what the client asked: names survive the form,
\* the record and their second reading by enqueue_record, the last field of a
\* name counts, task_prompt goes before task, blank text is no text.
QueuedIsWhatWasAsked ==
    queued # None =>
        /\ TaskIsListed
        /\ queued.task_type = (IF TypeAsked = "Single task" THEN "Single" ELSE "Cascaded")
        /\ queued.task_prompt = PromptAsked
        /\ queued.text_input = (IF TextAsked = <<>> THEN None ELSE Text(TextAsked))

\* A sound upload of a listed task is never a bad request.
BadRequestHasCause ==
    answer = 400 /\ request.kind = "upload" => ~(TaskIsListed /\ UploadIsSound)

\* A request that is refused for what it says leaves no image behind:
\* everything that can be 400 is looked at before the image is saved.
RefusedLeavesNoImage == answer \in {400, 403} => saved = None

\* A job succeeds only with the generations that the client's prompt stands
\* for, on the client's text where the prompt needs one, and a grounding on the
\* text of the caption before it; neither is empty.
DoneIsWhatWasAsked ==
    step = "done" =>
        IF PromptAsked \in DOMAIN SingleToken
        THEN /\ Len(generations) = 1
             /\ generations[1].task_token = SingleToken[PromptAsked]
             /\ generations[1].task_token \in RequiresText =>
                  generations[1].input = TextAsked /\ TextAsked # <<>>
        ELSE /\ Len(generations) = 2
             /\ generations[1].task_token = CaptionToken[PromptAsked]
             /\ generations[2].task_token = "CAPTION_TO_PHRASE_GROUNDING"
             /\ generations[2].input = generations[1].text
             /\ generations[1].text # <<>>

\* The parser found a "<loc_" without a number: its cursor stays there.
ParserIsStuck ==
    step = "parse" /\ cursor \in DOMAIN text /\ text[cursor].kind = "malformed"

\* A request that was accepted ends with a result or an error, whatever
\* happened to its image: generation is bounded by max_new_tokens, and the
\* parser of OCR text moves on with every turn, unless it stands at a "<loc_"
\* that no number follows (postprocess.rs), where it loops for ever.
AcceptedIsInferred == answer = 200 ~> step \in {"done", "failed"} \/ ParserIsStuck

=============================================================================
