----------------------------- MODULE Submission -----------------------------
(***************************************************************************)
(* One submission (api/submit.rs, api/submit/validation.rs), from the body *)
(* of the request to the JobRequest in the queue: a multipart upload or a  *)
(* local path.                                                             *)
(*                                                                         *)
(* An action is the code between two awaits.  Bytes are a class of image   *)
(* that the checks tell apart, a webhook URL a class of URL.  Who else     *)
(* writes the file of a local path is not the server's to say.             *)
(***************************************************************************)
EXTENDS TaskSpec, Naturals, Sequences, FiniteSetsExt

CONSTANTS
    Requests,           \* the requests a client may send
    AllowLocalPaths,    \* config.allow_local_paths
    MaxReplacements     \* bound on the changes of the file at a local path

\* The texts that a request sends, one for each field of that name.
TextsSent(r) ==
    IF r.kind = "path" THEN {r.body.text_input}
    ELSE {r.fields[i].value : i \in {k \in DOMAIN r.fields : r.fields[k].name = "text_input"}}

ASSUME SubmissionAssumption ==
    /\ \A r \in Requests :
         /\ r.kind \in {"upload", "path"}
         /\ r.kind = "upload" =>
              Len(r.fields) \in Nat /\ r.fields = [i \in 1..Len(r.fields) |-> r.fields[i]]
         /\ \A v \in TextsSent(r) \cup {None}, t \in TaskTypes : \A p \in PromptsOf(t) :
              None # SpecOf(t, p, v)
    /\ None \notin {400, 403}
    /\ AllowLocalPaths \in BOOLEAN
    /\ MaxReplacements \in Nat

VARIABLES
    request,    \* what the client sends
    unread,     \* the fields of a multipart body still to come
    hstep,      \* where the handler stands
    form,       \* MultipartInferenceRequest, or LocalPathRequest
    record,     \* the JobRecord built from it, or None
    saved,      \* the file the server wrote for it under images_dir, or None
    local,      \* what the file at the local path is now
    changes,    \* how often it changed
    answer,     \* the status of the response, or None
    queued      \* the JobRequest in the queue, or None

submissionVars == <<request, unread, hstep, form, record, saved, local, changes, answer, queued>>

\* "empty"; "text" has no known format; "torn" has, but no dimensions; "huge"
\* is over the configured limit; "cut" ends after its header.
Bytes == {"empty", "text", "torn", "huge", "cut", "photo"}

NoForm == [image |-> None, task_type |-> None, task_prompt |-> None, text_input |-> None,
           webhook_url |-> None]

\* apply_multipart_field: the member of the form that a field sets.
MemberOf(name) ==
    CASE name \in {"image", "file"}                   -> "image"
      [] name \in {"task_type", "task_type_selector"} -> "task_type"
      [] name \in {"task_prompt", "task"}             -> "task_prompt"
      [] OTHER                                        -> name

\* validate_webhook_url, without private_webhook_hosts allowed: "private" is a
\* host that validate_public_webhook_host recognises as one.
HookRefused(v) == v # None /\ v.text \in {"malformed", "ftp", "credentials", "fragment", "private"}
StoredHook(v)  == IF v = None \/ v.text = "" THEN None ELSE Text(v.text)

\* validate_image_bytes
ImageRefused(content_type, bytes) ==
    content_type \notin {None, "image"} \/ bytes \in {"text", "torn", "huge"}

Decodes(bytes) == bytes \in {"huge", "photo"}

SubmissionInit ==
    /\ request \in Requests
    /\ IF request.kind = "upload"
         THEN hstep = "reading" /\ unread = request.fields /\ form = NoForm
         ELSE hstep = "resolving" /\ unread = <<>> /\ form = request.body
    /\ local \in IF request.kind = "upload" THEN {"photo"} ELSE Bytes \cup {"missing", "directory"}
    /\ record = None /\ saved = None /\ queued = None /\ answer = None
    /\ changes = 0

Reply(status) == hstep' = "answered" /\ answer' = status

\* The record keeps names, and its text and URL as they are now.
RecordOf(kind, spec, bytes) ==
    [input_kind |-> kind, task_type |-> TypeName(spec.task_type),
     task_prompt |-> PromptName(spec.task_prompt), text_input |-> spec.text_input,
     webhook_url |-> StoredHook(form.webhook_url), image |-> bytes]

-----------------------------------------------------------------------------
(* read_multipart_inference_request and uploaded_job_record                *)

\* Mutant of ApplyField: the first field of a name counts.
ApplyFirstField(field) ==
    LET m == MemberOf(field.name) IN
    form' = IF m \in DOMAIN form /\ form[m] = None THEN [form EXCEPT ![m] = field.value] ELSE form

\* A field sets its member, whatever was there; an unknown one is ignored.
ApplyField(field) ==
    LET m == MemberOf(field.name) IN
    form' = IF m \in DOMAIN form THEN [form EXCEPT ![m] = field.value] ELSE form

NextField == Head(unread)

ReadField ==
    /\ hstep = "reading" /\ unread # <<>> /\ NextField.complete
    /\ ApplyField(NextField)
    /\ unread' = Tail(unread)
    /\ UNCHANGED <<request, hstep, record, saved, local, changes, answer, queued>>

\* The body ends inside the field, or goes over body_limit_bytes.
FieldFails ==
    /\ hstep = "reading" /\ unread # <<>> /\ ~NextField.complete
    /\ Reply(400)
    /\ UNCHANGED <<request, unread, form, record, saved, local, changes, queued>>

FormSpec == FromStrings(form.task_type, form.task_prompt, form.text_input)

\* In the order of uploaded_job_record; anything else is 400.
UploadAccepted ==
    /\ FormSpec # None
    /\ ~HookRefused(form.webhook_url)
    /\ form.image # None
    /\ form.image.bytes # "empty"
    /\ ~ImageRefused(form.image.content_type, form.image.bytes)

RefuseUpload ==
    /\ hstep = "reading" /\ unread = <<>>
    /\ ~UploadAccepted
    /\ Reply(400)
    /\ UNCHANGED <<request, unread, form, record, saved, local, changes, queued>>

BuildUpload ==
    /\ hstep = "reading" /\ unread = <<>>
    /\ UploadAccepted
    /\ record' = RecordOf("upload", FormSpec, form.image.bytes)
    /\ hstep' = "saving"
    /\ UNCHANGED <<request, unread, form, saved, local, changes, answer, queued>>

SaveUpload ==
    /\ hstep = "saving"
    /\ saved' = record.image
    /\ hstep' = "enqueueing"
    /\ UNCHANGED <<request, unread, form, record, local, changes, answer, queued>>

\* save_uploaded_image fails, and may leave the first bytes behind: 500.
SaveUploadFails ==
    /\ hstep = "saving"
    /\ saved' \in {None, "torn"}
    /\ Reply(500)
    /\ UNCHANGED <<request, unread, form, record, local, changes, queued>>

-----------------------------------------------------------------------------
(* local_path_job_record                                                   *)

Proceed(step) ==
    /\ hstep' = step
    /\ UNCHANGED <<request, unread, form, record, saved, local, changes, answer, queued>>

Refuse(status) ==
    Reply(status) /\ UNCHANGED <<request, unread, form, record, saved, local, changes, queued>>

\* The path is empty, or canonicalize fails.
ResolvePath ==
    /\ hstep = "resolving"
    /\ IF form.place = "nowhere" \/ local = "missing" THEN Refuse(400) ELSE Proceed("locating")

\* ensure_local_path_allowed: strictly inside one of the roots that resolve.
LocatePath ==
    /\ hstep = "locating"
    /\ IF AllowLocalPaths /\ form.place = "inside" THEN Proceed("inspecting") ELSE Refuse(403)

\* A root that no longer resolves allows nothing.
RootIsGone == hstep = "locating" /\ Refuse(403)

InspectPath ==
    /\ hstep = "inspecting"
    /\ IF local \in Bytes THEN Proceed("loading") ELSE Refuse(400)

\* After read_local_image nothing is awaited any more: the type of the image,
\* the task and the URL are looked at, in this order.
PathSpec ==
    FromStrings(form.task_type, IF form.task_prompt # None THEN form.task_prompt ELSE form.task,
                form.text_input)

PathAccepted ==
    /\ local \in Bytes \ {"empty"}
    /\ ~ImageRefused(None, local)
    /\ PathSpec # None
    /\ ~HookRefused(form.webhook_url)

RefusePath == hstep = "loading" /\ ~PathAccepted /\ Refuse(400)

BuildPath ==
    /\ hstep = "loading" /\ PathAccepted
    /\ record' = RecordOf("local_path", PathSpec, local)
    /\ hstep' = "enqueueing"
    /\ UNCHANGED <<request, unread, form, saved, local, changes, answer, queued>>

\* Somebody changes the file of the local path, which the server reads again
\* when the job runs.
ReplaceFile ==
    /\ request.kind = "path" /\ changes < MaxReplacements
    /\ changes' = changes + 1
    /\ local' \in (Bytes \cup {"missing", "directory"}) \ {local}
    /\ UNCHANGED <<request, unread, hstep, form, record, saved, answer, queued>>

-----------------------------------------------------------------------------
(* enqueue_record                                                          *)

\* job_request_from_record reads the names of the record again.
RecordSpec == FromStrings(record.task_type, record.task_prompt, record.text_input)

\* The queue is full or closed, or the record cannot be written.
RefuseRecord == hstep = "enqueueing" /\ RecordSpec # None /\ \E s \in {500, 503} : Refuse(s)

\* EnqueueError::InvalidTask is 400; otherwise the record is in the map and the
\* request in the queue.
Enqueue ==
    /\ hstep = "enqueueing"
    /\ IF RecordSpec = None
         THEN Reply(400) /\ UNCHANGED queued
         ELSE Reply(200) /\ queued' = RecordSpec
    /\ UNCHANGED <<request, unread, form, record, saved, local, changes>>

\* The client goes away, or the request timeout drops the handler.  A write
\* that has begun goes on.
DropHandler ==
    /\ hstep # "answered"
    /\ IF hstep = "saving" THEN saved' \in {None, "torn", record.image} ELSE UNCHANGED saved
    /\ Reply(408)
    /\ UNCHANGED <<request, unread, form, record, local, changes, queued>>

Handle ==
    \/ ReadField \/ FieldFails \/ RefuseUpload \/ BuildUpload \/ SaveUpload
    \/ ResolvePath \/ LocatePath \/ InspectPath \/ RefusePath \/ BuildPath
    \/ Enqueue

SubmissionFault == SaveUploadFails \/ RootIsGone \/ ReplaceFile \/ RefuseRecord \/ DropHandler

=============================================================================
