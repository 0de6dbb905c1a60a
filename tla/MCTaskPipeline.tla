--------------------------- MODULE MCTaskPipeline ---------------------------
(* Requests for TaskPipeline.  Pieces as in MCInference; a "<loc_" without a *)
(* number may come as the sixth token, so after a whole region or before any.*)
EXTENDS TaskPipeline

Word      == [kind |-> "word", value |-> 0]
EosPiece  == [kind |-> "eos", value |-> 0]
Loc(n)    == [kind |-> "loc", value |-> (3 * n) % 7]
Malformed == [kind |-> "malformed", value |-> 0]

PiecesAt(n) == {Word, Loc(n), EosPiece} \cup (IF n = 6 THEN {Malformed} ELSE {})
AllPieces   == UNION {PiecesAt(n) : n \in 0..6}

Padded(s)         == [text |-> s, padded |-> TRUE]
Field(name, v)    == [name |-> name, value |-> v, complete |-> TRUE]
Broken(name, v)   == [name |-> name, value |-> v, complete |-> FALSE]
Image(bytes, t)   == [bytes |-> bytes, content_type |-> t]
Photo             == Field("image", Image("photo", "image"))
Upload(fields)    == [kind |-> "upload", fields |-> fields]

TypeNames   == {"Single task", "Cascased task", "Cascaded task", "Other task"}
PromptNames == DOMAIN SingleToken \cup DOMAIN CaptionToken \cup {"", "Other"}
NoWords     == Padded(<<>>)
Words       == Padded(<<Word>>)

\* Every pair of names; OCR with Region has a run of its own.
Tasks1 ==
    {Upload(<<Field("task_type", Padded(t)), Field("task_prompt", Padded(p)), Photo>>) :
        t \in TypeNames, p \in PromptNames \ {"OCR with Region"}}

\* Prompts with and without text.
Texts ==
    {Upload(<<Photo, Field("task", Text(p)), Field("text_input", x)>>) :
        p \in {"Caption", "Region to Category", "Open Vocabulary Detection"},
        x \in {Words, NoWords}}
      \cup
    {Upload(<<Field("task_type", Text("Cascased task")), Field("task", Text(p)), Photo,
              Field("text_input", Words)>>) : p \in DOMAIN CaptionToken}

\* Fields that come twice under either name, unknown fields, missing fields.
Doubles ==
    {Upload(<<Field(a, Text(p)), Photo, Field(b, Text(q))>>) :
        a \in {"task", "task_prompt"}, b \in {"task", "task_prompt", "model"},
        p \in {"OCR", "Other"}, q \in {"Caption", "Other"}}
      \cup
    {Upload(<<Field(a, Text(p)), Field(b, Text(q)), Photo, Field("task", Text("Caption + Grounding"))>>) :
        a \in {"task_type", "task_type_selector"}, b \in {"task_type", "task_type_selector"},
        p \in {"Single task", "Cascaded task"}, q \in {"Single task", "Cascased task"}}

\* Images and URLs.
Images ==
    {Upload(<<Field(n, Image(b, t))>>) :
        n \in {"image", "file"}, b \in Bytes, t \in {None, "image", "other"}}
      \cup {Upload(<<Photo, Field("file", Image(b, None))>>) : b \in {"empty", "cut"}}
      \cup {Upload(<<>>), Upload(<<Broken("image", Image("photo", "image"))>>)}

Hooks ==
    {Upload(<<Photo, Field("webhook_url", Padded(u))>>) :
        u \in {"", "public", "malformed", "ftp", "credentials", "fragment", "private"}}

Body(place, t, p, a) ==
    [place |-> place, task_type |-> t, task_prompt |-> p, task |-> a,
     text_input |-> None, webhook_url |-> None]

Paths ==
    {[kind |-> "path", body |-> Body(place, None, None, None)] :
        place \in {"nowhere", "outside", "root", "inside"}}
      \cup
    {[kind |-> "path", body |-> Body("inside", t, p, a)] :
        t \in {None, Text("Cascaded task")},
        p \in {None, Text("OCR"), Text("Detailed Caption + Grounding")},
        a \in {None, Text("Caption"), Text("Other")}}

Ocr == {Upload(<<Photo, Field("task", Text("OCR with Region"))>>)}

AllRequests == Tasks1 \cup Texts \cup Doubles \cup Images \cup Hooks \cup Paths \cup Ocr
=============================================================================
