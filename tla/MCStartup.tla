----------------------------- MODULE MCStartup -----------------------------
(* Model values for Startup, and what its starts may find. *)
EXTENDS StartupRefinement

CONSTANTS j1, j2, j3, p1, p2

Jobs1 == {j1}
Jobs2 == {j1, j2}
Jobs3 == {j1, j2, j3}
OneProcess == {p1}
TwoProcesses == {p1, p2}

Names == DOMAIN NumberDefault \cup
           {"allow_local_paths", "local_path_roots", "model_path", "model_variant"}

\* The parts of one variant of the model, and a start that finds only those.
Model(suffix) ==
    {"vision_encoder", "embed_tokens", "encoder_model", "decoder_model", "decoder_model_merged"}
      \X {suffix}

Silent == [name \in Names |-> Unset]

Plain ==
    [cli |-> FALSE, config_path |-> FALSE, exists |-> FALSE, parses |-> TRUE,
     env |-> Silent, file |-> Silent,
     models |-> Model("fp32") \cup {<<"tokenizer", "any">>}]

\* A start whose environment, or file, says v of one setting.
InEnv(src, name, v)  == [src EXCEPT !.env[name] = v]
OfFile(src, name, v) == [src EXCEPT !.exists = TRUE, !.file[name] = v]

\* Limits 1 and none are what compaction tells apart; 1 comes from both places.
KeepOne == OfFile(Plain, "metadata_retention_limit", 1)
KeepAll == InEnv(KeepOne, "metadata_retention_limit", 0)

NumberSources ==
    {OfFile(KeepOne, name, 0) : name \in DOMAIN NumberDefault}
      \cup {InEnv(OfFile(KeepOne, name, 3), name, v) :
              name \in DOMAIN NumberDefault \ {"metadata_retention_limit"}, v \in {0, Malformed}}

PathSources ==
    {InEnv(KeepOne, "allow_local_paths", v) : v \in {TRUE, FALSE, Malformed}}
      \cup {InEnv(InEnv(OfFile(KeepOne, "local_path_roots", {"in"}),
                        "allow_local_paths", TRUE), "local_path_roots", v) :
              v \in {Unset, {}, {""}, {"", "in"}}}

ModelSources ==
    {InEnv(KeepOne, "model_variant", v) : v \in {"fp16", "custom", Malformed}}
      \cup {[InEnv(InEnv(KeepOne, "model_variant", v), "model_path", path) EXCEPT !.models = m] :
              v \in {Unset, "fp32", "fp16"}, path \in {"fp16", "other"},
              m \in {KeepOne.models, KeepOne.models \cup {<<"vision_encoder", "other">>},
                     Model("fp16") \cup {<<"tokenizer", "any">>}, Model("fp16")}}

FileSources ==
    {[KeepOne EXCEPT !.cli = c, !.config_path = e, !.exists = x, !.parses = FALSE] :
        c \in BOOLEAN, e \in BOOLEAN, x \in BOOLEAN}

AllSources  == {KeepOne, KeepAll} \cup NumberSources \cup PathSources \cup ModelSources
                 \cup FileSources
TwoSources  == {KeepOne, KeepAll}
AllLimits   == {0, 1, 10000}
=============================================================================
