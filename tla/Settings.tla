------------------------------ MODULE Settings ------------------------------
(***************************************************************************)
(* How a starting process arrives at its settings: Config::load (config.rs, *)
(* config/file.rs, config/settings.rs, config/model_variant.rs) and the     *)
(* model files it then looks for (inference/model.rs).                      *)
(*                                                                          *)
(* A source is what one start finds: whether a config file is named and     *)
(* there, what the environment and the file say of each setting, and the    *)
(* model files on disk.  Settings of which only the value is passed on      *)
(* (addresses, directories, secrets, timeouts) are left out.                *)
(***************************************************************************)
EXTENDS Naturals

CONSTANTS
    Unset,      \* a setting that a source does not mention
    Malformed   \* a value that does not parse as what the setting needs

ASSUME SettingsAssumption ==
    /\ {Unset, Malformed} \cap (Nat \cup BOOLEAN) = {}
    /\ Unset # Malformed

\* The settings that are numbers, and their defaults (config/defaults.rs).
NumberDefault ==
    [model_pool_size |-> 4, queue_size |-> 128, max_new_tokens |-> 256,
     webhook_max_attempts |-> 1, metadata_retention_limit |-> 10000]

\* The settings of which zero is taken for one.
AtLeastOne == {"model_pool_size", "max_new_tokens", "webhook_max_attempts"}

\* The variants the model files come in, by suffix of their names, and custom.
Variants == {"fp32", "fp16", "custom"}

-----------------------------------------------------------------------------
(* Reading the sources.                                                     *)

\* FileConfig::load: a file that was asked for, with --config or CONFIG_PATH,
\* must be there; config.toml may be missing, and then says nothing.
FileMissing(src) == ~src.exists /\ (src.cli \/ src.config_path)
FileRefused(src) == FileMissing(src) \/ (src.exists /\ ~src.parses)

InFile(src, name) == IF src.exists THEN src.file[name] ELSE Unset

\* usize_setting and its kin: the environment, else the file, else the default.
Setting(src, name, default) ==
    CASE src.env[name] # Unset     -> src.env[name]
      [] InFile(src, name) # Unset -> InFile(src, name)
      [] OTHER                     -> default

Number(src, name) == Setting(src, name, NumberDefault[name])

\* What parsing a number or a switch comes to.
SourceOK(src) ==
    /\ \A name \in DOMAIN NumberDefault :
         {src.env[name], src.file[name]} \subseteq Nat \cup {Unset, Malformed}
    /\ {src.env["allow_local_paths"], src.file["allow_local_paths"]}
         \subseteq BOOLEAN \cup {Unset, Malformed}

\* path_list_setting: empty entries of the environment variable are dropped, and
\* a variable that is set but empty still hides the list of the file.
PathList(src, name) ==
    IF src.env[name] # Unset THEN src.env[name] \ {""} ELSE Setting(src, name, {})

\* parse_model_variant: without a name, a path of one's own makes it custom.
Variant(src) ==
    Setting(src, "model_variant",
            IF Setting(src, "model_path", Unset) = Unset THEN "fp32" ELSE "custom")

\* A path stands for the suffix of a vision_encoder file, or is "other".
DefaultPath(variant) == IF variant = "custom" THEN "fp32" ELSE variant

\* Config::load returns an error.
ConfigRefused(src) ==
    \/ FileRefused(src)
    \/ \E name \in DOMAIN NumberDefault : Number(src, name) = Malformed
    \/ Setting(src, "allow_local_paths", FALSE) = Malformed
    \/ /\ Setting(src, "allow_local_paths", FALSE) = TRUE
       /\ PathList(src, "local_path_roots") = {}
    \/ Variant(src) = Malformed

\* .max(1)
Clamped(name, n) == IF name \in AtLeastOne /\ n = 0 THEN 1 ELSE n

\* The Config of a source that is not refused, and the model files it meets.
Effective(src) ==
    [numbers           |-> [name \in DOMAIN NumberDefault |-> Clamped(name, Number(src, name))],
     allow_local_paths |-> Setting(src, "allow_local_paths", FALSE),
     local_path_roots  |-> PathList(src, "local_path_roots"),
     model_variant     |-> Variant(src),
     model_path        |-> Setting(src, "model_path", DefaultPath(Variant(src))),
     models            |-> src.models]

-----------------------------------------------------------------------------
(* The model files.                                                         *)

\* model_suffix: that of the variant; for a custom one, that of the path.
Suffix(config) ==
    IF config.model_variant # "custom" THEN config.model_variant
    ELSE IF config.model_path = "other" THEN "fp32" ELSE config.model_path

\* FlorenceModelPaths::from_vision_path, and the tokenizer of ensure_exists.
ModelFiles(config) ==
    {<<"vision_encoder", config.model_path>>, <<"tokenizer", "any">>}
      \cup ({"embed_tokens", "encoder_model", "decoder_model", "decoder_model_merged"}
              \X {Suffix(config)})

\* Config::ensure_dirs and validate_model_artifacts let the start go on.
ModelFilesExist(config) == ModelFiles(config) \subseteq config.models

\* What the rest of the server takes for granted of its settings: the
\* assumptions of WorkerPool, JobServer, WebhookDelivery and Inference, and
\* that sessions can be built from files that are there.
Sound(config) ==
    /\ \A name \in AtLeastOne \cup {"queue_size"} : config.numbers[name] >= 1
    /\ config.allow_local_paths => config.local_path_roots # {}
    /\ ModelFilesExist(config)
=============================================================================
