------------------------------ MODULE Messages ------------------------------
(***************************************************************************)
(* The messages of the wire protocol and what a peer of another build makes*)
(* of them.                                                                *)
(*                                                                         *)
(* Structs travel as maps from field names to values, enums by the name of *)
(* their variant.  A reader ignores fields it does not know and fills in   *)
(* what is missing where serde's attributes let it.  A value is "zero" (the*)
(* Default of its type), "some" (any other this build knows) or "new" (a   *)
(* variant of an enum only the other build has).                           *)
(***************************************************************************)
EXTENDS Columns, Errors

\* The variants of both enums, and the struct each carries.
ClientMessage ==
    [Handshake |-> "HandshakeReq", SearchRequest |-> "SearchRequestData",
     IndexRequest |-> "IndexOptions", InfoRequest |-> "InfoRequestData",
     StatsRequest |-> "Unit", VerifyRequest |-> "VerifyRequestData",
     ReindexRequest |-> "ReindexRequestData", DeleteRequest |-> "DeleteRequestData",
     CancelRequest |-> "Unit"]

ServerMessage ==
    [Handshake |-> "HandshakeResp", SearchResult |-> "SearchResultData",
     IndexComplete |-> "IndexCompleteData", InfoResult |-> "InfoResultData",
     StatsResult |-> "StatsResultData", VerifyResult |-> "VerifyResultData",
     DeleteResult |-> "DeleteResultData", Progress |-> "ProgressEvent",
     Error |-> "ErrorData"]

\* The structs of both sides' first messages.
HandshakeStructs ==
    [TerminalCaps |-> {"width", "height", "color", "hyperlinks", "unicode"},
     HandshakeReq |->
        {"min_protocol", "max_protocol", "client_version", "capabilities", "terminal"},
     HandshakeResp |->
        {"protocol_version", "server_version", "index_schema_version", "index_model",
         "index_file_count", "index_last_reconciled_ns", "capabilities",
         "index_healthy"}]

\* The structs of requests; two requests carry none.
RequestStructs ==
    [Unit |-> {},
     SearchRequestData |->
        {"query", "mode", "filters", "limit", "offset", "format", "explain"},
     IndexOptions |->
        {"full", "verify", "dry_run", "jobs", "batch_size", "no_vectors",
         "enable_ner", "max_file_size", "only_new"},
     InfoRequestData |-> {"path"},
     VerifyRequestData |-> {"paths", "sample"},
     ReindexRequestData |-> {"target"},
     DeleteRequestData |-> {"glob", "dry_run"}]

\* The structs of answers, and those inside them.
ReplyStructs ==
    [SearchHit |->
        {"file_id", "chunk_ord", "path", "score", "score_raw", "score_fts",
         "score_vec", "mime", "size", "mtime_ns", "tags", "snippet", "byte_start",
         "byte_end"},
     SearchResultData |->
        {"hits", "total", "mode", "duration_ms", "truncated", "stale_warning"},
     IndexStats |->
        {"new", "modified", "deleted", "unchanged", "processed", "failed", "skipped",
         "duration_ms", "timed_out"},
     IndexCompleteData |-> {"stats", "cancelled"},
     FileInfo |->
        {"file_id", "path", "size", "mtime_ns", "ctime_ns", "mime", "blake3", "status",
         "fail_count", "error_msg", "tags", "doc_meta", "media_meta", "chunk_count",
         "in_fts", "in_vectors"},
     InfoResultData |-> {"file_info"},
     IndexSummary |->
        {"total_files", "directories", "indexed", "pending", "failed_transient",
         "failed_permanent", "skipped", "deleted", "manifest_bytes", "fts_bytes",
         "vector_bytes", "meta_bytes", "last_reconciled_ns", "schema_version",
         "model_name"},
     StatsResultData |-> {"index_stats"},
     CorruptedFile |-> {"file_id", "path", "stored_hash", "actual_hash"},
     VerifyResultData |-> {"checked", "corrupted"},
     DeleteResultData |-> {"deleted", "paths"}]

\* The structs of a long operation's progress, and of its failure.
ProgressStructs ==
    [ProgressChild |-> {"label", "current", "total", "message"},
     ProgressEvent |-> {"phase", "current", "total", "message", "children"},
     ErrorData |-> {"code", "message"}]

MessageStructs ==
    Both(Both(HandshakeStructs, RequestStructs), Both(ReplyStructs, ProgressStructs))

\* The structs with #[serde(default)]: any field may be missing.
WithDefault == DOMAIN MessageStructs

\* The structs of ndex-core among the fields.  They have no such attribute:
\* there a missing Option is None, and only tags has a default of its own.
CoreStructs ==
    [SearchFilters |->
        {"mime", "after_ns", "before_ns", "larger", "smaller", "path_glob", "tags", "lang"},
     DocMeta |-> DOMAIN DocMeta,
     MediaMeta |-> DOMAIN MediaMeta]

OptionFields == [CoreStructs EXCEPT !.SearchFilters = @ \ {"tags"}]
OwnDefault == {<<"SearchFilters", "tags">>}

Structs == Both(CoreStructs, MessageStructs)

\* Which structs a message with the given one on top can hold.
Inside(struct) ==
    CASE struct = "HandshakeReq"      -> {struct, "TerminalCaps"}
      [] struct = "SearchRequestData" -> {struct, "SearchFilters"}
      [] struct = "SearchResultData"  -> {struct, "SearchHit"}
      [] struct = "IndexCompleteData" -> {struct, "IndexStats"}
      [] struct = "InfoResultData"    -> {struct, "FileInfo", "DocMeta", "MediaMeta"}
      [] struct = "StatsResultData"   -> {struct, "IndexSummary"}
      [] struct = "VerifyResultData"  -> {struct, "CorruptedFile"}
      [] struct = "ProgressEvent"     -> {struct, "ProgressChild"}
      [] OTHER                        -> {struct}

\* Fields that hold an enum: SearchMode, OutputFormat, ReindexTarget.
EnumFields == {"mode", "format", "target"}

-----------------------------------------------------------------------------
(***************************************************************************)
(* Builds.  extra and gone are fields that a build has beyond this one's,  *)
(* and lacks; tags and values say whether it has one more message, and one *)
(* more variant of every enum.                                             *)
(***************************************************************************)
ThisBuild == [extra |-> {}, gone |-> {}, tags |-> FALSE, values |-> FALSE]

Fields(build, struct) == (Structs[struct] \cup build.extra) \ build.gone

Tags(build, enum) == DOMAIN enum \cup (IF build.tags THEN {"NewMessage"} ELSE {})

Values(build, f) ==
    {"zero", "some"} \cup (IF build.values /\ f \in EnumFields THEN {"new"} ELSE {})

\* A field only another build has is one of these kinds too.
MayBeMissing(struct, f) ==
    \/ struct \in WithDefault \/ f \notin Structs[struct]
    \/ f \in OptionFields[struct] \/ <<struct, f>> \in OwnDefault

\* to_vec_named: every field goes out under its name.
ToVecNamed(build, tag, struct, body) ==
    [tag |-> tag, struct |-> struct, map |-> [f \in Fields(build, struct) |-> body[f]]]

\* A decoding error, whatever its text.
Refused == [code |-> ExitCode("Protocol")]

\* Mutant of FromSlice: fields are strict, as with deny_unknown_fields.
FromSliceStrict(build, enum, wire) ==
    LET fields == Fields(build, wire.struct)
    IN  IF \/ wire.tag \notin Tags(build, enum)
           \/ \E f \in DOMAIN wire.map : f \notin fields
        THEN Refused
        ELSE [body |-> [f \in fields |->
                IF f \in DOMAIN wire.map THEN wire.map[f] ELSE "zero"]]

\* from_slice: the struct a build reads, or its refusal of the whole message.
FromSlice(build, enum, wire) ==
    LET fields == Fields(build, wire.struct)
        sent == DOMAIN wire.map
    IN  IF \/ wire.tag \notin Tags(build, enum)
           \/ \E f \in fields \cap sent : wire.map[f] \notin Values(build, f)
           \/ \E f \in fields \ sent : ~MayBeMissing(wire.struct, f)
        THEN Refused
        ELSE [body |-> [f \in fields |-> IF f \in sent THEN wire.map[f] ELSE "zero"]]

-----------------------------------------------------------------------------
\* Mutant of Negotiate: the client's lowest version is not looked at.
NegotiateHighest(clientMin, clientMax, serverMin, serverMax) ==
    LET hi == IF clientMax < serverMax THEN clientMax ELSE serverMax
    IN  IF serverMin > hi THEN [code |-> ExitCode("VersionIncompatible")] ELSE [version |-> hi]

\* negotiate: the highest version both sides speak, or exit code 5.
Negotiate(clientMin, clientMax, serverMin, serverMax) ==
    LET hi == IF clientMax < serverMax THEN clientMax ELSE serverMax
        lo == IF clientMin > serverMin THEN clientMin ELSE serverMin
    IN  IF lo > hi THEN [code |-> ExitCode("VersionIncompatible")] ELSE [version |-> hi]

=============================================================================
