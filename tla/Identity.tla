------------------------------ MODULE Identity ------------------------------
(***************************************************************************)
(* index.toml: which build may open an index.                              *)
(*                                                                         *)
(* A file is the set of its keys and the schema version among them.  No    *)
(* field has a default, so a key that is missing refuses the file.         *)
(***************************************************************************)
EXTENDS Errors

IndexIdentity ==
    {"schema_version", "created_by", "created_at", "model_name", "model_hash",
     "dimensions", "mrl_dimensions", "vector_scalar", "hnsw_m",
     "hnsw_ef_construction", "algorithm", "tokenizer_version"}

\* load: the version of the file, or exit code 78.
LoadIdentity(file) ==
    IF IndexIdentity \subseteq file.keys
    THEN [version |-> file.version] ELSE [code |-> ExitCode("Config")]

\* check_compatible: exit code 6 for any schema but the build's own.
CheckCompatible(schema, version) ==
    IF version = schema THEN [version |-> version] ELSE [code |-> ExitCode("SchemaMismatch")]

\* open_identity.
OpenIdentity(schema, file) ==
    LET loaded == LoadIdentity(file)
    IN  IF "code" \in DOMAIN loaded THEN loaded ELSE CheckCompatible(schema, loaded.version)

=============================================================================
