------------------------------ MODULE FtsIndex ------------------------------
(***************************************************************************)
(* The tantivy index behind ndex-store's FtsIndex.  docs[p] is the set of  *)
(* content versions whose chunks are in the index under the file_id of p;  *)
(* a version without a word counts as there, with no chunk to find.        *)
(*                                                                         *)
(* The writer buffers additions and deletions; commit makes all of them    *)
(* durable and visible at once, and dropping the writer discards them.  So *)
(* a store has two such functions: the writer's (committed documents with  *)
(* the buffered operations applied) and the searcher's (committed only).   *)
(***************************************************************************)

NoDocs(paths) == [p \in paths |-> {}]

\* Mutant of DeleteDocs: the delete_term call is forgotten.
KeepDocs(docs, p) == docs

\* delete_term: drops every document of p added so far, buffered or not.
DeleteDocs(docs, p) == [docs EXCEPT ![p] = {}]

\* add_chunk for every chunk of one version of p.
AddChunks(docs, p, version) == [docs EXCEPT ![p] = @ \cup {version}]

=============================================================================
