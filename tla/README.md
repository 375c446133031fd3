# ndex in TLA+

ndex keeps a search index of a directory tree in `.ndex/`, next to the files: a SQLite
manifest (what files there are, as of which size and mtime, and what became of each) and
a tantivy full-text index (their text, in chunks). `ndex-remote init`, `index`,
`search`, `info` and `stats` work in the commit modelled here; the thin client, the
serve loop, vectors, the embedding model and all extractors but the text family are
`todo!()`.

This directory models what works: how a run brings the index up to date while the tree
changes and the process may die, what a power loss leaves of it, how processes share one
index, how a text file becomes chunks, how results are paged, the framing and messages
of the wire protocol, and what rows, messages, settings and names keep of what goes into
them. Paths below are relative to `src/crates/`.

## The system

| component | state | operations | talks to |
|---|---|---|---|
| reconciliation, `ndex-reconcile` | the walk's files, the plan (new, modified, deleted), the file in hand | `Reconciler::run`: walk, diff, process, commit, bookkeeping | tree, manifest, full-text index, extractors |
| manifest, `ndex-store/src/manifest.rs` | tables `files`, `index_progress`, `reconciliation_runs`, `schema_info` | upsert, set_status, record_progress, begin_run, finish_run, prune, touch; classify, live_files, path_of | SQLite, autocommit, WAL |
| full-text index, `ndex-store/src/fts.rs` | committed documents, the writer's buffer | add_chunk, delete_file, commit, search, snippet | tantivy |
| store, `ndex-store/src/lib.rs`, `lock.rs`, `identity.rs` | `.ndex/`, `index.toml`, the flock, the IndexWriter's lock | create, open, drop | every command |
| detection and routing, `ndex-extract/src/mime.rs`, `extractor.rs` | none | detect, router | reconciliation, text extraction |
| text extraction, `ndex-extract/src/formats/text.rs`, `encoding.rs` | none | decode, normalize, split into paragraphs | reconciliation, chunker |
| chunker, `ndex-extract/src/chunk.rs` | locals of one loop nest | chunk | extraction, full-text index |
| search, `ndex-search`, `ndex-remote/src/commands/read.rs` | none between commands | run, the search command | store |
| wire, `ndex-protocol/src/frame.rs` | a byte stream, the scan's counters | write_preamble, write_frame, scan_preamble, read_frame | server's stdout, client |
| messages, `ndex-protocol/src/message.rs`, `codec.rs`, `handshake.rs` | none | to_vec_named, from_slice, negotiate | wire, errors |
| metadata, `ndex-store/src/meta.rs` | tables `doc_meta`, `media_meta`, `archive_meta` | upserts, delete_file, reads | reconciliation |
| configuration, `ndex-core/src/config.rs` | `config.toml` | from_toml, to_toml, sizes and durations | every command |
| staleness, `ndex-reconcile/src/refresh.rs` | none; reads `schema_info` | staleness, quick_reconcile | manifest, the clock |
| names, errors, identity, `ndex-core/src/path.rs`, `error.rs`, `identity.rs` | `index.toml` | renderings, exit codes, the check of the schema | all |
| the rest | | | see "Not modelled" |

What is hard here, and what each part must get right:

* **Two stores, no transaction over both.** The manifest commits at every statement,
  tantivy once at the end of a run. A crash anywhere must leave rows and documents that
  a later run can work with: no row may claim a version that is not indexed, no document
  may lack its row, no version may be doubled.
* **The tree moves.** Files are written, removed, restored and made unreadable between
  the walk, the lstat and the read. A write must never be missed for good.
* **Statuses decide by accident.** `classify` compares size and mtime and nothing else,
  so failed, pending and deleted rows can get stuck.
* **Processes meet at one directory** with checks made before the lock, a lock file that
  can be removed with its directory, and a second lock underneath.
* **The two stores are not equally durable.** A power loss may take back statements of
  the manifest (WAL, `synchronous = NORMAL`) and not the documents tantivy synced; the
  manifest then numbers new files with ids that documents already have.
* **Numbers change their width.** u64 in the program is i64 in SQLite, sizes are parsed
  as f64, durations multiplied as u64, seconds become nanoseconds in an i64.
* **Builds differ.** A message may hold a field, or be of a variant, that only one side
  has; `index.toml` and `config.toml` outlive the build that wrote them.
* **Arithmetic at edges**: windows with overlaps counted in another unit than they are
  stepped in, offsets re-added from lengths of trimmed parts, pages cut from a partial
  fetch, a preamble automaton with a budget.

PROJECT.json lists each such hazard with its line and the properties aimed at it.

## Modules

    FileSystem  Manifest  FtsIndex          the tree (external), and the two stores' statements
          \       |       /
            Reconciler                      ndex index, one run after another
                |
        ReconcilerInvariant                 its inductive invariants, in named parts
          /           \
    ReconcilerProofs   ReconcilerView --INSTANCE--> SearchView     what a search is promised
                 \       /
           ReconcilerViewProofs             the refinement

    StoreLock -> StoreLockProofs            several processes, one .ndex/
    Extraction, TextBlocks, Chunker -> TextChunks     a file, from its bytes to its chunks
                                         |
                                    ChunkerProofs     the window loops, and the texts
    Search -> SearchProofs                  pages of one query
    Wire -> WireProofs                      noise, preamble, frames

    Durability -> DurabilityProofs          runs, kills, power losses, the clock

    Widths     Errors
      |   \       |  \
    Columns Settings  Identity   Names      rows; config.toml; index.toml; file names
      |   \      |     /        /
      |  Messages     /        /            messages between builds
       \     |       /        /
            Encodings -> EncodingsProofs    written in one place, read in another

`MC*` modules give values to constants that a `.cfg` cannot write, and nothing else.
Operators named "Mutant of X" stand beside the definition X they change; no
specification uses them. They are plausible mistakes that the properties must notice.

### Reconciler

One process at a time (that is StoreLock's business). A step ends at each durable write
and each look at the tree; steps in memory belong to the step before. `pc` names the
next step of `Reconciler::run`:

| steps | code |
|---|---|
| `BeginRun` | `reconciler.rs` 69-85, `Manifest::begin_run` |
| `WalkEntry` (one path at a time), `Diff` | `walk.rs`, `diff.rs`: classify what was seen, then live rows that were not |
| `TakePath`, `UpsertIntent`, `StatFails` | `process.rs` 57-66: lstat, `upsert_walked` with status Pending |
| `ReadFile`, `ReadFails` | `process.rs` 68-79: read; ENOENT makes the row Deleted, other errors FailedTransient |
| `ExtractFails`, `IndexChunks`, `MarkIndexed`, `RecordProgress` | `process.rs` 81-129 |
| `DropDocs`, `MarkDeleted` | `process.rs` 191-199 |
| `Commit`, `FinishRun`, `TouchLastReconciliation`, `PruneRuns` | `process.rs` 201-205, `reconciler.rs` 102-107 |
| `Abort` | an error that `?` returns, or a kill: what the writer buffered is gone |
| `TreeChanges` | other programs, at any step |

A file's *version* is both its content and the `(size, mtime_ns)` pair that the file
system reports; `stat` in a row is the version recorded. A row is absent when no
statement inserted it (rows are never deleted). `writer` holds the documents with all
buffered operations applied, `searcher` the committed ones. `process_one` stats a file
with lstat, so a symbolic link (`Links`) is recorded by its own stat, while the walk
follows it: links never settle, which is why `SettledIsExact` and `RerunIsIdle` leave
them out. `RerunIsIdle` also leaves out rows that failed for the time being and rows
that are Pending since a run died: the PRD wants those tried again. `calm` and `lost`
are history: how long the tree held still (`"run"` since the run began, `"settled"`
through a whole run), and which files' documents died in a buffer.

**Assumed of the environment.** Every write gives a file a pair it never had (no write
within one mtime tick that keeps the size). A read returns one version; a torn read
would be one older version next to a newer stat on disk, which the next run sees.
Directories stay readable: the walk sees all files or the model's `Remove` has taken
them. Crashes are those of the process: what SQLite and tantivy wrote stays (a loss of
power is Durability's business). The root is always spelled the same. `config.toml` is
the default.

### SearchView and the refinement

SearchView is what a run promises whoever searches after it, without databases, phases
or plans: every copy of a file that a run puts up was the file at some moment of that
very run. It may publish as often as it likes (the PRD wants several commits in a long
run, the code makes one), and searches come between runs, as `Store::open` takes the
exclusive flock. What it rules out is that a run publishes what an earlier one left in a
buffer, or mixes versions. ReconcilerView adds one history variable (`offered`, the
versions each file had since the run began) and maps `tree <- content`, `shown <-
searcher`, `busy <- Busy`.

### StoreLock

Processes run one command each: `Check` looks for `index.toml` without the lock,
`MakeDir`, `OpenLockFile`, `Flock`, then for `init` `Truncate` and `Fill` (the two
halves of `fs::write`), for the others `LoadIdentity`, then `OpenEngines` (databases,
tantivy's own lock), and at the end `DropEngines` and `DropLock` in the order of Store's
fields. `Kill` frees locks as the kernel does; `RemoveIndex` is the user's `rm -r
.ndex`, after which files that are open belong to a directory no path leads to.

### Extraction, TextBlocks, Chunker, TextChunks

Chunker takes a turn of one of `Chunker::chunk`'s loops per step: `EnterBlock`, `Grow`
(the inner while), `Emit`, `StepBack` (the overlap), `Advance`. Words and token counts
are input, of any kind. Extraction decides who reads a file: `Detect` asks signature,
extension, table of names and bytes in turn, `Router` gives the type to an extractor,
and only the text family returns (`Extracts`); the rest is `todo!()`, whose panic is
caught: those are the `Opaque` versions of Reconciler. TextBlocks has the pure part: the
byte-order mark, the split at blank lines with its offsets, the words. Bytes are of five
kinds (newline, other white space, NUL, byte-order mark, anything else), which is all
the code looks at; a multi-byte character is a run of bytes of one kind. TextChunks
feeds one to the next; there the tokens of a word are its bytes.

### Search

One step per command, as the store is locked while it runs. `matches` is tantivy's
ranking for the query, arbitrary but sorted and without doubles. `Run` fetches `max(1,
limit + offset)` hits, normalizes scores over all of them, then skips and takes;
`Snippet` searches a second time, in bodies only, which ranks as the first search does
because no document has a title. Scores are naturals: `Epsilon` is `f32::EPSILON` in
their unit, below which all are shown as 1.0, and a score on display is one of `0 ..
One`, to which `Quotient` rounds as f32 division does, so that different scores may show
alike. The user turns pages (`SearchPage` advances the offset) or starts anew; other
commands commit in between.

### Wire

The server's writes go through `outbox` to a small `pipe` byte by byte, so every split
of `write_all` and `read_exact` occurs; `Die` loses what was not handed over. `ScanByte`
is a turn of `scan_preamble`; `ReadByte`, `HaveLength` and `HavePayload` are
`read_frame`. Bytes are digits below `Base`, so that lengths of two bytes have a byte
order and can be too large.

### Durability

Reconciler has a run in full and gives each path one id for ever; Durability has less of
the run and more of what can happen to its stores. `rows` is the manifest by file_id,
and a new row is numbered after the last, as SQLite numbers rowids. `wal` holds every
manifest a power loss may bring back: the last checkpoint and all committed since.
`docs` is what tantivy committed, and synced. A run's steps are `StartRun` (walk and
diff), `TakePath` (lstat and the intent row), then `Fail` or `Index` (read, extract,
delete_file, add_chunk, set_status), `Drop`, `Commit`, `Touch`, and `Close`, where
SQLite checkpoints. `Kill` loses the writer's buffer, `PowerLoss` that and a suffix of
the manifest; `TreeChanges`, `Tick` and `SetBack` belong to other programs. `known`
remembers what this run indexed, `ends` when runs ended; no step reads either.
`Staleness` is the function of `refresh.rs`; `quick_reconcile` is one more run, as the
options it passes are read by nothing.

Assumed: SQLite makes its automatic checkpoints (they only take manifests out of `wal`,
so leaving them out loses no safety), and a torn page is repaired by its WAL checksums;
tantivy's commit is durable when it returns.

### Columns, Messages, Settings, Identity, Names, Encodings

These are functions, and Encodings exercises them: a behaviour writes a row a few times,
sends one message, loads and saves one configuration, opens one index or shows one name.

Widths has `as`: Half stands for 2^63, Word for 2^32, Byte for 2^8, so that both sides
of every edge are small. Columns has each table's columns with the type of their field,
the upserts with what they set and what they leave, and both directions of every
conversion. Messages has every struct of `message.rs` by the names of its fields, and
what serde makes of a map that has a field more or less, or a variant the reader does
not know. Values are "zero" (what a default gives), "some" and "new". Settings has every
section and key with type and default; numbers in texts count halves, so that fractions
occur, and a float has gaps above its mantissa. Names distinguishes the characters
`to_json_escaped` does, and the ones its output could be confused with; `ReadAs` is how
a JSON reader takes the output.

## Runs

| run | what it shows |
|---|---|
| `reconciler_safety` | index, manifest and tree agree: freshness, no doubles, no orphans, exactness after a run over a still tree, the run table, write order, dry runs |
| `reconciler_liveness` | a run that began ends |
| `reconciler_view` | refinement of SearchView, with a symbolic link; a second run over a still tree is idle but for links, transient failures and Pending rows; and `ProofInv`, all strengthened invariants of the proofs |
| `store_lock` | exclusion, torn and replaced identities, both locks' meaning, every command ends |
| `text_chunks` | nothing of a text is lost, cut apart, misplaced or too large on its way into chunks |
| `search_pages` | pages tile the ranking; numbers, scores and snippets belong to their hits |
| `wire` | whole frames in order, no needless refusal, all frames of a server that closes |
| `durability` | after a power loss a run shows what it read, whatever ids it hands out again; whose text other files' hits can show, and when; what "fresh" means |
| `encodings` | rows read back at every width, changes seen in them, messages understood between builds, settings that load again and grow with their text, UTF-8 names that a JSON reader gets back |
| `crash_progress`, `transient`, `deleted_docs` | each finds a counterexample to a sentence of the documentation; see "Findings" |

**Bounds, and why they are enough.** Two paths (`reconciler_*`): the stores' tables are
per file, and files meet only in the plan's order, the one commit and the run table, for
which two suffice. Two versions: every comparison is between a recorded and a current
version; a third write during a run is a second one seen from the stat. Three runs, one
of which may die: die, recover, rest. `RunHistory = 1` makes pruning bite (1000 in the
code). Version 2 cannot be extracted (`Opaque`) in the liveness and view runs. Three
processes with a kill and a removal: a holder, a waiter and one that comes late. Texts
of six bytes hold two blank lines that share newlines and a word on each side; files of
three bytes, with NUL bytes before and behind a `TextSniffBytes` of 2, come with every
signature and name; lines of five words of one to three tokens, with windows of 1, 3 and
4 and overlaps of 0, 1 and "too much", hold windows that start in the overlap of an
overlap. Three chunks of two files have every pattern of ties; pages of 0 to 3; scores
of 1, 2, 4 and 9 with an `Epsilon` of 1 and a display of three steps have differences
within epsilon and ones that rounding shows alike. Noise of five bytes goes two past the
budget of the small scan. `durability` has three runs, so that one can be lost, one can
hand out its ids again and one can find what that left; one change of the tree, one
kill, one power loss, at any steps. `encodings` has values on both sides of zero and of
each width's ends (sizes at 2^32, 2^63 and 2^64 - 1, times just inside and outside an
i64 of nanoseconds, and a whole turn of it apart), every field of every message left out
in turn, texts around the gaps of floats and the end of u64, all names of up to three
units. What is proved needs no bounds.

**Deadlock** is checked but for `text_chunks`, `wire`, `durability` and `encodings`,
whose systems stop when their input, or the bound on it, is used up. StoreLock stutters
on purpose once all commands ended.

**Fairness.** `RunStep` (weak): the process is scheduled; all its steps are enabled
until it acts, and nothing else is assumed, least of all that it succeeds. `Step(p)`
(weak, per process): each process runs one command, so a free flock is taken from a
waiter only finitely often. `Flow` and `Client` (weak): the kernel moves bytes, the
client keeps reading. No fairness on the environment.

## Proofs

`tlapm` checks every proof in `ReconcilerProofs`, `ReconcilerViewProofs`,
`StoreLockProofs`, `ChunkerProofs`, `DurabilityProofs`, `SearchProofs`, `WireProofs` and
`EncodingsProofs`, for all values of the constants, from the named assumptions of the
modules and nothing else.

* **Reconciler.** `TypeCorrect`, then three invariants. *IndexInv*: freshness alone is
  not inductive, since it says nothing of the file in hand; `HandInStep` says what its
  row, bytes and documents are at each step, `NothingFromTheFuture` that no stat or
  document is newer than the file ever was, `DeletionsUntouched` and
  `BufferOnlyInProcess` where the searcher may differ from the writer. From it follow
  `Freshness`, `OneVersion`, `HitsResolve`, `NothingBuffered`, `WriteOrder`,
  `AtomicPublish` (that the code commits once a run, which is not what the PRD asks).
  *LedgerInv* keeps the run table through finish, touch and prune: `Reconciled`,
  `DryRun`. *CalmInv* says what a run knows while the tree stands still: what the walk
  saw is what is there, and each file that is not planned any more is exact. It needs
  IndexInv for the documents of unchanged files. From it: `Convergence`, `Idempotence`.
* **Refinement.** *ViewInv*: whatever a run carries from step to step (walk, plan,
  bytes, buffered documents) was offered in this run. With it each step of
  ReconcilerView is a step of SearchView or stutters.
* **StoreLock.** *LockInv*: a process past `Flock` and only such a one holds the flock
  of the directory whose lock file it opened; an open store and only such a one has the
  IndexWriter. Without a removal there is one directory, and the holder leaves its
  identity whole. Hence `Exclusion` (the second lock catches what the first lets through
  after a removal), `NotBusy`, `NotTorn`, `Identity`.
* **Chunker.** *ChunkInv*: the words behind the window are in chunks, and so are
  neighbours that fit; a window begins at the end of the last one only if that held a
  single word, whose neighbour did not fit. Hence `EveryWord`, `Neighbours`, `InOrder`.
  *Sized* counts the window's tokens against sums over the block's words, *Moving* says
  that no chunk of the block ends behind what the window holds or can still take in:
  when a window ends it has got past the last one, as what they share was counted
  before. Hence `FitsTarget`, `MovesOn`.
* **Text.** Lemmas say what each part of TextBlocks makes of any text. `PartsLaid`: the
  parts of `split` lie one behind the other, two bytes apart, and no ink (a byte that is
  not white space) is between them. `ParagraphsCut`: a trimmed part lies in the text
  where its offset says, and has all ink of its part. `WordsFound`: every byte of ink is
  in a word, and words are in order. *TextInv* adds to ChunkInv that a chunk begins
  where its first word does and ends where its last does. Hence `EveryByte`, and
  `Offsets` for files whose text is their bytes, of any length and in any configuration.
* **Durability.** That a run shows what it read is easy while its steps are its own;
  what needs an invariant is that ids are handed out twice. *RunInv*: what the run
  indexed lies in the writer, alone under its id, and in the documents once committed,
  and the file in hand has the row of its id. *OwnInv*: before any power loss the
  documents of an id are of that id's path, in both stores and in every manifest the log
  can bring back; after one, if no run was killed, an Indexed row has none but its own.
  *EndInv*: every time on record, in any manifest of the log, is a time a run ended, so
  a rollback makes the index look older and never younger. Hence `Exactness`,
  `Containment`, `Freshness`, for any number of files, runs and changes.

* **Search.** The properties are inductive once the place of the user is known: what a
  run returns is a piece of the ranking, as it fetches to the end of its page whatever
  came before (`FetchEnough`), and adjacent pages join (`NextPage`). Scores on display
  keep their order because a rounded quotient is monotone (`QuotientIs`,
  `DisplayOrder`), for any `Epsilon` and `One`. Hence `Pages`, `DisplayedScores`,
  `Lines`.
* **Wire.** *Scanning* relates the scan's counters to the bytes still to come. The first
  byte of the preamble is nowhere else in it, so the byte behind the noise begins a
  match whatever the noise was taken for, and the match then grows with the count. Hence
  `NoiseTolerated`. *Framed* looks at the whole stream: there are positions at which the
  bytes on their way split into the frames sent and not yet read, and the client stands
  at one, or behind the length that follows it; *Delivered* says what has been read, and
  that a length in hand is that of the next frame. A length is read as it was written
  because it is below the power of the base that its bytes can count to (`Power`). Hence
  `Frames` and `Accepted`: also when the server dies within a frame.
* **Encodings.** *PeerInv* keeps what was sent next to what came of it; that no struct
  of a message has a field without a stand-in is a lemma about the declarations
  (`AllMayBeMissing`). Hence `Peers`. `UnsignedColumns` is about the casts, for any
  width. *RowInv* says that a row is what the last writes put into its columns and kept
  of the rest, column by column; each column's cast and its inverse then cancel on the
  numbers that its field can have. Hence `RowsKept`, and `Changes`: a stat is classified
  as unchanged exactly if it has the same size and a time that is the same but for whole
  turns of an i64 (`TimeWraps`, `SameCast`: one cast takes two numbers for the same only
  if they are turns apart); for times that fit, then, exactly if size, seconds and
  nanoseconds are the same. Inode, device and mode are recorded and not compared.
  *MetaInv* does the same for the tables of metadata. *NameInv* and the lemmas on what
  is joined for a unit: an escape begins with a character that no other output begins
  with, so what is shown can be read in one way only; a JSON reader's spelling of a
  character is, for names that are UTF-8, what the code writes for it (`ReadsBack`).
  Hence `Shown`, for names of any length. *SettingsInv*: what was read is within the
  types of its keys, and a value that is written and read again is the same; for floats
  that needs that rounding twice is rounding once (a rounded number is a multiple of its
  gap, and gaps are powers of two), also through the narrower of the two formats. Hence
  `Reload`. `Larger` needs that rounding never changes the order of two numbers, across
  gaps too.

**How things are proved that need induction.** The induction theorems of the library
take an operator as a parameter, which no installed prover instantiates. What they are
made of can be cited: `<` on the naturals is well-founded, so a set of naturals that is
not empty has a least element (`LeastNumber`); applied to the set of numbers for which a
statement fails this is induction (`Induction`, `StrongInduction`), for a set in the
place of the predicate. With it the recursive functions of the model are shown to exist
for every length (`SumsExist`, `SpansExist`, `PartsExist`, `CutsExist`, ...), which is
what makes them usable, and then what they compute. For that reason loops of the code
are recursive functions here (`WordSpans`, `ParagraphBlocks`, `Gap`) and not folds.

**Assumed of the constants**, besides what the code fixes: files, texts and values are
of their types (`FilesAssumption`, `RowsAssumption`, `InputsAssumption`,
`TomlsAssumption`); mantissas are even and at least 4 (`SettingsAssumption`), which of
2^24 and 2^53 is all that rounding needs; the defaults fit their own keys
(`DefaultsAssumption`); the preamble's first byte is nowhere else in it
(`MagicAssumption`). TLC evaluates each of them in its run.

`LargerTextLargerSetting` has a restriction that the proof asked for: sizes with
*different* units are compared only if a float counts their numbers exactly. Without
it the statement is false: a number that was rounded up before it is multiplied can
overtake a larger one that was not.

**Only model-checked**: liveness (`RunEnds`, `EveryCommandEnds`, `EveryFrameArrives`),
which the prover does not do; and the counterexamples. Every invariant and every action
property of the runs, and the refinement, is a theorem.

## Findings

Shown by runs:

* `crash_progress`: a file gets status Indexed and its progress row before the commit
  that makes its chunks durable. A run that dies in between leaves the file
  unsearchable, and every later run takes it for unchanged.
* `transient`: `classify` ignores the status, so a file that failed once is not retried
  until it changes. For the same reason rows stay Pending after a crash, and a row
  marked Deleted is not revived when the file returns with its old size and mtime.
* `deleted_docs`: a modified file that vanishes between lstat and read becomes Deleted
  with its old chunks still searchable.

Seen while modelling, without a run of their own:

* Locks and identity. Every command, `search` too, takes the exclusive flock and waits
  for a running index. Two `init`s that race both write `index.toml`
  (`ndex-store/src/lib.rs:78`; the second replaces the first's identity after that one
  closed). The lock file lies inside the directory that the user is told to remove. An
  `index.toml` of a newer schema that lacks a key is refused as a configuration error
  (exit code 78) and not as a schema mismatch (6) with its advice to reindex
  (PRD.md:571, 608); `PeersUnderstand` asks for a refusal and leaves its code open. An
  `init` that is killed within `fs::write` leaves a directory that neither `open` nor
  `create` accepts.
* Extraction. What nothing identifies and is binary by its bytes is indexed as text, as
  is every type the router does not know; status 5 (skipped) is set nowhere. Chunk
  offsets count in decoded, normalized text, so a byte-order mark, or any encoding but
  UTF-8, moves them away from the "source byte offsets" of `model.rs:72`;
  `OffsetsLocateText` claims them for files whose text is their bytes.
* Reconciliation. The code commits once, at the end of a run (`process.rs:203`; its
  comment at 201 cites PRD 10.2, as `fts.rs:160` does), where PRD.md:1021 wants a commit
  every 10,000 documents or 30 seconds. `process_one` sets the final status before it
  writes the progress row (`process.rs:122-127`), where PRD.md:1346-1349 and 1356-1358
  have the row first. Rows that are Pending since a run died are not resumed
  (PRD.md:1351, 1426), for the reason of `transient`. A modified file that fails to
  extract keeps the documents of its last version, whose hits are shown under a failed
  row; after a power loss these can be another file's, as Durability shows. `index`
  takes `--full`, `--only-new`, `--verify` and `--max-file-size` and `run` looks at none
  of them (`--full` only names the run). The comment of `quick_reconcile` promises a
  lock that is tried and not waited for, new files only and a budget of time; the code
  takes no lock and its options are read by nothing. An index counts as fresh from the
  end of its last run, not from the walk, and for as long as the clock is behind that.
  `stats` counts every row that is not deleted as a file indexed.
* Search. `search.rs` returns a `total` that is capped by what it fetched, so
  `truncated` is true for a limit and offset of 0 only. Scores are normalized over all
  that was fetched, so the last hit of every page tends to show 0.000 and the first of
  later pages does not show 1 (PRD.md:1239 says "within the returned result set"); hits
  whose scores lie within `f32::EPSILON` all show 1.000. `snippet` finds nothing for
  hits beyond the 64th. No results are a success, where PRD 13.7 has exit code 7.
  Documents without a row are shown as `file#<id>`.
* Wire. `scan_preamble` accepts one byte of noise more than its budget; `read_frame`
  cannot tell an orderly end of the stream from a torn frame.
* Values. The size `"-5"` is taken as 0 while the integer -5 is refused. The seconds of
  a duration wrap in release builds, and so do times outside 1677 to 2262. A size of
  2^63 or more may load and not save, as TOML's integers are signed. The byte 0xff and
  the character ÿ have the same escape in JSON, although `path.rs` means to preserve
  every byte; `to_json_escaped` is used by no command, and `TextNamesReadBack` is about
  UTF-8 names. In `meta.db` only what a new version has is written, and a file that
  vanishes between lstat and read keeps its metadata.

## Not modelled

* The vector index, the embedder, the client, transport, serve loop, verify, delete,
  config and checkpoint commands: `todo!()`; reindex returns an error. `recover.rs` does
  nothing and nothing calls it. `meta.db` is modelled as statements only, since no
  extractor that works fills it.
* Ignore rules, preflight checks, progress ticks, rendering, argument parsing, error
  texts: no state that a property could be about.
* Query parsing, scoring, tokenizing, transcoding, normalization: library calls.

## Plan

Written, in this order: the stores and the reconciliation with its invariants and
proofs; the promise to searchers and its refinement; the locks; the text pipeline from
detection to chunks; search; wire; the two stores' durability and the staleness of an
index, with proofs; rows, messages, settings, identity and names; and then the proofs
that need induction: frames, rows, names, settings, windows, texts. Still open:

1. Proofs: Durability as an implementation of what Reconciler promises between two power
   losses, which needs one numbering of files in both.
2. The modes of `mode.rs`, once a store has vectors, and the targets of `hosts.rs`, once
   a client consults them.
