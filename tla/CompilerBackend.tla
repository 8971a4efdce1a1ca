--------------------------- MODULE CompilerBackend ---------------------------
(***************************************************************************)
(* The incremental compiler backend of the development runner              *)
(* (apps/stasis/src/compiler_backend.rs) and the source set of the JIT     *)
(* process it compiles (stasis_compiler compiler.rs, backend/jit.rs).      *)
(*                                                                         *)
(* Source text is abstracted to a content: what it imports, and with which *)
(* other contents it does not compile.  A map from files to contents, or   *)
(* to Missing, is used for the disk, for the backend's cache               *)
(* `source_by_path`, for the files of the JIT process and for a compiled   *)
(* program.                                                                *)
(*                                                                         *)
(* The backend is a record of                                              *)
(*   cache   source_by_path: every source read by a compile request;       *)
(*   files   the files of `jit_process`;                                   *)
(*   rooted  the JIT process has a project root;                           *)
(*   seeded  `jit_process_seeded`.                                         *)
(***************************************************************************)
EXTENDS Integers, FiniteSets, FiniteSetsExt

CONSTANTS
    Files,      \* the source files of the project
    Root,       \* the entry source of the runner
    Contents,   \* what a file can hold
    Missing,    \* the content of a file that is not there
    Imports,    \* the files a content imports
    Conflicts   \* sets of contents that do not compile together

ASSUME SourceAssumption ==
    /\ IsFiniteSet(Files)
    /\ Root \in Files
    /\ Missing \notin Contents
    /\ Imports \in [Contents -> SUBSET Files]
    /\ Conflicts \subseteq SUBSET Contents

Sources == [Files -> Contents \union {Missing}]

NoSources == [f \in Files |-> Missing]

\* The files of a source map that are there.
Present(sources) == {f \in Files : sources[f] # Missing}

(***************************************************************************)
(* The module graph.                                                       *)
(***************************************************************************)

\* A set of files that holds the imports of its members.  A file that is not
\* there imports nothing.
Closed(files, sources) ==
    \A f \in files \intersect Present(sources) : Imports[sources[f]] \subseteq files

\* The files reached from the roots through imports: the least closed set.
Reached(roots, sources) ==
    {f \in Files : \A files \in SUBSET Files :
                      roots \subseteq files /\ Closed(files, sources) => f \in files}

\* The sources the compiler sees: a file of the process where it has one, the
\* file on disk for an import it has not loaded yet.
Available(files, disk) ==
    [f \in Files |-> IF files[f] # Missing THEN files[f] ELSE disk[f]]

\* refresh_module_graph: every file of the process is an entry root, because
\* staged_candidate inserts each of them with upsert_file, and a root that
\* nothing imports stays one.  The process then holds exactly the closure.
LoadedProgram(files, disk) ==
    LET sources == Available(files, disk)
        closure == Reached(Present(files), sources)
    IN  [f \in Files |-> IF f \in closure THEN sources[f] ELSE Missing]

\* Loading finds every import, some function is emitted, and the checker
\* accepts the sources together.
Compiles(files, disk) ==
    LET sources == Available(files, disk)
        closure == Reached(Present(files), sources)
    IN  /\ Present(files) # {}
        /\ closure \subseteq Present(sources)
        /\ \A conflict \in Conflicts :
              ~ conflict \subseteq {sources[f] : f \in closure}

\* What a host runs of a program: the entry source and what it reaches.
EntryView(sources) ==
    LET reached == Reached({Root}, sources)
    IN  [f \in Files |-> IF f \in reached THEN sources[f] ELSE Missing]

\* collect_watch_dependency_paths fails on a missing entry or import.
GraphLoads(disk) == Reached({Root}, disk) \subseteq Present(disk)

(***************************************************************************)
(* The backend.                                                            *)
(***************************************************************************)

\* A new backend: an empty cache and an empty process without a root.
NewBackend ==
    [cache |-> NoSources, files |-> NoSources, rooted |-> FALSE, seeded |-> FALSE]

\* A refresh that keeps what was cached before.
RefreshOnce(backend, changed, disk) ==
    [backend EXCEPT !.cache =
        [f \in Files |-> IF f \in changed /\ backend.cache[f] = Missing
                         THEN disk[f] ELSE backend.cache[f]]]

\* refresh_cached_sources: every changed file is read again, a file that is
\* gone leaves the cache.
RefreshCachedSources(backend, changed, disk) ==
    [backend EXCEPT !.cache =
        [f \in Files |-> IF f \in changed THEN disk[f] ELSE backend.cache[f]]]

\* A process that is only ever filled once.
SyncOnlySeed(backend, changed) ==
    IF backend.seeded THEN backend
    ELSE [cache |-> backend.cache, files |-> backend.cache, rooted |-> TRUE, seeded |-> TRUE]

\* sync_jit_process_sources.  The first request, and one that removed a file,
\* rebuild the process from the whole cache and give it the project root.  Any
\* other request inserts only the files it touched, and a process without a
\* root refuses their absolute paths.
SyncJitProcessSources(backend, changed) ==
    LET cache == backend.cache
    IN  IF ~backend.seeded \/ \E f \in changed : cache[f] = Missing
        THEN [cache |-> cache, files |-> cache, rooted |-> TRUE, seeded |-> TRUE]
        ELSE [backend EXCEPT !.files =
                [f \in Files |-> IF f \in changed /\ backend.rooted
                                 THEN cache[f] ELSE backend.files[f]]]

\* compile, on success: the candidate that is published is also the process the
\* next request starts from, whether or not the runtime accepts it.
AcceptCandidate(backend, changed, disk) ==
    LET synced == SyncJitProcessSources(backend, changed)
    IN  [synced EXCEPT !.files = LoadedProgram(synced.files, disk)]

\* compile, on failure: the process taken before the request is put back.  The
\* cache and the seeded flag keep what the request made of them.
RestoreAccepted(backend, changed) ==
    [backend EXCEPT !.seeded = SyncJitProcessSources(backend, changed).seeded]

\* Whether the candidate of a request compiles.
CandidateCompiles(backend, changed, disk) ==
    Compiles(SyncJitProcessSources(backend, changed).files, disk)
=============================================================================
