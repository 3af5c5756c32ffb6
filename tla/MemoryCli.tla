-------------------------------- MODULE MemoryCli --------------------------------
(***************************************************************************)
(* The easy-flow command of packages/migrate-memory, which fills and       *)
(* empties the memory of an agent in a vector index: migrate-memory,       *)
(* agents, ingest-document, memory-delete and pinecone-to-pgvector.        *)
(*                                                                         *)
(* The index of each backend is a set of rows, one per id; an id is the    *)
(* name of a source and the number of a chunk.  A source is a file of one  *)
(* command, with a version and a number of chunks, or a turn of a session, *)
(* which the context engine stores.  A command reads its file when it      *)
(* begins and works off a list of phases, batch after batch; it may fail   *)
(* or be killed between any two writes.  Commands run side by side.        *)
(***************************************************************************)
EXTENDS Integers, Sequences, FiniteSets, FiniteSetsExt, SequencesExt

CONSTANTS
    Commands,
    Files,
    CommandOf,          \* file -> "migrate", "agents" or "ingest"
    Extensions,         \* file -> the files whose names go on with ":..." after it
    Turns,              \* session turns, of one chunk each
    MaxChunks,
    BatchSize,          \* UPSERT_BATCH_SIZE
    TopK,               \* rows a search finds
    MaxVersion,         \* bound: versions of a file
    MaxEdited           \* bound: files that are edited

Indexes == {"pinecone", "pgvector"}

Sources == Files \cup Turns

ASSUME CliAssumption ==
    /\ Files \cap Turns = {}
    /\ CommandOf \in [Files -> {"migrate", "agents", "ingest"}]
    /\ Extensions \in [Files -> SUBSET Files]
    /\ {MaxChunks, BatchSize, TopK, MaxVersion} \subseteq Nat \ {0}
    /\ MaxEdited \in Nat

VARIABLES
    document,   \* file -> its version and number of chunks
    rows,       \* backend -> set of rows
    command     \* command -> its state

cliVars == <<document, rows, command>>

Row == [source : Sources, chunk : 1..MaxChunks, version : 1..MaxVersion, staged : BOOLEAN]

SameId(r, s) == r.source = s.source /\ r.chunk = s.chunk

\* Mutant: ON CONFLICT DO NOTHING.
UpsertedUnlessThere(old, new) == old \cup {s \in new : \A r \in old : ~SameId(r, s)}

\* INSERT ... ON CONFLICT (namespace, id) DO UPDATE, and its like.
Upserted(old, new) == {r \in old : \A s \in new : ~SameId(r, s)} \cup new

NotRun ==
    [kind |-> "none", backend |-> "pinecone", scope |-> {}, step |-> "new", phases |-> <<>>,
     chunks |-> <<>>, at |-> 1, found |-> {}, failed |-> FALSE, disturbed |-> FALSE]

CliInit ==
    /\ document = [f \in Files |-> [version |-> 1, length |-> MaxChunks]]
    /\ rows = [b \in Indexes |-> {}]
    /\ command = [p \in Commands |-> NotRun]

\* Once every command has read its file, an edit changes nothing for them.
Edit(f) ==
    /\ \E p \in Commands : command[p].step = "new"
    /\ document[f].version < MaxVersion
    /\ Cardinality({g \in Files : document[g].version > 1} \cup {f}) <= MaxEdited
    /\ \E length \in 0..MaxChunks :
          document' = [document EXCEPT ![f] = [version |-> @.version + 1, length |-> length]]
    /\ UNCHANGED <<rows, command>>

(***************************************************************************)
(* Commands begin.                                                         *)
(***************************************************************************)
\* What a command does with a file of so many chunks.
Phases(kind, length) ==
    CASE kind = "migrate" -> IF length = 0 THEN <<>> ELSE <<"upsert">>
      [] kind = "agents"  -> IF length = 0 THEN <<>> ELSE <<"delete", "upsert">>
      [] kind = "ingest"  -> IF length = 0
                             THEN <<"delete">>
                             ELSE <<"stage", "delete", "upsert", "unstage">>

chunksOfFile(f) ==
    [i \in 1..document[f].length |->
        [source |-> f, chunk |-> i, version |-> document[f].version, staged |-> FALSE]]

Run(p, kind, backend, scope, phases, chunks) ==
    /\ command[p].step = "new"
    /\ command' = [command EXCEPT ![p] =
          [NotRun EXCEPT !.kind = kind, !.backend = backend, !.scope = scope,
                         !.step = "running", !.phases = phases, !.chunks = chunks]]
    /\ UNCHANGED <<document, rows>>

\* ingest-document knows pgvector only.
runFile(p) ==
    \E f \in Files, b \in Indexes :
       /\ CommandOf[f] = "ingest" => b = "pgvector"
       /\ Run(p, CommandOf[f], b, {f}, Phases(CommandOf[f], document[f].length),
              chunksOfFile(f))

\* memory-delete, by source, by keyword or altogether.
runDelete(p) ==
    \E b \in Indexes :
       \/ \E f \in Files : Run(p, "delete", b, {f}, <<"delete">>, <<>>)
       \/ Run(p, "keyword", b, {}, <<"search", "remove">>, <<>>)
       \/ Run(p, "all", b, Sources, <<"clear">>, <<>>)

\* session turns only, or rows of every source type.
runPineconeToPgvector(p) ==
    \E scope \in {Turns, Sources} :
       Run(p, "copy", "pgvector", scope, <<"fetch", "upsert">>, <<>>)

(***************************************************************************)
(* Phases.                                                                 *)
(***************************************************************************)
InPhase(p, phase) ==
    /\ command[p].step = "running"
    /\ command[p].phases # <<>>
    /\ Head(command[p].phases) = phase

NextPhase(c) == [c EXCEPT !.phases = Tail(@), !.at = 1]

\* p becomes c; it has written rows of the given sources, which disturbs the
\* others that answer for one of them.
Became(p, c, b, written) ==
    command' = [q \in Commands |->
       IF q = p THEN c
       ELSE IF command[q].backend = b /\ command[q].scope \cap written # {}
       THEN [command[q] EXCEPT !.disturbed = TRUE]
       ELSE command[q]]

LastOf(c) ==
    IF c.at + BatchSize > Len(c.chunks) THEN Len(c.chunks) ELSE c.at + BatchSize - 1

BatchOf(c, staged) ==
    {[c.chunks[i] EXCEPT !.staged = staged] : i \in c.at..LastOf(c)}

AfterBatchOf(c) ==
    IF LastOf(c) = Len(c.chunks) THEN NextPhase(c) ELSE [c EXCEPT !.at = LastOf(c) + 1]

\* The chunks of the staging source have the ids of the others: only the source
\* in their metadata differs.
Upsert(p) ==
    /\ InPhase(p, "upsert") \/ InPhase(p, "stage")
    /\ LET c == command[p]
           batch == BatchOf(c, Head(c.phases) = "stage")
       IN /\ rows' = [rows EXCEPT ![c.backend] = Upserted(@, batch)]
          /\ Became(p, AfterBatchOf(c), c.backend, {r.source : r \in batch})
    /\ UNCHANGED document

\* A copy counts the batch as errors, and goes on.
CopyBatchFails(p) ==
    /\ InPhase(p, "upsert") /\ command[p].kind = "copy"
    /\ command' = [command EXCEPT ![p] = [AfterBatchOf(@) EXCEPT !.failed = TRUE]]
    /\ UNCHANGED <<document, rows>>

\* By the prefix of the ids.
Hit(scope) == scope \cup UNION {Extensions[f] : f \in scope}

RowsOf(b, sources) == {r \in rows[b] : r.source \in sources}

Erase(p, c, b, gone) ==
    /\ rows' = [rows EXCEPT ![b] = {r \in @ : \A s \in gone : ~SameId(r, s)}]
    /\ Became(p, c, b, {s.source : s \in gone})
    /\ UNCHANGED document

\* One statement of PostgreSQL.
deleteBySourcePg(p) ==
    /\ InPhase(p, "delete") /\ command[p].backend = "pgvector"
    /\ Erase(p, NextPhase(command[p]), "pgvector",
              RowsOf("pgvector", Hit(command[p].scope)))

\* Pinecone: the ids are listed, and then deleted.
ListBySource(p) ==
    /\ InPhase(p, "delete") /\ command[p].backend = "pinecone"
    /\ command' = [command EXCEPT ![p].found = RowsOf("pinecone", Hit(command[p].scope)),
                                  ![p].phases = <<"remove">> \o Tail(@)]
    /\ UNCHANGED <<document, rows>>

\* A semantic search finds any rows.
SearchKeyword(p) ==
    /\ InPhase(p, "search")
    /\ \E found \in UNION {kSubset(k, rows[command[p].backend]) : k \in 0..TopK} :
          command' = [command EXCEPT ![p] =
             [NextPhase(@) EXCEPT !.found = found, !.scope = {r.source : r \in found}]]
    /\ UNCHANGED <<document, rows>>

deleteMany(p) ==
    /\ InPhase(p, "remove")
    /\ Erase(p, NextPhase(command[p]), command[p].backend, command[p].found)

\* No id begins with the name of the staging source.
DeleteStaging(p) ==
    /\ InPhase(p, "unstage")
    /\ command' = [command EXCEPT ![p] = NextPhase(@)]
    /\ UNCHANGED <<document, rows>>

deleteNamespace(p) ==
    /\ InPhase(p, "clear")
    /\ Erase(p, NextPhase(command[p]), command[p].backend, rows[command[p].backend])

\* The copy reads what it will write.
Fetch(p) ==
    /\ InPhase(p, "fetch")
    /\ command' = [command EXCEPT ![p] =
          LET chunks == SetToSeq(RowsOf("pinecone", @.scope))
          IN [NextPhase(@) EXCEPT !.chunks = chunks,
                                  !.phases = IF chunks = <<>> THEN <<>> ELSE <<"upsert">>]]
    /\ UNCHANGED <<document, rows>>

(***************************************************************************)
(* The end of a command, and the context engine, which stores a turn.      *)
(***************************************************************************)
End(p) ==
    /\ command[p].step = "running" /\ command[p].phases = <<>>
    /\ command' = [command EXCEPT ![p].step = "ended"]
    /\ UNCHANGED <<document, rows>>

\* The preflight finds a secret, a call fails, or the process is killed.
FailCommand(p) ==
    /\ command[p].step = "running" /\ command[p].phases # <<>>
    /\ command' = [command EXCEPT ![p].step = "ended", ![p].failed = TRUE]
    /\ UNCHANGED <<document, rows>>

EngineIngest(b) ==
    /\ \E t \in Turns :
          LET row == [source |-> t, chunk |-> 1, version |-> 1, staged |-> FALSE]
          IN /\ row \notin rows[b]
             /\ rows' = [rows EXCEPT ![b] = Upserted(@, {row})]
             /\ command' = [q \in Commands |->
                   IF command[q].backend = b /\ t \in command[q].scope
                   THEN [command[q] EXCEPT !.disturbed = TRUE]
                   ELSE command[q]]
    /\ UNCHANGED document

CliNext ==
    \/ \E f \in Files : Edit(f)
    \/ \E b \in Indexes : EngineIngest(b)
    \/ \E p \in Commands :
          \/ runFile(p) \/ runDelete(p) \/ runPineconeToPgvector(p)
          \/ Upsert(p) \/ CopyBatchFails(p) \/ deleteBySourcePg(p) \/ ListBySource(p)
          \/ SearchKeyword(p) \/ deleteMany(p) \/ DeleteStaging(p) \/ deleteNamespace(p)
          \/ Fetch(p) \/ End(p) \/ FailCommand(p)

CliSpec == CliInit /\ [][CliNext]_cliVars

-----------------------------------------------------------------------------
Succeeded(c) == c.step = "ended" /\ ~c.failed

\* An index holds a row for an id; who runs has rows to write or delete.
CliTypeOK ==
    /\ document \in [Files -> [version : 1..MaxVersion, length : 0..MaxChunks]]
    /\ \A b \in Indexes :
          /\ rows[b] \subseteq Row
          /\ \A r, s \in rows[b] : SameId(r, s) => r = s
    /\ \A p \in Commands :
          /\ command[p].backend \in Indexes /\ command[p].scope \subseteq Sources
          /\ {command[p].chunks[i] : i \in DOMAIN command[p].chunks} \subseteq Row
          /\ command[p].phases # <<>> /\ Head(command[p].phases) \in {"stage", "upsert"} =>
                command[p].at \in DOMAIN command[p].chunks

\* A command that ends well, and beside which nobody wrote or deleted its sources,
\* has done what it is for: what it has read is in the index, under the final name
\* of its source; after agents and ingest-document nothing else of the source is
\* (an empty AGENTS.md changes nothing); what memory-delete was to delete is not.
WholeAlone ==
    \A p \in Commands :
       LET c == command[p]
           written == {c.chunks[i] : i \in DOMAIN c.chunks}
       IN Succeeded(c) /\ ~c.disturbed =>
             /\ written \subseteq rows[c.backend]
             /\ c.kind = "ingest" \/ (c.kind = "agents" /\ written # {}) =>
                   RowsOf(c.backend, c.scope) = written
             /\ c.kind \in {"delete", "all"} => RowsOf(c.backend, c.scope) = {}
             /\ c.kind = "keyword" =>
                   \A r \in rows[c.backend], s \in c.found : ~SameId(r, s)

Puts(c, b, f, k) ==
    /\ c.backend = b
    /\ \E i \in DOMAIN c.chunks : c.chunks[i].source = f /\ c.chunks[i].chunk = k

Deletes(c, b, f) ==
    /\ c.backend = b /\ c.kind \in {"agents", "ingest", "delete", "keyword", "all"}
    /\ f \in Hit(c.scope \cap Files)

\* The index holds a chunk of a file as one of the commands has read it.
Stored(b, f, k) ==
    \E p \in Commands : \E i \in DOMAIN command[p].chunks :
       LET chunk == command[p].chunks[i]
       IN /\ command[p].backend = b /\ chunk.source = f /\ chunk.chunk = k
          /\ [chunk EXCEPT !.staged = FALSE] \in rows[b]

\* Commands over one file that run at the same time, each deleting what the other
\* has written, leave no hole: if all that delete from it also write a chunk, and
\* have ended well, that chunk is there, as one of the commands has read it, and
\* not under the staging name of another.
WholeTogether ==
    \A b \in Indexes, f \in Files, k \in 1..MaxChunks :
       /\ \E p \in Commands : Puts(command[p], b, f, k) /\ Succeeded(command[p])
       /\ \A p \in Commands :
             Deletes(command[p], b, f) =>
                Puts(command[p], b, f, k) /\ Succeeded(command[p])
       => Stored(b, f, k)

\* A command that ends well leaves the index whole, alone or beside others that
\* write and delete the same sources (migrator.ts, migrate-agents.ts,
\* ingest-document.ts, deleter.ts, pinecone-to-pgvector.ts).
SuccessMeansWhole == WholeAlone /\ WholeTogether

\* "If step 2/3/4 fails -> staging chunks exist as readable backup": what
\* ingest-document was to store is in the index, under one of the two names of
\* its source, once it has stored all under the first (ingest-document.ts:97).
StagingIsBackup ==
    \A p \in Commands :
       LET c == command[p]
       IN (/\ c.kind = "ingest" /\ c.step = "ended" /\ c.failed /\ ~c.disturbed
           /\ Head(c.phases) # "stage")
          => \A i \in DOMAIN c.chunks :
                \E staged \in BOOLEAN : [c.chunks[i] EXCEPT !.staged = staged] \in rows.pgvector
===============================================================================
