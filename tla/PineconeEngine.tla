----------------------------- MODULE PineconeEngine -----------------------------
(***************************************************************************)
(* The context engine with a vector index for a memory                     *)
(* (packages/pinecone-context-engine), over any of the three clients       *)
(* (pinecone-client, pgvector-client, upstash-vector-client): ingest       *)
(* stores a turn, compact stores the old turns of the session file and     *)
(* lets the host delete them there, assemble adds what a query finds to    *)
(* the prompt.                                                             *)
(*                                                                         *)
(* One session of one agent; others have ids of their own.  A turn is a    *)
(* role and a text; a text is a model value with a number of chunks and of *)
(* tokens per chunk.  ingest, compact and assemble may overlap; a call of  *)
(* the client writes batch after batch, may be told to slow down (429) or  *)
(* fail, and the gateway may restart.  The host, modelled from the answers *)
(* of the engine, deletes the turns a compact has read if it says so; the  *)
(* command memory-delete removes chunks at any time.                       *)
(***************************************************************************)
EXTENDS Integers, Sequences, FiniteSets, SequencesExt, Selections

CONSTANTS
    Backends,        \* subset of {"pinecone", "pgvector", "upstash"}
    Roles,
    IngestRoles,     \* ingestRoles
    Texts,
    NoText,          \* the text of a turn with tool calls only
    SkipTexts,       \* texts with one of skipPatterns
    ChunkCount,      \* text -> how many chunks TextChunker makes of it
    ChunkTokens,     \* tokens of one chunk
    UPSERT_BATCH_SIZE,
    MAX_RETRIES,
    Budget,          \* tokenBudget, ragTokenBudget
    CoreTokens,      \* tokens of AGENTS-CORE.md, 0 if there is none
    MaxTurns,        \* bound: turns in the session, and different ones gone
    MaxForgotten     \* bound: chunks that memory-delete has removed

ASSUME EngineAssumption ==
    /\ IngestRoles \subseteq Roles
    /\ SkipTexts \subseteq Texts /\ NoText \notin Texts
    /\ ChunkCount \in [Texts -> Nat \ {0}]
    /\ UPSERT_BATCH_SIZE \in Nat \ {0}
    /\ {ChunkTokens, MAX_RETRIES, Budget, MaxTurns, MaxForgotten} \subseteq Nat
    /\ CoreTokens \subseteq Nat

VARIABLES
    backend,    \* the client the plugin was made for
    session,    \* the session file
    index,      \* ids in the agent's namespace
    ingesting,  \* the calls of upsert under way, for ingest
    compacting, \* and for compact
    gone,       \* turns the host has deleted from the session file
    forgotten,  \* ids memory-delete has removed
    prompt      \* the answer of assemble, until the host has taken it

engineVars == <<backend, session, index, ingesting, compacting, gone, forgotten, prompt>>

Idle == [step |-> "idle", taken |-> {}, chunks |-> <<>>, at |-> 1, attempt |-> 0]

NoPrompt == [mode |-> "none", core |-> 0, chunks |-> <<>>, tokens |-> 0]

EngineInit ==
    /\ backend \in Backends
    /\ session = <<>>
    /\ index = {}
    /\ ingesting = Idle
    /\ compacting = Idle
    /\ gone = {}
    /\ forgotten = {}
    /\ prompt = NoPrompt

(***************************************************************************)
(* Chunks.  An id is a hash of session, role and text, and a number: equal *)
(* turns have the same ids.                                                *)
(***************************************************************************)
Kept(message) == message.text # NoText /\ message.text \notin SkipTexts

chunk(message) ==
    IF Kept(message)
    THEN [i \in 1..ChunkCount[message.text] |-> <<message.role, message.text, i>>]
    ELSE <<>>

(***************************************************************************)
(* upsert, with retries: all batches again after a 429, up to MAX_RETRIES. *)
(* An INSERT ... ON CONFLICT of PostgreSQL that names an id twice fails.   *)
(***************************************************************************)
Upserting(chunks, taken) ==
    [Idle EXCEPT !.step = "upsert", !.chunks = chunks, !.taken = taken]

IsLastBatch(job) == job.at + UPSERT_BATCH_SIZE > Len(job.chunks)

Batch(job) ==
    SubSeq(job.chunks, job.at,
           IF IsLastBatch(job) THEN Len(job.chunks) ELSE job.at + UPSERT_BATCH_SIZE - 1)

StatementFails(job) == backend = "pgvector" /\ ~IsInjective(Batch(job))

Writes(job) == IF StatementFails(job) THEN {} ELSE Range(Batch(job))

AfterBatch(job) ==
    IF StatementFails(job) THEN [job EXCEPT !.step = "failed"]
    ELSE IF IsLastBatch(job) THEN [job EXCEPT !.step = "stored"]
    ELSE [job EXCEPT !.at = @ + UPSERT_BATCH_SIZE]

\* What a batch that the service refuses makes of the job.
AfterTrouble(job) ==
    {[job EXCEPT !.step = "failed"]}
        \cup (IF job.attempt < MAX_RETRIES
              THEN {[job EXCEPT !.at = 1, !.attempt = @ + 1]}
              ELSE {})

(***************************************************************************)
(* ingest: the host has a new turn in the session file, and offers it.     *)
(* Its answer is the same whether the turn was refused or the upsert       *)
(* failed, and the host does nothing about it.                             *)
(***************************************************************************)
ingest(message) ==
    IF message.role \in IngestRoles THEN chunk(message) ELSE <<>>

NewTurn ==
    /\ ingesting.step = "idle"
    /\ Len(session) + Cardinality(gone) < MaxTurns
    /\ \E role \in Roles, text \in Texts \cup {NoText} :
          LET message == [role |-> role, text |-> text]
          IN /\ session' = Append(session, [turn |-> message, old |-> FALSE])
             /\ ingesting' = IF ingest(message) = <<>>
                             THEN Idle
                             ELSE Upserting(ingest(message), {message})
    /\ UNCHANGED <<backend, index, compacting, gone, forgotten, prompt>>

Ended(job) == IF job.step = "upsert" THEN job ELSE Idle

IngestStep ==
    /\ ingesting.step = "upsert"
    /\ \/ /\ ingesting' = Ended(AfterBatch(ingesting))
          /\ index' = index \cup Writes(ingesting)
       \/ /\ \E job \in AfterTrouble(ingesting) : ingesting' = Ended(job)
          /\ UNCHANGED index
    /\ UNCHANGED <<backend, session, compacting, gone, forgotten, prompt>>

(***************************************************************************)
(* compact.                                                                *)
(***************************************************************************)
OldTurns ==
    LET old == Selected(session, {i \in DOMAIN session : session[i].old})
    IN [i \in DOMAIN old |-> old[i].turn]

\* Mutant: a compact that leaves out the roles ingest refuses.
chunksOfIngested(turns) == FlattenSeq([i \in DOMAIN turns |-> ingest(turns[i])])

chunksOf(turns) == FlattenSeq([i \in DOMAIN turns |-> chunk(turns[i])])

\* The oldest turns that are not old yet become so.
GrowOld ==
    /\ \E i \in DOMAIN session :
          /\ ~session[i].old
          /\ \A j \in 1..i-1 : session[j].old
          /\ session' = [session EXCEPT ![i].old = TRUE]
    /\ UNCHANGED <<backend, index, ingesting, compacting, gone, forgotten, prompt>>

\* A session file that cannot be read has no old turns.
CompactBegins ==
    /\ compacting.step \in {"idle", "failed"}
    /\ OldTurns # <<>>
    /\ compacting' =
          LET chunks == chunksOf(OldTurns)
              taken == Range(OldTurns)
          IN IF chunks = <<>>
             THEN [Idle EXCEPT !.step = "stored", !.taken = taken]
             ELSE Upserting(chunks, taken)
    /\ UNCHANGED <<backend, session, index, ingesting, gone, forgotten, prompt>>

CompactStep ==
    /\ compacting.step = "upsert"
    /\ \/ /\ compacting' = AfterBatch(compacting)
          /\ index' = index \cup Writes(compacting)
       \/ /\ compacting' \in AfterTrouble(compacting)
          /\ UNCHANGED index
    /\ UNCHANGED <<backend, session, ingesting, gone, forgotten, prompt>>

\* The host deletes what it takes for compacted, or never gets to it.
HostDeletes ==
    /\ compacting.step = "stored"
    /\ \/ /\ session' = Selected(session, {i \in DOMAIN session :
                           ~(session[i].old /\ session[i].turn \in compacting.taken)})
          /\ gone' = gone \cup compacting.taken
       \/ UNCHANGED <<session, gone>>
    /\ compacting' = Idle
    /\ UNCHANGED <<backend, index, ingesting, forgotten, prompt>>

(***************************************************************************)
(* assemble.  A query finds chunks of the index, in the order of their     *)
(* scores.                                                                 *)
(***************************************************************************)
Findings == UNION {{ids \in [1..n -> index] : IsInjective(ids)} : n \in 0..2}

Fitting(ids, budget) ==
    SubSeq(ids, 1, IF Len(ids) * ChunkTokens <= budget
                   THEN Len(ids)
                   ELSE budget \div ChunkTokens)

\* rerankChunks: of chunks with the same text the best one stays.
TextOf(id) == <<id[2], id[3]>>

rerankChunks(ids) ==
    Selected(ids, {k \in DOMAIN ids : \A l \in 1..k-1 : TextOf(ids[l]) # TextOf(ids[k])})

buildAddition(mode, core, ids, budget) ==
    LET chunks == Fitting(ids, budget)
    IN [mode |-> mode, core |-> core, chunks |-> chunks,
        tokens |-> core + Len(chunks) * ChunkTokens]

\* The host calls assemble for a prompt, and takes the answer.
HostTakesPrompt ==
    /\ prompt # NoPrompt
    /\ prompt' = NoPrompt
    /\ UNCHANGED <<backend, session, index, ingesting, compacting, gone, forgotten>>

\* A query that fails or takes too long leaves the prompt to the fallback,
\* which adds nothing.
assembleClassic ==
    /\ prompt = NoPrompt
    /\ \E ids \in Findings : prompt' = buildAddition("classic", 0, ids, Budget)
    /\ UNCHANGED <<backend, session, index, ingesting, compacting, gone, forgotten>>

\* Mutant: a budget for the chunks alone.
WholeBudget(core) == Budget

DynamicBudget(core) == IF Budget > core THEN Budget - core ELSE 0

\* AGENTS-CORE.md is added whatever becomes of the query.
assembleRag ==
    /\ prompt = NoPrompt
    /\ \E core \in CoreTokens, ids \in Findings :
          prompt' = buildAddition("rag", core, rerankChunks(ids), DynamicBudget(core))
    /\ UNCHANGED <<backend, session, index, ingesting, compacting, gone, forgotten>>

\* The parallel implementation answers at once, with a promise of what its
\* lookup will add; the host may take the prompt before that.
assembleParallel ==
    /\ prompt = NoPrompt
    /\ prompt' = [NoPrompt EXCEPT !.mode = "looking"]
    /\ UNCHANGED <<backend, session, index, ingesting, compacting, gone, forgotten>>

LookupAnswers ==
    /\ prompt.mode = "looking"
    /\ \E ids \in Findings : prompt' = buildAddition("parallel", 0, ids, Budget)
    /\ UNCHANGED <<backend, session, index, ingesting, compacting, gone, forgotten>>

(***************************************************************************)
(* The command memory-delete, by a keyword, a source or altogether; and    *)
(* the end of the process.                                                 *)
(***************************************************************************)
MemoryDelete ==
    /\ index # {} /\ Cardinality(forgotten) < MaxForgotten
    /\ \E ids \in {{id} : id \in index} \cup {index} :
          /\ index' = index \ ids
          /\ forgotten' = forgotten \cup ids
    /\ UNCHANGED <<backend, session, ingesting, compacting, gone, prompt>>

RestartEngine ==
    /\ ingesting' = Idle
    /\ compacting' = Idle
    /\ prompt' = NoPrompt
    /\ UNCHANGED <<backend, session, index, gone, forgotten>>

EngineNext ==
    \/ NewTurn \/ IngestStep \/ GrowOld \/ CompactBegins \/ CompactStep \/ HostDeletes
    \/ assembleClassic \/ assembleRag \/ assembleParallel \/ LookupAnswers
    \/ HostTakesPrompt
    \/ MemoryDelete \/ RestartEngine

EngineSpec == EngineInit /\ [][EngineNext]_engineVars

-----------------------------------------------------------------------------
Messages == [role : Roles, text : Texts \cup {NoText}]

Ids == UNION {Range(chunk(message)) : message \in Messages}

Jobs ==
    [step : {"idle", "upsert", "stored", "failed"}, taken : SUBSET Messages,
     chunks : Seq(Ids), at : Nat \ {0}, attempt : 0..MAX_RETRIES]

\* A job under way has chunks left to write.
EngineTypeOK ==
    /\ session \in Seq([turn : Messages, old : BOOLEAN])
    /\ Len(session) <= MaxTurns
    /\ index \cup forgotten \subseteq Ids
    /\ {ingesting, compacting} \subseteq Jobs
    /\ gone \subseteq Messages
    /\ \A job \in {ingesting, compacting} : job.step = "upsert" => job.at <= Len(job.chunks)
    /\ prompt.chunks \in Seq(Ids) /\ prompt.tokens \in Nat

\* compact answers "compacted" only when the index holds the turns it has read:
\* every chunk of a turn the host has deleted for it is in the index, unless
\* memory-delete took it (pinecone-context-engine.ts compact).
CompactAnswersTrue ==
    \A message \in gone : Range(chunk(message)) \subseteq index \cup forgotten

\* What assemble adds is within the budget, but for AGENTS-CORE.md, which is
\* added whole (pinecone-context-engine.ts assembleClassic, assembleRag;
\* pinecone-context-engine-parallel.ts assemble); the rag mode says nothing
\* twice.
PromptFits ==
    /\ prompt.tokens <= Budget \/ prompt.tokens = prompt.core
    /\ prompt.mode = "rag" =>
          \A k, l \in DOMAIN prompt.chunks :
             TextOf(prompt.chunks[k]) = TextOf(prompt.chunks[l]) => k = l
===============================================================================
