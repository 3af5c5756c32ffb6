------------------------------- MODULE FileServe -------------------------------
(***************************************************************************)
(* The plugin file-serve (packages/file-serve/src): before a message with  *)
(* a file goes to a LINE chat the file is copied into a directory of its   *)
(* own, a uuid, next to a meta.json that says when it expires, and the     *)
(* message gets a link to it.  An HTTP handler serves the links to clients *)
(* whose rate it limits, and a service removes what has expired.           *)
(*                                                                         *)
(* Everything runs in one process, which may be killed; each call of the   *)
(* file system is a step, any of them may fail, and a recursive removal    *)
(* takes the entries of a directory one by one.  A file that is open can   *)
(* be read although it has been removed.  Names, MIME types and the texts  *)
(* of messages are left out, and so are requests with a malformed URL.     *)
(***************************************************************************)
EXTENDS Integers, Sequences, FiniteSets

CONSTANTS
    Uuids,
    Clients,         \* addresses
    NoClient,
    Ttl,             \* ttlDays, in ticks of the clock
    windowMs,        \* in ticks
    maxRequests,
    MaxEntries,      \* MAX_RATE_LIMIT_ENTRIES
    MaxNow,          \* bound: ticks of the clock
    MaxAsked         \* bound: requests in a behaviour

ASSUME ServeAssumption ==
    /\ {Ttl, windowMs, maxRequests, MaxEntries} \subseteq Nat \ {0}
    /\ {MaxNow, MaxAsked} \subseteq Nat
    /\ NoClient \notin Clients

VARIABLES
    now,
    disk,       \* uuid -> what the directory holds
    save,       \* uuid -> how far the hook is that saves a file there
    buckets,    \* the entries of the rate limiter, oldest first
    request,    \* the request that is being answered
    cleanup,    \* the run of the cleanup service
    asked,      \* the requests so far, each with its client and time
    hurt        \* uuids whose save or removal was cut short

serveVars == <<now, disk, save, buckets, request, cleanup, asked, hurt>>

NoDir == [dir |-> FALSE, file |-> "none", meta |-> "none", createdAt |-> 0]

NoRequest ==
    [step |-> "none", client |-> NoClient, uuid |-> CHOOSE u \in Uuids : TRUE,
     at |-> 0, expires |-> 0]

NoCleanup == [step |-> "none", todo |-> {}, removing |-> {}]

ServeInit ==
    /\ now = 0
    /\ disk = [u \in Uuids |-> NoDir]
    /\ save = [u \in Uuids |-> "new"]
    /\ buckets = <<>>
    /\ request = NoRequest
    /\ cleanup = NoCleanup
    /\ asked = <<>>
    /\ hurt = {}

isWithinTtl(u) == now < disk[u].createdAt + Ttl

\* readMeta: a file that is missing or cut short gives no meta data.
HasMeta(u) == disk[u].dir /\ disk[u].meta = "whole"

(***************************************************************************)
(* The hook: saveFile, and its rollback.                                   *)
(***************************************************************************)
SaveStep(u, from, to) ==
    /\ save[u] = from
    /\ save' = [save EXCEPT ![u] = to]
    /\ UNCHANGED <<now, buckets, request, cleanup, asked>>

Mkdir(u) ==
    /\ SaveStep(u, "new", "copy")
    /\ disk' = [disk EXCEPT ![u].dir = TRUE]
    /\ UNCHANGED hurt

CopyStarts(u) ==
    /\ SaveStep(u, "copy", "copying")
    /\ disk' = [disk EXCEPT ![u].file = "part"]
    /\ UNCHANGED hurt

CopyEnds(u) ==
    /\ SaveStep(u, "copying", "meta")
    /\ disk' = [disk EXCEPT ![u].file = "whole"]
    /\ UNCHANGED hurt

MetaStarts(u) ==
    /\ SaveStep(u, "meta", "writing")
    /\ disk' = [disk EXCEPT ![u].meta = "part", ![u].createdAt = now]
    /\ UNCHANGED hurt

\* The link goes out with the message.
MetaEnds(u) ==
    /\ SaveStep(u, "writing", "sent")
    /\ disk' = [disk EXCEPT ![u].meta = "whole"]
    /\ UNCHANGED hurt

\* Mutant: a save that fails leaves what it has put there.
SaveFailsWithoutRollback(u) ==
    /\ \E step \in {"copy", "copying", "meta", "writing"} : SaveStep(u, step, "blocked")
    /\ UNCHANGED <<disk, hurt>>

SaveFails(u) ==
    /\ \E step \in {"copy", "copying", "meta", "writing"} : SaveStep(u, step, "rollback")
    /\ UNCHANGED <<disk, hurt>>

\* What one call takes out of a directory: an entry, or the empty directory.
Remains(d) ==
    LET entries == {e \in {"file", "meta"} : d[e] # "none"}
    IN IF entries = {} THEN {NoDir} ELSE {[d EXCEPT ![e] = "none"] : e \in entries}

\* An error of the rollback is dropped; the message is not sent either way.
Rollback(u) ==
    \/ /\ disk[u].dir
       /\ SaveStep(u, "rollback", "rollback")
       /\ \E d \in Remains(disk[u]) : disk' = [disk EXCEPT ![u] = d]
       /\ UNCHANGED hurt
    \/ /\ ~disk[u].dir
       /\ SaveStep(u, "rollback", "blocked")
       /\ UNCHANGED <<disk, hurt>>
    \/ /\ disk[u].dir
       /\ SaveStep(u, "rollback", "blocked")
       /\ hurt' = hurt \cup {u}
       /\ UNCHANGED disk

(***************************************************************************)
(* The rate limiter: a window per client, which begins with its first      *)
(* request; the oldest entry goes when there are too many.                 *)
(***************************************************************************)
EntriesOf(client) == {i \in DOMAIN buckets : buckets[i].client = client}

NewEntry(client) == [client |-> client, count |-> 1, resetAt |-> now + windowMs]

\* Mutant: an entry is not renewed when its window is over.
checkWithoutWindow(client) ==
    IF EntriesOf(client) = {}
    THEN <<TRUE, Append(IF Len(buckets) >= MaxEntries THEN Tail(buckets) ELSE buckets,
                        NewEntry(client))>>
    ELSE LET i == CHOOSE k \in EntriesOf(client) : TRUE
         IN <<buckets[i].count < maxRequests, [buckets EXCEPT ![i].count = @ + 1]>>

\* Mutant: no entry goes when there are too many.
checkWithoutEviction(client) ==
    IF EntriesOf(client) = {} THEN <<TRUE, Append(buckets, NewEntry(client))>>
    ELSE LET i == CHOOSE k \in EntriesOf(client) : TRUE
             count == buckets[i].count + 1
         IN IF now >= buckets[i].resetAt
            THEN <<TRUE, [buckets EXCEPT ![i] = NewEntry(client)]>>
            ELSE <<count <= maxRequests, [buckets EXCEPT ![i].count = count]>>

\* <<whether the request is allowed, the entries after it>>; an entry that is
\* renewed keeps its place.
check(client) ==
    IF EntriesOf(client) = {}
    THEN <<TRUE, Append(IF Len(buckets) >= MaxEntries THEN Tail(buckets) ELSE buckets,
                        NewEntry(client))>>
    ELSE LET i == CHOOSE k \in EntriesOf(client) : TRUE
             count == buckets[i].count + 1
         IN IF now >= buckets[i].resetAt
            THEN <<TRUE, [buckets EXCEPT ![i] = NewEntry(client)]>>
            ELSE <<count <= maxRequests, [buckets EXCEPT ![i].count = count]>>

\* Expired entries go; the others stay in their order.
CleanBuckets ==
    /\ LET live == {i \in DOMAIN buckets : now < buckets[i].resetAt}
       IN \E place \in [1..Cardinality(live) -> live] :
             /\ \A i, j \in DOMAIN place : i < j => place[i] < place[j]
             /\ buckets' = [i \in DOMAIN place |-> buckets[place[i]]]
    /\ UNCHANGED <<now, disk, save, request, cleanup, asked, hurt>>

(***************************************************************************)
(* A request for /files/:uuid/:filename.                                   *)
(***************************************************************************)
RequestStep(from, next) ==
    /\ request.step = from
    /\ request' = next
    /\ UNCHANGED <<now, disk, save, buckets, cleanup, asked, hurt>>

Answer(status) == [request EXCEPT !.step = status]

Ask(client, u) ==
    /\ request.step \in {"none", "429", "404", "410", "served", "cut", "broken"}
    /\ Len(asked) < MaxAsked
    /\ asked' = Append(asked, [client |-> client, at |-> now])
    /\ buckets' = check(client)[2]
    /\ request' = [step |-> IF check(client)[1] THEN "meta" ELSE "429",
                   client |-> client, uuid |-> u, at |-> now, expires |-> 0]
    /\ UNCHANGED <<now, disk, save, cleanup, hurt>>

ReadMeta ==
    LET u == request.uuid
    IN RequestStep("meta",
          CASE ~HasMeta(u) -> Answer("404")
            [] HasMeta(u) /\ ~isWithinTtl(u) -> Answer("410")
            [] OTHER -> [Answer("stat") EXCEPT !.expires = disk[u].createdAt + Ttl])

\* realpath and stat; then the headers go out with the size that was found.
Stat ==
    RequestStep("stat", Answer(IF disk[request.uuid].file = "none" THEN "404" ELSE "open"))

\* A file that is gone breaks the answer off.
OpenStream ==
    RequestStep("open", Answer(CASE disk[request.uuid].file = "none" -> "cut"
                                 [] disk[request.uuid].file = "part" -> "short"
                                 [] OTHER -> "served"))

\* Any other error of a call: no file is found, or the answer breaks off.
ReadFails ==
    \/ RequestStep("meta", Answer("404"))
    \/ RequestStep("stat", Answer("404"))
    \/ RequestStep("open", Answer("broken"))

(***************************************************************************)
(* The cleanup service.  A directory without meta data is passed over.     *)
(***************************************************************************)
CleanupStep(next) ==
    /\ cleanup' = next
    /\ UNCHANGED <<now, save, buckets, request, asked>>

ReadDir ==
    /\ cleanup.step = "none"
    /\ CleanupStep([NoCleanup EXCEPT !.step = "next", !.todo = {u \in Uuids : disk[u].dir}])
    /\ UNCHANGED <<disk, hurt>>

NextEntry == [cleanup EXCEPT !.step = "next", !.removing = {}]

Inspect(u) ==
    /\ cleanup.step = "next"
    /\ u \in cleanup.todo
    /\ LET rest == [cleanup EXCEPT !.todo = @ \ {u}]
       IN CleanupStep(IF HasMeta(u) /\ ~isWithinTtl(u)
                      THEN [rest EXCEPT !.step = "rm", !.removing = {u}]
                      ELSE rest)
    /\ UNCHANGED <<disk, hurt>>

RemoveOne(u) ==
    /\ u \in cleanup.removing
    /\ \/ /\ disk[u].dir
          /\ \E d \in Remains(disk[u]) : disk' = [disk EXCEPT ![u] = d]
          /\ CleanupStep(cleanup)
          /\ UNCHANGED hurt
       \/ /\ ~disk[u].dir
          /\ CleanupStep(NextEntry)
          /\ UNCHANGED <<disk, hurt>>
       \/ /\ disk[u].dir
          /\ CleanupStep(NextEntry)
          /\ hurt' = hurt \cup {u}
          /\ UNCHANGED disk

CleanupDone ==
    /\ cleanup.step = "next" /\ cleanup.todo = {}
    /\ CleanupStep(NoCleanup)
    /\ UNCHANGED <<disk, hurt>>

(***************************************************************************)
(* Time, and the end of the process.                                       *)
(***************************************************************************)
ServeTick ==
    /\ now < MaxNow
    /\ now' = now + 1
    /\ UNCHANGED <<disk, save, buckets, request, cleanup, asked, hurt>>

Saving == {u \in Uuids : save[u] \notin {"new", "sent", "blocked"}}

RestartServe ==
    /\ hurt' = hurt \cup Saving \cup cleanup.removing
    /\ save' = [u \in Uuids |-> IF u \in Saving THEN "blocked" ELSE save[u]]
    /\ buckets' = <<>>
    /\ request' = NoRequest
    /\ cleanup' = NoCleanup
    /\ UNCHANGED <<now, disk, asked>>

ServeNext ==
    \/ \E u \in Uuids :
          \/ Mkdir(u) \/ CopyStarts(u) \/ CopyEnds(u) \/ MetaStarts(u) \/ MetaEnds(u)
          \/ SaveFails(u) \/ Rollback(u) \/ Inspect(u) \/ RemoveOne(u)
          \/ \E client \in Clients : Ask(client, u)
    \/ CleanBuckets \/ ReadMeta \/ Stat \/ OpenStream \/ ReadFails \/ ReadDir
    \/ CleanupDone \/ ServeTick \/ RestartServe

ServeSpec == ServeInit /\ [][ServeNext]_serveVars

(***************************************************************************)
(* Properties.                                                             *)
(***************************************************************************)
Directory ==
    [dir : BOOLEAN, file : {"none", "part", "whole"}, meta : {"none", "part", "whole"},
     createdAt : 0..MaxNow]

\* The directories, the hook, the limiter, the request and the cleanup run.
ServeTypeOK ==
    /\ now \in 0..MaxNow
    /\ disk \in [Uuids -> Directory]
    /\ \A u \in Uuids : ~disk[u].dir => disk[u] = NoDir
    /\ save \in [Uuids -> {"new", "copy", "copying", "meta", "writing", "sent",
                           "rollback", "blocked"}]
    /\ Len(buckets) <= MaxEntries
    /\ \A i, j \in DOMAIN buckets : buckets[i].client = buckets[j].client => i = j
    /\ request.step \in {"none", "meta", "stat", "open", "429", "404", "410",
                         "served", "cut", "short", "broken"}
    /\ cleanup \in [step : {"none", "next", "rm"}, todo : SUBSET Uuids,
                   removing : SUBSET Uuids]
    /\ cleanup.step = "rm" <=> cleanup.removing # {}
    /\ hurt \subseteq Uuids

\* The requests of the client in the window that ends with the current one.
Recent ==
    {i \in DOMAIN asked :
        /\ asked[i].client = request.client
        /\ asked[i].at > request.at - windowMs}

\* An answer keeps its word (createHttpHandler): what is announced is a whole
\* file, although it was copied, and is read, step by step; unless reading it
\* fails, it breaks off only if the file has expired since its time was
\* checked; a client is told of too many requests only if it did make them in
\* one window.
AnswersKept ==
    /\ request.step # "short"
    /\ request.step = "cut" => now >= request.expires
    /\ request.step = "429" => maxRequests < Cardinality(Recent)

\* A directory that neither the link of a message nor the cleanup will ever
\* reach, one without a whole file and whole meta data that nobody is working
\* on, is left only by the end of the process or a removal that failed: a save
\* that fails takes back what it has put there.
RemainsExplained ==
    \A u \in Uuids :
       /\ disk[u].dir
       /\ u \notin Saving \cup cleanup.removing
       /\ ~(disk[u].file = "whole" /\ disk[u].meta = "whole")
       => u \in hurt
===============================================================================
