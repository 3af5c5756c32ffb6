----------------------------- MODULE DailyProcess -----------------------------
(***************************************************************************)
(* The daily batch (scripts/daily_process.js): it reads the applicants of  *)
(* UnitBase, keeps one row per file in SQLite, extracts the text of each   *)
(* file that is pending, writes it to the applicant's record, and tells a  *)
(* LINE group what it did.                                                 *)
(*                                                                         *)
(* One run is under way at a time (the job is started once a day).  Users  *)
(* change the files of an applicant while it runs, UnitBase and LINE may   *)
(* refuse, answer with a page instead of JSON, or lose a call, and the     *)
(* process may be killed between any two steps.  The database and UnitBase *)
(* survive that.  A step that awaits nothing is atomic.                    *)
(***************************************************************************)
EXTENDS Integers, Sequences, FiniteSets, SequencesExt

CONSTANTS
    Applicants,      \* the records of the UnitBase table, in the order listed
    PageSize,        \* PAGE_SIZE
    MaxRetry,        \* MAX_RETRY_COUNT
    MaxUploads,      \* bound: files users put on records
    MaxKills,        \* bound: times the process is killed
    NoPath

Fields == {"resume", "cv"}

Paths == 1..MaxUploads   \* every file that is uploaded gets a path of its own

ASSUME DailyAssumption ==
    /\ Applicants \in Seq(Range(Applicants)) /\ IsInjective(Applicants)
    /\ Applicants # <<>>
    /\ PageSize \in Nat \ {0}
    /\ MaxRetry \in Nat \ {0}
    /\ MaxUploads \in Nat /\ MaxKills \in Nat
    /\ NoPath \notin Nat

VARIABLES
    unitbase,   \* applicant -> the files on the record, and whose text it shows
    rows,       \* table file_processing; a row's id is its place
    run,        \* the run under way
    written,    \* ids whose text reached UnitBase
    announced,  \* id -> how often LINE was told of its first error
    uploads,
    kills

dailyVars == <<unitbase, rows, run, written, announced, uploads, kills>>

(***************************************************************************)
(* The table.                                                              *)
(***************************************************************************)
Retryable == {"write_error", "unexpected"}

\* classifyError: what an exception is recorded as.  The types that are never
\* retried, password_protected, corrupted and unsupported, are one here.
Thrown == {"unreadable", "unexpected"}

pendingRow(file) ==
    [file |-> file, status |-> "pending", type |-> "none", count |-> 0]

markProcessed(i) == [rows EXCEPT ![i].status = "processed"]

\* Mutant: the error is not counted.
markErrorUncounted(i, type) ==
    [rows EXCEPT ![i] = [rows[i] EXCEPT !.status = "error", !.type = type]]

markError(i, type) ==
    [rows EXCEPT ![i] = [rows[i] EXCEPT !.status = "error", !.type = type,
                                        !.count = @ + 1]]

getPendingRecords(table) == {i \in DOMAIN table : table[i].status = "pending"}

\* Mutant: one retry too many.
RetriedRowOnceMore(row) ==
    IF row.status = "error" /\ row.type \in Retryable /\ row.count <= MaxRetry
    THEN [row EXCEPT !.status = "pending"]
    ELSE row

RetriedRow(row) ==
    IF row.status = "error" /\ row.type \in Retryable /\ row.count < MaxRetry
    THEN [row EXCEPT !.status = "pending"]
    ELSE row

\* A file is known by its record, its field and its path, whatever became of it.
InsertPending(table, file) ==
    IF \E i \in DOMAIN table : table[i].file = file
    THEN table
    ELSE Append(table, pendingRow(file))

\* The errors to retry are pending again, then the files are taken in turn.
syncRecords(files) ==
    LET table[n \in 0..Len(files)] ==
            IF n = 0
            THEN [i \in DOMAIN rows |-> RetriedRow(rows[i])]
            ELSE InsertPending(table[n - 1], files[n])
    IN table[Len(files)]

(***************************************************************************)
(* A run.                                                                  *)
(***************************************************************************)
NoRun ==
    [step |-> "idle", dry |-> FALSE, start |-> 0, listed |-> <<>>,
     queue |-> <<>>, snap |-> [f \in Fields |-> NoPath], reply |-> "none",
     success |-> FALSE, firsts |-> {}]

\* Mutant: the newest row first.
CurrentNewest == CHOOSE i \in DOMAIN run.queue : \A j \in DOMAIN run.queue : i >= j

\* The rows still to do, with the error count each had when it was selected,
\* are done in the order of their ids.
Current == CHOOSE i \in DOMAIN run.queue : \A j \in DOMAIN run.queue : i <= j

RestOfQueue == Restrict(run.queue, DOMAIN run.queue \ {Current})

NextRow(success, firsts) ==
    run' = [run EXCEPT !.step = IF DOMAIN RestOfQueue = {} THEN "notify" ELSE "extract",
                       !.queue = RestOfQueue,
                       !.snap = NoRun.snap, !.reply = "none",
                       !.success = @ \/ success, !.firsts = @ \cup firsts]

RowDone ==
    /\ rows' = markProcessed(Current)
    /\ NextRow(TRUE, {})

\* Mutant: every error is announced.
FirstTimeAlways(i) == {i}

\* Only an error of a row that had none when it was selected is announced.
FirstTime(i) == IF run.queue[i] = 0 THEN {i} ELSE {}

RowFails(type) ==
    /\ rows' = markError(Current, type)
    /\ NextRow(FALSE, FirstTime(Current))

FilesOf(a) ==
    LET path(f) == unitbase[a].files[f]
        file(f) == IF path(f) = NoPath THEN <<>> ELSE <<<<a, f, path(f)>>>>
    IN file("resume") \o file("cv")

DailyInit ==
    /\ unitbase = [a \in Range(Applicants) |->
                      [files |-> [f \in Fields |-> NoPath], text |-> 0]]
    /\ rows = <<>>
    /\ run = NoRun
    /\ written = {}
    /\ announced = <<>>
    /\ uploads = 0
    /\ kills = 0

Begin(dry) ==
    /\ run.step = "idle"
    /\ run' = [NoRun EXCEPT !.step = "login", !.dry = dry]
    /\ UNCHANGED <<unitbase, rows, written, announced, uploads, kills>>

LoginOk ==
    /\ run.step = "login"
    /\ run' = [run EXCEPT !.step = "list"]
    /\ UNCHANGED <<unitbase, rows, written, announced, uploads, kills>>

\* A login that is refused and a call that is lost end the run.
MainThrows ==
    /\ run.step \in {"login", "list"}
    /\ run' = NoRun
    /\ UNCHANGED <<unitbase, rows, written, announced, uploads, kills>>

\* Only the files on the page are kept.  The count of records in the reply, or
\* one more page that is short, ends the listing; neither adds a file.
ListPage ==
    /\ run.step = "list"
    /\ LET last == run.start + PageSize
           page == SubSeq(Applicants, run.start + 1,
                          IF last > Len(Applicants) THEN Len(Applicants) ELSE last)
       IN run' = [run EXCEPT
                     !.listed = @ \o FlattenSeq([k \in DOMAIN page |-> FilesOf(page[k])]),
                     !.start = last,
                     !.step = IF last >= Len(Applicants) THEN "sync" ELSE "list"]
    /\ UNCHANGED <<unitbase, rows, written, announced, uploads, kills>>

\* A reply without rows, an error page for one, counts as the last page.
ListJunk ==
    /\ run.step = "list"
    /\ run' = [run EXCEPT !.step = "sync"]
    /\ UNCHANGED <<unitbase, rows, written, announced, uploads, kills>>

\* A dry run writes the table too; the rest of it only reads and logs.
Sync ==
    /\ run.step = "sync"
    /\ LET table == syncRecords(run.listed)
           pending == getPendingRecords(table)
       IN /\ rows' = table
          /\ announced' = [i \in DOMAIN table |->
                              IF i \in DOMAIN announced THEN announced[i] ELSE 0]
          /\ run' = IF run.dry \/ pending = {}
                    THEN NoRun
                    ELSE [run EXCEPT !.step = "extract", !.listed = <<>>, !.start = 0,
                                     !.queue = [i \in pending |-> table[i].count]]
    /\ UNCHANGED <<unitbase, written, uploads, kills>>

\* Download and extraction find a text or none, the kind of file is not
\* supported, or there is an exception.
Extracted == {"text", "empty"} \cup Thrown

\* A row whose file holds no text is done all the same.
Extract ==
    /\ run.step = "extract"
    /\ \E found \in Extracted :
          \/ /\ found = "text"
             /\ run' = [run EXCEPT !.step = "get"]
             /\ UNCHANGED rows
          \/ found = "empty" /\ RowDone
          \/ found \in Thrown /\ RowFails(found)
    /\ UNCHANGED <<unitbase, written, announced, uploads, kills>>

RecordOf(i) == rows[i].file[1]

GetRecord ==
    /\ run.step = "get"
    /\ \/ /\ run' = [run EXCEPT !.step = "put",
                                !.snap = unitbase[RecordOf(Current)].files]
          /\ UNCHANGED rows
       \/ RowFails("unexpected")
    /\ UNCHANGED <<unitbase, written, announced, uploads, kills>>

\* What a request to UnitBase comes back with: JSON that says so or says error,
\* a page that is not JSON, or nothing in time.
Replies == {"ok", "refused", "page", "lost"}

\* Whether the request was applied; if nothing came back, nobody knows.
Applied(reply) == IF reply = "lost" THEN BOOLEAN ELSE {reply = "ok"}

\* The whole record goes back as it was read, with the text put in.
PutRecord ==
    /\ run.step = "put"
    /\ \E reply \in Replies : \E applied \in Applied(reply) :
          /\ IF applied
             THEN /\ unitbase' = [unitbase EXCEPT ![RecordOf(Current)] =
                                     [files |-> run.snap, text |-> Current]]
                  /\ written' = written \cup {Current}
             ELSE UNCHANGED <<unitbase, written>>
          /\ run' = [run EXCEPT !.step = "answer", !.reply = reply]
    /\ UNCHANGED <<rows, announced, uploads, kills>>

\* HTTP 200 is success unless the body is JSON and says error: a page is one.
PutAnswered ==
    /\ run.step = "answer"
    /\ \/ run.reply \in {"ok", "page"} /\ RowDone
       \/ run.reply = "refused" /\ RowFails("write_error")
       \/ run.reply = "lost" /\ RowFails("unexpected")
    /\ UNCHANGED <<unitbase, written, announced, uploads, kills>>

\* The message names the first errors, and counts the rows that are done.
sendLineMessage ==
    announced' = [i \in DOMAIN announced |->
                     announced[i] + IF i \in run.firsts THEN 1 ELSE 0]

\* LINE is told once, if there is anything to tell, and not again if it fails.
Notify ==
    /\ run.step = "notify"
    /\ \/ /\ run.success \/ run.firsts # {}
          /\ sendLineMessage
       \/ UNCHANGED announced
    /\ run' = NoRun
    /\ UNCHANGED <<unitbase, rows, written, uploads, kills>>

Upload(a, f) ==
    /\ uploads < MaxUploads
    /\ unitbase' = [unitbase EXCEPT ![a].files[f] = uploads + 1]
    /\ uploads' = uploads + 1
    /\ UNCHANGED <<rows, run, written, announced, kills>>

Kill ==
    /\ kills < MaxKills
    /\ run.step # "idle"
    /\ run' = NoRun
    /\ kills' = kills + 1
    /\ UNCHANGED <<unitbase, rows, written, announced, uploads>>

RunStep ==
    \/ LoginOk \/ MainThrows \/ ListPage \/ ListJunk \/ Sync
    \/ Extract \/ GetRecord \/ PutRecord \/ PutAnswered \/ Notify

DailyNext ==
    \/ \E dry \in BOOLEAN : Begin(dry)
    \/ RunStep
    \/ \E a \in Range(Applicants), f \in Fields : Upload(a, f)
    \/ Kill

(***************************************************************************)
(* Properties.                                                             *)
(***************************************************************************)
Row ==
    [file : Range(Applicants) \X Fields \X Paths,
     status : {"pending", "processed", "error"},
     type : Thrown \cup Retryable \cup {"none"},
     count : 0..MaxRetry]

\* The rows of the table, which never count more errors than the limit of
\* retries; the run, its queue and its answers.
DailyTypeOK ==
    /\ \A a \in Range(Applicants) :
          /\ unitbase[a].files \in [Fields -> Paths \cup {NoPath}]
          /\ unitbase[a].text \in DOMAIN rows \cup {0}
    /\ rows \in Seq(Row)
    /\ run.step \in {"idle", "login", "list", "sync", "extract", "get", "put",
                     "answer", "notify"}
    /\ DOMAIN run.queue \subseteq DOMAIN rows
    /\ run.step \in {"extract", "get", "put", "answer"} => DOMAIN run.queue # {}
    /\ run.reply \in {"none"} \cup Replies
    /\ run.firsts \subseteq DOMAIN rows
    /\ written \subseteq DOMAIN rows
    /\ DOMAIN announced = DOMAIN rows

\* If a record shows the text of a file although the text of a file that came
\* later into the same field had reached it (getPendingRecords, the loop of
\* main and syncRecords' return to pending), then the older file had failed
\* before: only a retry, never a kill or a partial run, puts an old text back.
StaleTextNeedsRetry ==
    \A a \in Range(Applicants) :
       LET shown == unitbase[a].text
       IN shown # 0 =>
             \A later \in written :
                (/\ later > shown
                 /\ rows[later].file[1] = a
                 /\ rows[later].file[2] = rows[shown].file[2])
                => rows[shown].count > 0

\* LINE hears of the first error of a file at most once, although a row keeps
\* its error through retries, kills and notices that get lost (row.error_count
\* === 0 in main, markError).
AnnouncedOnce ==
    \A i \in DOMAIN announced : announced[i] <= 1

\* A row that is done with: processed, or an error that is not retried.
Settled(i) ==
    /\ i \in DOMAIN rows
    /\ \/ rows[i].status = "processed"
       \/ /\ rows[i].status = "error"
          /\ rows[i].type \notin Retryable \/ rows[i].count >= MaxRetry

\* Every file the job has recorded is processed or given up in the end, and
\* stays so, however often the job fails or is killed on the way: the retries
\* of syncRecords end (retryStmt, markError), and no row is forgotten.
EveryRowSettles ==
    \A i \in 1..MaxUploads : i \in DOMAIN rows ~> [](Settled(i))
===============================================================================
