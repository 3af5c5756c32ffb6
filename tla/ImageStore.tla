------------------------------ MODULE ImageStore ------------------------------
(***************************************************************************)
(* The local image store of easyflow-cli, used by several CLI processes    *)
(* without a lock (packages/easyflow-cli/src/store/image-store.ts).        *)
(*                                                                         *)
(* An image is a directory named by the digest of its content; a ref is a  *)
(* symbolic link, here a tag, to such a directory.  Each file system call  *)
(* is an action of its own, and a file is truncated before it is written.  *)
(* Since names are digests, all that is ever written to a file is the same *)
(* content, and only its presence and completeness matter.  manifest.json  *)
(* and config.json, written and read one after the other, are one file     *)
(* here, "config".  image.json, without which list() makes do, is left     *)
(* out, and so are links that lead out of the store, sizes, metadata, and  *)
(* file system errors other than those of an entry missing or present.     *)
(***************************************************************************)
CONSTANTS
    Procs,          \* CLI processes, each with one call at a time
    Tags,           \* refs
    Digests,        \* contents of images
    Layers,         \* layers of an image
    NoTag,
    NoDigest,
    NoFile,         \* no file is open
    Lost            \* the file that is open was unlinked

Files == {"config"} \cup Layers

ASSUME LayersAssumption == Layers # {}

ASSUME AbsentAssumption ==
    /\ NoTag \notin Tags
    /\ NoDigest \notin Digests
    /\ NoFile \notin Files /\ Lost \notin Files /\ NoFile # Lost
    /\ "config" \notin Layers /\ Files \cap Tags = {}

VARIABLES
    tag,        \* ref -> the directory its link names, which may be gone
    dirs,       \* digest -> its directory: none, bare, or with layers/
    file,       \* digest -> name -> how much of that file is there
    op,         \* process -> its call
    held,       \* history: the tags that have led to the directory a
                \* process checks for deletion ever since the check began
    met,        \* history: what a process that reads the layers of an image
                \* has met of them since it listed their directory
    hurt        \* history: images of which a file was deleted while they
                \* were tagged, saved or read, or whose save was cut short

vars == <<tag, dirs, file, op, held, met, hurt>>

Places ==
    {"idle", "config", "mklayers", "layers", "unlink", "link",
     "untag", "prune", "resolve", "scan", "rm", "load", "readdir", "read"}

Call ==
    [at     : Places,
     ref    : Tags \cup {NoTag},
     digest : Digests \cup {NoDigest},
     open   : Files \cup {NoFile, Lost},
     todo   : SUBSET (Layers \cup Tags),    \* layers or tags not yet visited
     visit  : SUBSET Digests,               \* directories prune has to visit
     pruned : BOOLEAN,                      \* the scan is made by prune
     got    : SUBSET Layers]                \* layers read whole

\* The layers a save had open, those that were missing or incomplete, and
\* whether one was deleted.
Meeting == [rewritten : SUBSET Layers, lacking : SUBSET Layers, cut : BOOLEAN]

TypeOK ==
    /\ tag \in [Tags -> Digests \cup {NoDigest}]
    /\ dirs \in [Digests -> {"none", "bare", "full"}]
    /\ file \in [Digests -> [Files -> {"none", "part", "whole"}]]
    /\ op \in [Procs -> Call]
    /\ held \in [Procs -> SUBSET Tags]
    /\ met \in [Procs -> Meeting]
    /\ hurt \subseteq Digests

Idle ==
    [at |-> "idle", ref |-> NoTag, digest |-> NoDigest, open |-> NoFile,
     todo |-> {}, visit |-> {}, pruned |-> FALSE, got |-> {}]

MetNothing == [rewritten |-> {}, lacking |-> {}, cut |-> FALSE]

Init ==
    /\ tag = [t \in Tags |-> NoDigest]
    /\ dirs = [d \in Digests |-> "none"]
    /\ file = [d \in Digests |-> [x \in Files |-> "none"]]
    /\ op = [p \in Procs |-> Idle]
    /\ held = [p \in Procs |-> {}]
    /\ met = [p \in Procs |-> MetNothing]
    /\ hurt = {}

-----------------------------------------------------------------------------

Digest(p) == op[p].digest

At(p, place) == op[p].at = place

Step(p, changed) == op' = [op EXCEPT ![p] = changed]

Goto(p, place) == Step(p, [op[p] EXCEPT !.at = place])

\* The call returns, or throws.
End(p) == Step(p, Idle)

\* realpath succeeds.
Resolves(t) == tag[t] # NoDigest /\ dirs[tag[t]] # "none"

Whole(d) ==
    dirs[d] = "full" /\ \A x \in Files : file[d][x] = "whole"

\* mkdir with the option recursive.
MakeDir(d) == dirs' = [dirs EXCEPT ![d] = IF @ = "none" THEN "bare" ELSE @]

-----------------------------------------------------------------------------
(* save *)

\* Mutant: a directory that exists is taken for a saved image.
SaveKeeping(p, t, d) ==
    /\ At(p, "idle")
    /\ MakeDir(d)
    /\ Step(p, [Idle EXCEPT !.at = IF dirs[d] = "none" THEN "config" ELSE "unlink",
                            !.ref = t, !.digest = d])
    /\ UNCHANGED <<tag, file>>

Save(p, t, d) ==
    /\ At(p, "idle")
    /\ MakeDir(d)
    /\ Step(p, [Idle EXCEPT !.at = "config", !.ref = t, !.digest = d])
    /\ UNCHANGED <<tag, file>>

\* The files that may be written next.
Writable(p) ==
    CASE At(p, "layers") -> op[p].todo
      [] At(p, "config") -> {"config"}
      [] OTHER -> {}

HasPlace(d, x) == IF x \in Layers THEN dirs[d] = "full" ELSE dirs[d] # "none"

OpenFile(p, x) ==
    /\ op[p].open = NoFile
    /\ x \in Writable(p)
    /\ HasPlace(Digest(p), x)
    /\ file' = [file EXCEPT ![Digest(p)][x] = "part"]
    /\ Step(p, [op[p] EXCEPT !.open = x, !.todo = @ \ {x}])
    /\ UNCHANGED <<tag, dirs>>

\* The directory is gone: writeFile throws, and so does save.
NoDirectory(p) ==
    /\ op[p].open = NoFile
    /\ \E x \in Writable(p) : ~ HasPlace(Digest(p), x)
    /\ End(p)
    /\ UNCHANGED <<tag, dirs, file>>

AfterFile(p) ==
    [op[p] EXCEPT !.open = NoFile,
                  !.at = IF @ = "config" THEN "mklayers"
                         ELSE IF op[p].todo = {} THEN "unlink" ELSE @]

\* What is written to an unlinked file is lost without an error.
WriteFile(p) ==
    /\ op[p].open # NoFile
    /\ file' = IF op[p].open = Lost THEN file
               ELSE [file EXCEPT ![Digest(p)][op[p].open] = "whole"]
    /\ Step(p, AfterFile(p))
    /\ UNCHANGED <<tag, dirs>>

\* Mutant: the config is written a second time, among the layers.
MakeLayersDirForAll(p) ==
    /\ At(p, "mklayers")
    /\ dirs' = [dirs EXCEPT ![Digest(p)] = "full"]
    /\ Step(p, [op[p] EXCEPT !.at = "layers", !.todo = Files])
    /\ UNCHANGED <<tag, file>>

\* Makes the image's directory again if it is gone by now.
MakeLayersDir(p) ==
    /\ At(p, "mklayers")
    /\ dirs' = [dirs EXCEPT ![Digest(p)] = "full"]
    /\ Step(p, [op[p] EXCEPT !.at = "layers", !.todo = Layers])
    /\ UNCHANGED <<tag, file>>

UnlinkTag(p) ==
    /\ At(p, "unlink")
    /\ tag' = [tag EXCEPT ![op[p].ref] = NoDigest]
    /\ Goto(p, "link")
    /\ UNCHANGED <<dirs, file>>

\* A link that another process made meanwhile is an error.
LinkTag(p) ==
    /\ At(p, "link")
    /\ tag' = [tag EXCEPT ![op[p].ref] = IF @ = NoDigest THEN Digest(p) ELSE @]
    /\ End(p)
    /\ UNCHANGED <<dirs, file>>

-----------------------------------------------------------------------------
(* remove and prune *)

Remove(p, t) ==
    /\ At(p, "idle")
    /\ Resolves(t)
    /\ Step(p, [Idle EXCEPT !.at = "untag", !.ref = t, !.digest = tag[t]])
    /\ UNCHANGED <<tag, dirs, file>>

\* The link goes, wherever it leads by now; an error if it is gone.
Untag(p) ==
    /\ At(p, "untag")
    /\ tag' = [tag EXCEPT ![op[p].ref] = NoDigest]
    /\ IF tag[op[p].ref] = NoDigest THEN End(p)
       ELSE Step(p, [op[p] EXCEPT !.at = "resolve", !.ref = NoTag])
    /\ UNCHANGED <<dirs, file>>

Prune(p) ==
    /\ At(p, "idle")
    /\ Step(p, [Idle EXCEPT !.at = "prune", !.pruned = TRUE,
                            !.visit = {d \in Digests : dirs[d] # "none"}])
    /\ UNCHANGED <<tag, dirs, file>>

PruneVisit(p, d) ==
    /\ At(p, "prune")
    /\ d \in op[p].visit
    /\ Step(p, [op[p] EXCEPT !.at = "resolve", !.digest = d, !.visit = @ \ {d}])
    /\ UNCHANGED <<tag, dirs, file>>

PruneEnd(p) ==
    /\ At(p, "prune")
    /\ op[p].visit = {}
    /\ End(p)
    /\ UNCHANGED <<tag, dirs, file>>

\* Without the directory no links are read.
ResolveDir(p) ==
    /\ At(p, "resolve")
    /\ Step(p, [op[p] EXCEPT !.at = "scan",
                             !.todo = IF dirs[Digest(p)] = "none" THEN {} ELSE Tags])
    /\ UNCHANGED <<tag, dirs, file>>

\* One directory is dealt with.
Leave(p) ==
    IF op[p].pruned
    THEN Step(p, [op[p] EXCEPT !.at = "prune", !.digest = NoDigest, !.todo = {}])
    ELSE End(p)

\* Mutant: the answer is that of the first link.
ScanFirst(p, t) ==
    /\ At(p, "scan")
    /\ t \in op[p].todo
    /\ IF tag[t] = Digest(p) /\ Resolves(t) THEN Leave(p)
       ELSE Step(p, [op[p] EXCEPT !.todo = {}])
    /\ UNCHANGED <<tag, dirs, file>>

\* hasSymlinksTo reads the links one after the other; since their order is
\* free, a link that is not there when its directory is listed is one that
\* is read at that moment.
Scan(p, t) ==
    /\ At(p, "scan")
    /\ t \in op[p].todo
    /\ IF tag[t] = Digest(p) /\ Resolves(t) THEN Leave(p)
       ELSE Step(p, [op[p] EXCEPT !.todo = @ \ {t}])
    /\ UNCHANGED <<tag, dirs, file>>

ScanEnd(p) ==
    /\ At(p, "scan")
    /\ op[p].todo = {}
    /\ Goto(p, "rm")
    /\ UNCHANGED <<tag, dirs, file>>

\* rm deletes the files in any order.
RmFile(p, x) ==
    LET d == Digest(p)
    IN  /\ At(p, "rm")
        /\ file[d][x] # "none"
        /\ file' = [file EXCEPT ![d][x] = "none"]
        /\ op' = [q \in Procs |->
                    IF Digest(q) = d /\ op[q].open = x THEN [op[q] EXCEPT !.open = Lost]
                    ELSE op[q]]
        /\ UNCHANGED <<tag, dirs>>

RmLayersDir(p) ==
    /\ At(p, "rm")
    /\ dirs[Digest(p)] = "full"
    /\ \A x \in Layers : file[Digest(p)][x] = "none"
    /\ dirs' = [dirs EXCEPT ![Digest(p)] = "bare"]
    /\ UNCHANGED <<tag, file, op>>

RmDir(p) ==
    /\ At(p, "rm")
    /\ dirs[Digest(p)] # "full"
    /\ \A x \in Files : file[Digest(p)][x] = "none"
    /\ dirs' = [dirs EXCEPT ![Digest(p)] = "none"]
    /\ Leave(p)
    /\ UNCHANGED <<tag, file>>

-----------------------------------------------------------------------------
(* load *)

Load(p, t) ==
    /\ At(p, "idle")
    /\ Resolves(t)
    /\ Step(p, [Idle EXCEPT !.at = "load", !.digest = tag[t]])
    /\ UNCHANGED <<tag, dirs, file>>

\* Without a readable config there is no image.
ReadConfig(p) ==
    /\ At(p, "load")
    /\ IF file[Digest(p)]["config"] = "whole" THEN Goto(p, "readdir") ELSE End(p)
    /\ UNCHANGED <<tag, dirs, file>>

\* A missing directory of layers is an image without layers.
ReadDir(p) ==
    /\ At(p, "readdir")
    /\ Step(p, [op[p] EXCEPT !.at = "read",
                             !.todo = {x \in Layers : file[Digest(p)][x] # "none"}])
    /\ UNCHANGED <<tag, dirs, file>>

\* Mutant: a layer that is not whole ends the reading of layers.
ReadLayerOrEnd(p, x) ==
    /\ At(p, "read")
    /\ x \in op[p].todo
    /\ \/ /\ file[Digest(p)][x] = "whole"
          /\ Step(p, [op[p] EXCEPT !.todo = @ \ {x}, !.got = @ \cup {x}])
       \/ /\ file[Digest(p)][x] # "whole"
          /\ Step(p, [op[p] EXCEPT !.todo = {}])
    /\ UNCHANGED <<tag, dirs, file>>

\* A layer that has vanished ends the reading of layers, without an error.
ReadLayer(p, x) ==
    /\ At(p, "read")
    /\ x \in op[p].todo
    /\ \/ /\ file[Digest(p)][x] = "whole"
          /\ Step(p, [op[p] EXCEPT !.todo = @ \ {x}, !.got = @ \cup {x}])
       \/ /\ file[Digest(p)][x] = "part"
          /\ Step(p, [op[p] EXCEPT !.todo = @ \ {x}])
       \/ /\ file[Digest(p)][x] = "none"
          /\ Step(p, [op[p] EXCEPT !.todo = {}])
    /\ UNCHANGED <<tag, dirs, file>>

ReadEnd(p) ==
    /\ At(p, "read")
    /\ op[p].todo = {}
    /\ End(p)
    /\ UNCHANGED <<tag, dirs, file>>

-----------------------------------------------------------------------------

\* The process dies at any point; a deletion that meets a new file in the
\* directory ends the same way.
Crash(p) ==
    /\ ~ At(p, "idle")
    /\ End(p)
    /\ UNCHANGED <<tag, dirs, file>>

Saving(p, d) ==
    /\ Digest(p) = d
    /\ op[p].at \in {"config", "mklayers", "layers", "unlink", "link"}

Deleting(p) == op[p].at \in {"scan", "rm"}

Reading(p) == op[p].at \in {"load", "readdir", "read"}

LeadingTo(d) == {t \in Tags : Resolves(t) /\ tag[t] = d}

\* The layers of an image that a save has open, and those that are not whole.
Rewritten(d) == {x \in Layers : \E p \in Procs : Saving(p, d) /\ op[p].open = x}

Lacking(d) == {x \in Layers : file[d][x] # "whole"}

Deleted(d, x) == file[d][x] # "none" /\ file'[d][x] = "none"

\* The history variables observe every step.
Observe ==
    /\ held' = [p \in Procs |->
                  IF ~ Deleting(p)' THEN {}
                  ELSE IF ~ Deleting(p) THEN LeadingTo(Digest(p))'
                  ELSE held[p] \cap LeadingTo(Digest(p))']
    /\ met' = [p \in Procs |->
                  IF ~ At(p, "read")' THEN MetNothing
                  ELSE LET before == IF At(p, "read") THEN met[p] ELSE MetNothing
                       IN [rewritten |-> before.rewritten \cup Rewritten(Digest(p))',
                           lacking |-> before.lacking \cup Lacking(Digest(p))',
                           cut |-> \/ before.cut
                                   \/ /\ At(p, "read")
                                      /\ \E x \in Layers : Deleted(Digest(p), x)]]
    /\ hurt' = hurt \cup
          {d \in Digests :
              \/ /\ \E x \in Files : Deleted(d, x)
                 /\ \/ \E t \in Tags : tag[t] = d
                    \/ \E p \in Procs : Digest(p) = d /\ (Saving(p, d) \/ Reading(p))
              \/ \E p \in Procs : Saving(p, d) /\ op[p].open # NoFile /\ op'[p] = Idle}

Calls(p) ==
    \/ \E t \in Tags, d \in Digests : Save(p, t, d)
    \/ \E t \in Tags : Remove(p, t)
    \/ Prune(p)
    \/ \E t \in Tags : Load(p, t)

SaveStep(p) ==
    \/ \E x \in Files : OpenFile(p, x)
    \/ NoDirectory(p)
    \/ WriteFile(p)
    \/ MakeLayersDir(p)
    \/ UnlinkTag(p)
    \/ LinkTag(p)

DeleteStep(p) ==
    \/ Untag(p)
    \/ \E d \in Digests : PruneVisit(p, d)
    \/ PruneEnd(p)
    \/ ResolveDir(p)
    \/ \E t \in Tags : Scan(p, t)
    \/ ScanEnd(p)
    \/ \E x \in Files : RmFile(p, x)
    \/ RmLayersDir(p)
    \/ RmDir(p)

ReadStep(p) ==
    \/ ReadConfig(p)
    \/ ReadDir(p)
    \/ \E x \in Layers : ReadLayer(p, x)
    \/ ReadEnd(p)

Next ==
    /\ \E p \in Procs : Calls(p) \/ SaveStep(p) \/ DeleteStep(p) \/ ReadStep(p) \/ Crash(p)
    /\ Observe

Spec == Init /\ [][Next]_vars

-----------------------------------------------------------------------------
(* Properties. *)

\* A ref whose image is not being saved again leads to a whole image, unless
\* a deletion met a save or a ref of that image, or a save of it was cut
\* short while a file was open: there is no other way to a broken ref (save
\* links last, remove and prune check first).
TagsWhole ==
    \A t \in Tags :
        tag[t] \notin hurt \cup {NoDigest} /\ (\A p \in Procs : ~ Saving(p, tag[t]))
            => Whole(tag[t])

\* Neither remove nor prune deletes a directory to which one and the same
\* ref has led ever since the check for refs began, though the check reads
\* the refs one by one while others move (hasSymlinksTo).
HeldImageKept == \A p \in Procs : At(p, "rm") => held[p] = {}

\* What a load that ends without an error returns too little, though it takes
\* a directory or a layer that is missing for the end of the layers: of an
\* image that is not hurt, only layers that a save of the same image had open
\* meanwhile; of any image, only layers that were missing or incomplete at
\* some time meanwhile, unless a layer was deleted while it read, and then
\* all that follow are lost with it.
LoadsWhole ==
    \A p \in Procs :
        At(p, "read") /\ op[p].todo = {} =>
           LET missed == Layers \ op[p].got
           IN /\ Digest(p) \in hurt \/ missed \subseteq met[p].rewritten
              /\ met[p].cut \/ missed \subseteq met[p].lacking

=============================================================================
