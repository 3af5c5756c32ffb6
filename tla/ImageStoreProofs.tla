-------------------------- MODULE ImageStoreProofs --------------------------
(***************************************************************************)
(* Theorems about ImageStore for any number of processes, tags, images and *)
(* layers.                                                                 *)
(***************************************************************************)
EXTENDS ImageStore, TLAPS

Written(d, x) == file[d][x] # "none"

\* The file a save has open is there, unless it was deleted under it, and
\* then its image is hurt.
OpenOK(p) ==
    /\ op[p].open # NoFile =>
          \/ At(p, "config") /\ op[p].open \in {"config", Lost}
          \/ At(p, "layers") /\ op[p].open \in Layers \cup {Lost}
    /\ op[p].open \in Files => Written(Digest(p), op[p].open)
    /\ op[p].open = Lost => Digest(p) \in hurt

OpenInv == \A p \in Procs : OpenOK(p)

\* Every call but prune, between two directories, is about an image.
DigestOK(p) ==
    op[p].at \notin {"idle", "prune"} => Digest(p) \in Digests

DigestInv == \A p \in Procs : DigestOK(p)

\* A file lies in a directory.
PlaceInv ==
    \A d \in Digests, x \in Files : Written(d, x) => HasPlace(d, x)

\* A file that is incomplete is being written.
PartInv ==
    \A d \in Digests, x \in Files :
        file[d][x] = "part" /\ d \notin hurt
            => \E p \in Procs : Saving(p, d) /\ op[p].open = x

\* What a save has dealt with is there.
SaveInv ==
    \A p \in Procs :
        Digest(p) \notin hurt =>
            /\ op[p].at \in {"mklayers", "layers", "unlink", "link"}
                   => Written(Digest(p), "config")
            /\ At(p, "layers") =>
                   /\ op[p].todo \subseteq Layers
                   /\ \A x \in Layers \ op[p].todo : Written(Digest(p), x)
            /\ op[p].at \in {"unlink", "link"}
                   => \A x \in Files : Written(Digest(p), x)

\* What a ref leads to, or a load reads, has all its files.
TagInv ==
    /\ \A t \in Tags :
          tag[t] \notin hurt \cup {NoDigest} => \A x \in Files : Written(tag[t], x)
    /\ \A p \in Procs :
          Reading(p) /\ Digest(p) \notin hurt => \A x \in Files : Written(Digest(p), x)

\* A load has read, or is to read, every layer but those that it has met
\* while they were rewritten, missing or incomplete.
ReadOK(p) ==
    At(p, "read") =>
        /\ Rewritten(Digest(p)) \subseteq met[p].rewritten
        /\ Lacking(Digest(p)) \subseteq met[p].lacking
        /\ Digest(p) \in hurt
           \/ Layers \subseteq op[p].got \cup op[p].todo \cup met[p].rewritten
        /\ \/ met[p].cut
           \/ /\ Layers \subseteq op[p].got \cup op[p].todo \cup met[p].lacking
              /\ \A x \in op[p].todo \cap Layers : Written(Digest(p), x)

ReadInv == \A p \in Procs : ReadOK(p)

\* A ref that has led to the directory all along is still to be read.
HeldInv ==
    \A p \in Procs :
        /\ At(p, "scan") => held[p] \subseteq op[p].todo
        /\ At(p, "rm") => held[p] = {}

StoreInv ==
    TypeOK /\ DigestInv /\ OpenInv /\ PlaceInv /\ PartInv /\ SaveInv /\ TagInv /\ ReadInv /\ HeldInv

-----------------------------------------------------------------------------
(* The typing of a step. *)

LEMMA InitInv == Init => StoreInv
  <1> SUFFICES ASSUME Init PROVE StoreInv
    OBVIOUS
  <1> USE DEF Init, Idle, At, Digest, Written, Saving, Reading
  <1>1. TypeOK
    <2>1. MetNothing \in Meeting
      BY DEF MetNothing, Meeting
    <2> QED  BY <2>1 DEF TypeOK, Call, Places
  <1>2. DigestInv /\ OpenInv /\ PlaceInv /\ PartInv /\ SaveInv /\ ReadInv /\ HeldInv
    BY AbsentAssumption DEF DigestInv, DigestOK, OpenInv, OpenOK, PlaceInv, PartInv, SaveInv, ReadInv, ReadOK, HeldInv
  <1>3. TagInv
    BY DEF TagInv
  <1> QED  BY <1>1, <1>2, <1>3 DEF StoreInv

\* What one process does, without the history.
Act(p) == Calls(p) \/ SaveStep(p) \/ DeleteStep(p) \/ ReadStep(p) \/ Crash(p)

LEMMA IdleIsCall == Idle \in Call
  BY DEF Idle, Call, Places

LEMMA StepType ==
    ASSUME TypeOK, NEW p \in Procs, NEW c \in Call, Step(p, c)
    PROVE  op' \in [Procs -> Call]
  BY DEF TypeOK, Step

LEMMA LeaveType ==
    ASSUME TypeOK, NEW p \in Procs, Leave(p)
    PROVE  op' \in [Procs -> Call]
  <1>1. op[p] \in Call
    BY DEF TypeOK
  <1>2. [op[p] EXCEPT !.at = "prune", !.digest = NoDigest, !.todo = {}] \in Call
    BY <1>1 DEF Call, Places
  <1> QED  BY <1>2, StepType, IdleIsCall DEF Leave, End

LEMMA CallsType ==
    ASSUME TypeOK, NEW p \in Procs, Calls(p)
    PROVE  op' \in [Procs -> Call]
  <1>1. ASSUME NEW t \in Tags, NEW d \in Digests, Save(p, t, d)
        PROVE  op' \in [Procs -> Call]
    <2>1. [Idle EXCEPT !.at = "config", !.ref = t, !.digest = d] \in Call
      BY DEF Idle, Call, Places
    <2> QED  BY <1>1, <2>1, StepType DEF Save
  <1>2. ASSUME NEW t \in Tags, Remove(p, t)
        PROVE  op' \in [Procs -> Call]
    <2>1. [Idle EXCEPT !.at = "untag", !.ref = t, !.digest = tag[t]] \in Call
      BY DEF Idle, Call, Places, TypeOK
    <2> QED  BY <1>2, <2>1, StepType DEF Remove
  <1>3. ASSUME Prune(p)
        PROVE  op' \in [Procs -> Call]
    <2>1. [Idle EXCEPT !.at = "prune", !.pruned = TRUE,
                       !.visit = {d \in Digests : dirs[d] # "none"}] \in Call
      BY DEF Idle, Call, Places
    <2> QED  BY <1>3, <2>1, StepType DEF Prune
  <1>4. ASSUME NEW t \in Tags, Load(p, t)
        PROVE  op' \in [Procs -> Call]
    <2>1. [Idle EXCEPT !.at = "load", !.digest = tag[t]] \in Call
      BY DEF Idle, Call, Places, TypeOK
    <2> QED  BY <1>4, <2>1, StepType DEF Load
  <1> QED  BY <1>1, <1>2, <1>3, <1>4 DEF Calls

LEMMA SaveStepType ==
    ASSUME TypeOK, NEW p \in Procs, SaveStep(p)
    PROVE  op' \in [Procs -> Call]
  <1>0. op[p] \in Call
    BY DEF TypeOK
  <1>1. ASSUME NEW x \in Files, OpenFile(p, x)
        PROVE  op' \in [Procs -> Call]
    <2>1. [op[p] EXCEPT !.open = x, !.todo = @ \ {x}] \in Call
      BY <1>0 DEF Call
    <2> QED  BY <1>1, <2>1, StepType DEF OpenFile
  <1>2. ASSUME WriteFile(p)
        PROVE  op' \in [Procs -> Call]
    <2>1. AfterFile(p) \in Call
      BY <1>0 DEF AfterFile, Call, Places
    <2> QED  BY <1>2, <2>1, StepType DEF WriteFile
  <1>3. ASSUME MakeLayersDir(p)
        PROVE  op' \in [Procs -> Call]
    <2>1. [op[p] EXCEPT !.at = "layers", !.todo = Layers] \in Call
      BY <1>0 DEF Call, Places
    <2> QED  BY <1>3, <2>1, StepType DEF MakeLayersDir
  <1>4. ASSUME UnlinkTag(p)
        PROVE  op' \in [Procs -> Call]
    <2>1. [op[p] EXCEPT !.at = "link"] \in Call
      BY <1>0 DEF Call, Places
    <2> QED  BY <1>4, <2>1, StepType DEF UnlinkTag, Goto
  <1>5. ASSUME NoDirectory(p) \/ LinkTag(p)
        PROVE  op' \in [Procs -> Call]
    BY <1>5, StepType, IdleIsCall DEF NoDirectory, LinkTag, End
  <1> QED  BY <1>1, <1>2, <1>3, <1>4, <1>5 DEF SaveStep

LEMMA DeleteStepType ==
    ASSUME TypeOK, NEW p \in Procs, DeleteStep(p)
    PROVE  op' \in [Procs -> Call]
  <1>0. op[p] \in Call
    BY DEF TypeOK
  <1>1. ASSUME Untag(p)
        PROVE  op' \in [Procs -> Call]
    <2>1. [op[p] EXCEPT !.at = "resolve", !.ref = NoTag] \in Call
      BY <1>0 DEF Call, Places
    <2> QED  BY <1>1, <2>1, StepType, IdleIsCall DEF Untag, End
  <1>2. ASSUME NEW d \in Digests, PruneVisit(p, d)
        PROVE  op' \in [Procs -> Call]
    <2>1. [op[p] EXCEPT !.at = "resolve", !.digest = d, !.visit = @ \ {d}] \in Call
      BY <1>0 DEF Call, Places
    <2> QED  BY <1>2, <2>1, StepType DEF PruneVisit
  <1>3. ASSUME PruneEnd(p)
        PROVE  op' \in [Procs -> Call]
    BY <1>3, StepType, IdleIsCall DEF PruneEnd, End
  <1>4. ASSUME ResolveDir(p)
        PROVE  op' \in [Procs -> Call]
    <2>1. \A S \in SUBSET Tags : [op[p] EXCEPT !.at = "scan", !.todo = S] \in Call
      BY <1>0 DEF Call, Places
    <2>2. {} \in SUBSET Tags /\ Tags \in SUBSET Tags
      OBVIOUS
    <2> QED  BY <1>4, <2>1, <2>2, StepType DEF ResolveDir
  <1>5. ASSUME NEW t \in Tags, Scan(p, t)
        PROVE  op' \in [Procs -> Call]
    <2>1. [op[p] EXCEPT !.todo = @ \ {t}] \in Call
      BY <1>0 DEF Call
    <2> QED  BY <1>5, <2>1, StepType, LeaveType DEF Scan
  <1>6. ASSUME ScanEnd(p)
        PROVE  op' \in [Procs -> Call]
    <2>1. [op[p] EXCEPT !.at = "rm"] \in Call
      BY <1>0 DEF Call, Places
    <2> QED  BY <1>6, <2>1, StepType DEF ScanEnd, Goto
  <1>7. ASSUME NEW x \in Files, RmFile(p, x)
        PROVE  op' \in [Procs -> Call]
    <2>1. \A q \in Procs : op[q] \in Call /\ [op[q] EXCEPT !.open = Lost] \in Call
      BY DEF Call, TypeOK
    <2> QED  BY <1>7, <2>1 DEF RmFile
  <1>8. ASSUME RmLayersDir(p)
        PROVE  op' \in [Procs -> Call]
    BY <1>8 DEF RmLayersDir, TypeOK
  <1>9. ASSUME RmDir(p)
        PROVE  op' \in [Procs -> Call]
    BY <1>9, LeaveType DEF RmDir
  <1> QED  BY <1>1, <1>2, <1>3, <1>4, <1>5, <1>6, <1>7, <1>8, <1>9 DEF DeleteStep

LEMMA ReadStepType ==
    ASSUME TypeOK, NEW p \in Procs, ReadStep(p)
    PROVE  op' \in [Procs -> Call]
  <1>0. op[p] \in Call
    BY DEF TypeOK
  <1>1. ASSUME ReadConfig(p)
        PROVE  op' \in [Procs -> Call]
    <2>1. [op[p] EXCEPT !.at = "readdir"] \in Call
      BY <1>0 DEF Call, Places
    <2> QED  BY <1>1, <2>1, StepType, IdleIsCall DEF ReadConfig, Goto, End
  <1>2. ASSUME ReadDir(p)
        PROVE  op' \in [Procs -> Call]
    <2>1. [op[p] EXCEPT !.at = "read",
                        !.todo = {x \in Layers : file[Digest(p)][x] # "none"}] \in Call
      BY <1>0 DEF Call, Places
    <2> QED  BY <1>2, <2>1, StepType DEF ReadDir
  <1>3. ASSUME NEW x \in Layers, ReadLayer(p, x)
        PROVE  op' \in [Procs -> Call]
    <2>1. /\ [op[p] EXCEPT !.todo = @ \ {x}, !.got = @ \cup {x}] \in Call
          /\ [op[p] EXCEPT !.todo = @ \ {x}] \in Call
          /\ [op[p] EXCEPT !.todo = {}] \in Call
      BY <1>0 DEF Call
    <2> QED  BY <1>3, <2>1, StepType DEF ReadLayer
  <1>4. ASSUME ReadEnd(p)
        PROVE  op' \in [Procs -> Call]
    BY <1>4, StepType, IdleIsCall DEF ReadEnd, End
  <1> QED  BY <1>1, <1>2, <1>3, <1>4 DEF ReadStep

LEMMA TagChange ==
    ASSUME NEW p \in Procs, Act(p)
    PROVE  tag' = tag \/ UnlinkTag(p) \/ LinkTag(p) \/ Untag(p)
  BY DEF Act, Calls, SaveStep, DeleteStep, ReadStep, Crash, Save, Remove, Prune, Load,
         OpenFile, NoDirectory, WriteFile, MakeLayersDir, UnlinkTag, LinkTag, Untag,
         PruneVisit, PruneEnd, ResolveDir, Scan, ScanEnd, RmFile, RmLayersDir, RmDir,
         ReadConfig, ReadDir, ReadLayer, ReadEnd

LEMMA DirChange ==
    ASSUME NEW p \in Procs, Act(p)
    PROVE  \/ dirs' = dirs
           \/ \E t \in Tags, d \in Digests : Save(p, t, d)
           \/ MakeLayersDir(p) \/ RmLayersDir(p) \/ RmDir(p)
  BY DEF Act, Calls, SaveStep, DeleteStep, ReadStep, Crash, Save, Remove, Prune, Load,
         OpenFile, NoDirectory, WriteFile, MakeLayersDir, UnlinkTag, LinkTag, Untag,
         PruneVisit, PruneEnd, ResolveDir, Scan, ScanEnd, RmFile, RmLayersDir, RmDir,
         ReadConfig, ReadDir, ReadLayer, ReadEnd

LEMMA FileChange ==
    ASSUME NEW p \in Procs, Act(p)
    PROVE  \/ file' = file \/ WriteFile(p)
           \/ \E x \in Files : OpenFile(p, x) \/ RmFile(p, x)
  BY DEF Act, Calls, SaveStep, DeleteStep, ReadStep, Crash, Save, Remove, Prune, Load,
         OpenFile, NoDirectory, WriteFile, MakeLayersDir, UnlinkTag, LinkTag, Untag,
         PruneVisit, PruneEnd, ResolveDir, Scan, ScanEnd, RmFile, RmLayersDir, RmDir,
         ReadConfig, ReadDir, ReadLayer, ReadEnd

LEMMA MetType ==
    ASSUME TypeOK, Observe
    PROVE  met' \in [Procs -> Meeting]
  <1> DEFINE Before(p) == IF At(p, "read") THEN met[p] ELSE MetNothing
             After(p) == [rewritten |-> Before(p).rewritten \cup Rewritten(Digest(p))',
                          lacking |-> Before(p).lacking \cup Lacking(Digest(p))',
                          cut |-> \/ Before(p).cut
                                  \/ /\ At(p, "read")
                                     /\ \E x \in Layers : Deleted(Digest(p), x)]
  <1>1. met' = [p \in Procs |-> IF ~ At(p, "read")' THEN MetNothing ELSE After(p)]
    BY DEF Observe
  <1>2. MetNothing \in Meeting
    BY DEF MetNothing, Meeting
  <1>3. ASSUME NEW p \in Procs
        PROVE  After(p) \in Meeting
    <2>1. Before(p) \in Meeting
      BY <1>2 DEF TypeOK
    <2> HIDE DEF Before
    <2>2. /\ Before(p).rewritten \subseteq Layers /\ Before(p).lacking \subseteq Layers
          /\ Before(p).cut \in BOOLEAN
      BY <2>1 DEF Meeting
    <2>3. Rewritten(Digest(p))' \subseteq Layers /\ Lacking(Digest(p))' \subseteq Layers
      BY DEF Rewritten, Lacking
    <2>4. (\/ Before(p).cut
           \/ /\ At(p, "read")
              /\ \E x \in Layers : Deleted(Digest(p), x)) \in BOOLEAN
      OBVIOUS
    <2>5. ASSUME NEW a \in SUBSET Layers, NEW b \in SUBSET Layers, NEW c \in BOOLEAN
          PROVE  [rewritten |-> a, lacking |-> b, cut |-> c] \in Meeting
      BY DEF Meeting
    <2> QED  BY <2>2, <2>3, <2>4, <2>5
  <1> HIDE DEF After
  <1> QED  BY <1>1, <1>2, <1>3

LEMMA TypeStep ==
    ASSUME TypeOK, [Next]_vars
    PROVE  TypeOK'
  <1>1. CASE UNCHANGED vars
    BY <1>1 DEF vars, TypeOK
  <1>2. ASSUME NEW p \in Procs, Act(p), Observe
        PROVE  TypeOK'
    <2>1. op' \in [Procs -> Call]
      <3>1. CASE Crash(p)
        BY <3>1, StepType, IdleIsCall DEF Crash, End
      <3> QED
        BY <1>2, <3>1, CallsType, SaveStepType, DeleteStepType, ReadStepType DEF Act
    <2>2. \A q \in Procs : op[q] \in Call /\ op[q].digest \in Digests \cup {NoDigest}
      BY DEF TypeOK, Call
    <2>3. tag' \in [Tags -> Digests \cup {NoDigest}]
      <3>1. CASE UnlinkTag(p)
        BY <3>1 DEF UnlinkTag, TypeOK
      <3>2. CASE LinkTag(p)
        BY <3>2, <2>2 DEF LinkTag, TypeOK, Digest
      <3>3. CASE Untag(p)
        BY <3>3 DEF Untag, TypeOK
      <3> QED  BY <1>2, <3>1, <3>2, <3>3, TagChange DEF TypeOK
    <2>4. dirs' \in [Digests -> {"none", "bare", "full"}]
      <3>1. ASSUME NEW t \in Tags, NEW d \in Digests, Save(p, t, d)
            PROVE  dirs' \in [Digests -> {"none", "bare", "full"}]
        BY <3>1 DEF Save, MakeDir, TypeOK
      <3>2. CASE MakeLayersDir(p) \/ RmLayersDir(p) \/ RmDir(p)
        BY <3>2 DEF MakeLayersDir, RmLayersDir, RmDir, TypeOK
      <3> QED  BY <1>2, <3>1, <3>2, DirChange DEF TypeOK
    <2>5. file' \in [Digests -> [Files -> {"none", "part", "whole"}]]
      <3>1. CASE WriteFile(p)
        BY <3>1 DEF WriteFile, TypeOK
      <3>2. ASSUME NEW x \in Files, OpenFile(p, x) \/ RmFile(p, x)
            PROVE  file' \in [Digests -> [Files -> {"none", "part", "whole"}]]
        BY <3>2 DEF OpenFile, RmFile, TypeOK
      <3> QED  BY <1>2, <3>1, <3>2, FileChange DEF TypeOK
    <2>6. held' \in [Procs -> SUBSET Tags]
      BY <1>2 DEF TypeOK, Observe, LeadingTo
    <2>7. met' \in [Procs -> Meeting]
      BY <1>2, MetType
    <2>8. hurt' \subseteq Digests
      BY <1>2 DEF TypeOK, Observe
    <2> QED  BY <2>1, <2>3, <2>4, <2>5, <2>6, <2>7, <2>8 DEF TypeOK
  <1> QED  BY <1>1, <1>2 DEF Next, Act

-----------------------------------------------------------------------------
(* What a step of one process leaves to the others. *)

LEMMA HurtStays ==
    ASSUME Observe
    PROVE  hurt \subseteq hurt'
  BY DEF Observe

LEMMA OtherCall ==
    ASSUME TypeOK, NEW p \in Procs, Act(p), NEW q \in Procs, q # p
    PROVE  \/ op'[q] = op[q]
           \/ \E x \in Files : /\ RmFile(p, x)
                               /\ Digest(q) = Digest(p) /\ op[q].open = x
                               /\ op'[q] = [op[q] EXCEPT !.open = Lost]
  <1>1. ASSUME NEW x \in Files, RmFile(p, x)
        PROVE  op'[q] = IF Digest(q) = Digest(p) /\ op[q].open = x
                        THEN [op[q] EXCEPT !.open = Lost] ELSE op[q]
    BY <1>1 DEF RmFile
  <1>2. (\A c : Step(p, c) => op'[q] = op[q]) /\ (Leave(p) => op'[q] = op[q])
    BY DEF Step, Leave, End, TypeOK
  <1>3. CASE Calls(p) \/ SaveStep(p) \/ Crash(p) \/ ReadStep(p)
    BY <1>2, <1>3
       DEF Calls, SaveStep, Crash, ReadStep, Save, Remove, Prune, Load,
           OpenFile, NoDirectory, WriteFile, MakeLayersDir, UnlinkTag, LinkTag,
           ReadConfig, ReadDir, ReadLayer, ReadEnd, End, Goto
  <1>4. CASE DeleteStep(p)
    BY <1>1, <1>2, <1>4
       DEF DeleteStep, Untag, PruneVisit, PruneEnd, ResolveDir, Scan, ScanEnd,
           RmLayersDir, RmDir, End, Goto
  <1> QED  BY <1>3, <1>4 DEF Act

LEMMA OtherFields ==
    ASSUME TypeOK, NEW p \in Procs, Act(p), NEW q \in Procs, q # p
    PROVE  /\ op'[q].at = op[q].at /\ op'[q].digest = op[q].digest
           /\ op'[q].todo = op[q].todo /\ op'[q].got = op[q].got
  <1>1. op[q] \in Call
    BY DEF TypeOK
  <1>2. LET c == [op[q] EXCEPT !.open = Lost]
        IN  c.at = op[q].at /\ c.digest = op[q].digest /\ c.todo = op[q].todo /\ c.got = op[q].got
    BY <1>1 DEF Call
  <1> QED  BY <1>2, OtherCall

\* Only rm makes a file disappear.
LEMMA FileStays ==
    ASSUME TypeOK, NEW p \in Procs, Act(p), NEW d \in Digests, NEW x \in Files,
           Written(d, x)
    PROVE  Written(d, x)' \/ (d = Digest(p) /\ RmFile(p, x))
  <1>1. CASE WriteFile(p)
    BY <1>1 DEF WriteFile, TypeOK, Written
  <1>2. ASSUME NEW y \in Files, OpenFile(p, y) \/ RmFile(p, y)
        PROVE  Written(d, x)' \/ (d = Digest(p) /\ RmFile(p, x))
    BY <1>2 DEF OpenFile, RmFile, TypeOK, Written
  <1> QED  BY <1>1, <1>2, FileChange DEF Written

\* An image that is tagged, saved or read is hurt when a file of it goes.
LEMMA Hurts ==
    ASSUME TypeOK, Observe, NEW p \in Procs, NEW x \in Files, RmFile(p, x),
           Digest(p) \in Digests,
           \/ \E t \in Tags : tag[t] = Digest(p)
           \/ \E q \in Procs : Digest(q) = Digest(p) /\ (Saving(q, Digest(p)) \/ Reading(q))
    PROVE  Digest(p) \in hurt'
  <1>1. Deleted(Digest(p), x)
    BY DEF RmFile, Deleted, TypeOK
  <1> QED  BY <1>1 DEF Observe

-----------------------------------------------------------------------------
(* What a step does to the call of its own process. *)

\* The call of p is about the same image and has the same file open.
Same(p) == op'[p].digest = op[p].digest /\ op'[p].open = op[p].open

LEMMA OwnNew ==
    ASSUME TypeOK, NEW p \in Procs, Calls(p)
    PROVE  /\ op[p].at = "idle" /\ op'[p].open = NoFile
           /\ \/ op'[p].at = "prune"
              \/ \E d \in Digests : op'[p].at = "config" /\ op'[p].digest = d
              \/ \E t \in Tags : /\ tag[t] \in Digests
                                 /\ op'[p].at \in {"untag", "load"} /\ op'[p].digest = tag[t]
  <1>1. \A c : Step(p, c) => op'[p] = c
    BY DEF Step, TypeOK
  <1>2. \A t \in Tags : Resolves(t) => tag[t] \in Digests
    BY DEF Resolves, TypeOK
  <1> QED  BY <1>1, <1>2 DEF Calls, Save, Remove, Prune, Load, At, Idle

LEMMA OwnEnd ==
    ASSUME TypeOK, NEW p \in Procs, End(p)
    PROVE  op'[p] = Idle /\ op'[p].at = "idle" /\ op'[p].open = NoFile
  BY DEF TypeOK, End, Step, Idle

LEMMA OwnLeave ==
    ASSUME TypeOK, NEW p \in Procs, Leave(p)
    PROVE  /\ op'[p].at \in {"idle", "prune"}
           /\ op'[p].open \in {NoFile, op[p].open}
  <1>1. op[p] \in Call /\ \A c : Step(p, c) => op'[p] = c
    BY DEF Step, TypeOK
  <1>2. LET c == [op[p] EXCEPT !.at = "prune", !.digest = NoDigest, !.todo = {}]
        IN  c.at = "prune" /\ c.open = op[p].open
    BY <1>1 DEF Call
  <1> QED  BY <1>1, <1>2, OwnEnd DEF Leave

LEMMA OwnGoto ==
    ASSUME TypeOK, NEW p \in Procs, NEW place, Goto(p, place)
    PROVE  Same(p) /\ op'[p].at = place /\ op'[p].todo = op[p].todo
  <1>1. op[p] \in Call /\ op'[p] = [op[p] EXCEPT !.at = place]
    BY DEF Goto, Step, TypeOK
  <1>2. LET c == [op[p] EXCEPT !.at = place]
        IN  c.at = place /\ c.digest = op[p].digest /\ c.open = op[p].open /\ c.todo = op[p].todo
    BY <1>1 DEF Call
  <1> QED  BY <1>1, <1>2 DEF Same

LEMMA OwnOpenFile ==
    ASSUME TypeOK, NEW p \in Procs, NEW x \in Files, OpenFile(p, x)
    PROVE  /\ op'[p].at = op[p].at /\ op'[p].digest = op[p].digest
           /\ op'[p].open = x /\ op'[p].todo = op[p].todo \ {x}
  <1>1. op[p] \in Call /\ op'[p] = [op[p] EXCEPT !.open = x, !.todo = @ \ {x}]
    BY DEF OpenFile, Step, TypeOK
  <1> QED  BY <1>1 DEF Call

LEMMA OwnWriteFile ==
    ASSUME TypeOK, NEW p \in Procs, WriteFile(p)
    PROVE  /\ op'[p].digest = op[p].digest /\ op'[p].open = NoFile
           /\ op'[p].todo = op[p].todo
           /\ op'[p].at = IF At(p, "config") THEN "mklayers"
                          ELSE IF op[p].todo = {} THEN "unlink" ELSE op[p].at
  <1> DEFINE next == IF At(p, "config") THEN "mklayers"
                     ELSE IF op[p].todo = {} THEN "unlink" ELSE op[p].at
  <1>1. op[p] \in Call /\ op'[p] = [op[p] EXCEPT !.open = NoFile, !.at = next]
    BY DEF WriteFile, AfterFile, Step, TypeOK, At
  <1> HIDE DEF next
  <1>2. /\ op'[p].digest = op[p].digest /\ op'[p].open = NoFile
        /\ op'[p].todo = op[p].todo /\ op'[p].at = next
    BY <1>1 DEF Call
  <1> QED  BY <1>2 DEF next

LEMMA OwnMakeLayersDir ==
    ASSUME TypeOK, NEW p \in Procs, MakeLayersDir(p)
    PROVE  Same(p) /\ op'[p].at = "layers" /\ op'[p].todo = Layers
  <1>1. op[p] \in Call /\ op'[p] = [op[p] EXCEPT !.at = "layers", !.todo = Layers]
    BY DEF MakeLayersDir, Step, TypeOK
  <1> QED  BY <1>1 DEF Call, Same

LEMMA OwnDelete ==
    ASSUME TypeOK, NEW p \in Procs
    PROVE  /\ Untag(p) => End(p) \/ (Same(p) /\ op'[p].at = "resolve")
           /\ \A d \in Digests : PruneVisit(p, d) =>
                 op'[p].at = "resolve" /\ op'[p].digest = d /\ op'[p].open = op[p].open
           /\ ResolveDir(p) =>
                 /\ Same(p) /\ op'[p].at = "scan"
                 /\ op'[p].todo = IF dirs[Digest(p)] = "none" THEN {} ELSE Tags
           /\ \A t \in Tags : Scan(p, t) =>
                 \/ tag[t] = Digest(p) /\ Resolves(t) /\ Leave(p)
                 \/ /\ ~ (tag[t] = Digest(p) /\ Resolves(t))
                    /\ Same(p) /\ op'[p].at = "scan" /\ op'[p].todo = op[p].todo \ {t}
           /\ \A x \in Files : RmFile(p, x) =>
                 /\ op'[p].at = "rm" /\ op'[p].digest = op[p].digest
                 /\ op'[p].open = IF op[p].open = x THEN Lost ELSE op[p].open
  <1>1. op[p] \in Call /\ \A c : Step(p, c) => op'[p] = c
    BY DEF Step, TypeOK
  <1>2. Untag(p) => End(p) \/ (Same(p) /\ op'[p].at = "resolve")
    <2>1. LET c == [op[p] EXCEPT !.at = "resolve", !.ref = NoTag]
          IN  c.at = "resolve" /\ c.digest = op[p].digest /\ c.open = op[p].open
      BY <1>1 DEF Call
    <2> QED  BY <1>1, <2>1 DEF Untag, Same
  <1>3. ASSUME NEW d \in Digests, PruneVisit(p, d)
        PROVE  op'[p].at = "resolve" /\ op'[p].digest = d /\ op'[p].open = op[p].open
    <2>1. op'[p] = [op[p] EXCEPT !.at = "resolve", !.digest = d, !.visit = @ \ {d}]
      BY <1>1, <1>3 DEF PruneVisit
    <2> QED  BY <1>1, <2>1 DEF Call
  <1>4. ASSUME ResolveDir(p)
        PROVE  /\ Same(p) /\ op'[p].at = "scan"
               /\ op'[p].todo = IF dirs[Digest(p)] = "none" THEN {} ELSE Tags
    <2> DEFINE S == IF dirs[Digest(p)] = "none" THEN {} ELSE Tags
    <2>1. op'[p] = [op[p] EXCEPT !.at = "scan", !.todo = S]
      BY <1>1, <1>4 DEF ResolveDir
    <2> HIDE DEF S
    <2>2. Same(p) /\ op'[p].at = "scan" /\ op'[p].todo = S
      BY <1>1, <2>1 DEF Call, Same
    <2> QED  BY <2>2 DEF S
  <1>5. ASSUME NEW t \in Tags, Scan(p, t)
        PROVE  \/ tag[t] = Digest(p) /\ Resolves(t) /\ Leave(p)
               \/ /\ ~ (tag[t] = Digest(p) /\ Resolves(t))
                  /\ Same(p) /\ op'[p].at = "scan" /\ op'[p].todo = op[p].todo \ {t}
    <2>1. LET c == [op[p] EXCEPT !.todo = @ \ {t}]
          IN  /\ c.at = op[p].at /\ c.digest = op[p].digest /\ c.open = op[p].open
              /\ c.todo = op[p].todo \ {t}
      BY <1>1 DEF Call
    <2> QED  BY <1>1, <1>5, <2>1 DEF Scan, Same, At
  <1>6. ASSUME NEW x \in Files, RmFile(p, x)
        PROVE  /\ op'[p].at = "rm" /\ op'[p].digest = op[p].digest
               /\ op'[p].open = IF op[p].open = x THEN Lost ELSE op[p].open
    <2>1. LET c == [op[p] EXCEPT !.open = Lost]
          IN  c.at = op[p].at /\ c.digest = op[p].digest /\ c.open = Lost
      BY <1>1 DEF Call
    <2>2. op'[p] = IF op[p].open = x THEN [op[p] EXCEPT !.open = Lost] ELSE op[p]
      BY <1>6 DEF RmFile
    <2> QED  BY <1>6, <2>1, <2>2 DEF RmFile, At
  <1> QED  BY <1>2, <1>3, <1>4, <1>5, <1>6

LEMMA OwnRead ==
    ASSUME TypeOK, NEW p \in Procs
    PROVE  /\ ReadDir(p) =>
                 /\ Same(p) /\ op'[p].at = "read"
                 /\ op'[p].todo = {x \in Layers : Written(Digest(p), x)}
           /\ \A x \in Layers : ReadLayer(p, x) =>
                 /\ Same(p) /\ op'[p].at = "read"
                 /\ file[Digest(p)][x] = "whole" =>
                       op'[p].todo = op[p].todo \ {x} /\ op'[p].got = op[p].got \cup {x}
                 /\ file[Digest(p)][x] = "part" =>
                       op'[p].todo = op[p].todo \ {x} /\ op'[p].got = op[p].got
                 /\ op'[p].todo \subseteq op[p].todo
  <1>1. op[p] \in Call /\ \A c : Step(p, c) => op'[p] = c
    BY DEF Step, TypeOK
  <1>2. ASSUME ReadDir(p)
        PROVE  /\ Same(p) /\ op'[p].at = "read"
               /\ op'[p].todo = {x \in Layers : Written(Digest(p), x)}
    <2> DEFINE S == {x \in Layers : Written(Digest(p), x)}
    <2>1. op'[p] = [op[p] EXCEPT !.at = "read", !.todo = S]
      BY <1>1, <1>2 DEF ReadDir, Written
    <2> HIDE DEF S
    <2>2. Same(p) /\ op'[p].at = "read" /\ op'[p].todo = S
      BY <1>1, <2>1 DEF Call, Same
    <2> QED  BY <2>2 DEF S
  <1>3. ASSUME NEW x \in Layers, ReadLayer(p, x)
        PROVE  /\ Same(p) /\ op'[p].at = "read"
               /\ file[Digest(p)][x] = "whole" =>
                     op'[p].todo = op[p].todo \ {x} /\ op'[p].got = op[p].got \cup {x}
               /\ file[Digest(p)][x] = "part" =>
                     op'[p].todo = op[p].todo \ {x} /\ op'[p].got = op[p].got
               /\ op'[p].todo \subseteq op[p].todo
    <2>1. CASE file[Digest(p)][x] = "whole"
      <3>1. op'[p] = [op[p] EXCEPT !.todo = @ \ {x}, !.got = @ \cup {x}]
        BY <1>1, <1>3, <2>1 DEF ReadLayer
      <3> QED  BY <1>1, <1>3, <3>1 DEF Call, Same, ReadLayer, At
    <2>2. CASE file[Digest(p)][x] # "whole"
      <3>1. \E S : /\ op'[p] = [op[p] EXCEPT !.todo = S] /\ S \subseteq op[p].todo
                   /\ file[Digest(p)][x] = "part" => S = op[p].todo \ {x}
        BY <1>1, <1>3, <2>2 DEF ReadLayer
      <3> QED  BY <1>1, <1>3, <2>2, <3>1 DEF Call, Same, ReadLayer, At
    <2> QED  BY <2>1, <2>2
  <1> QED  BY <1>2, <1>3

-----------------------------------------------------------------------------
(* The invariant is inductive. *)

LEMMA DigestStep ==
    ASSUME StoreInv, NEW p \in Procs, Act(p)
    PROVE  DigestInv'
  <1> USE DEF StoreInv, DigestInv, DigestOK, Digest, At
  <1> SUFFICES ASSUME NEW q \in Procs PROVE DigestOK(q)'
    OBVIOUS
  <1>1. CASE q # p
    BY <1>1, OtherFields
  <1>2. CASE q = p
    <2>1. CASE Calls(p)
      BY <1>2, <2>1, OwnNew
    <2>2. CASE SaveStep(p)
      <3>1. ASSUME NEW x \in Files, OpenFile(p, x) PROVE DigestOK(p)'
        BY <3>1, OwnOpenFile
      <3>2. CASE WriteFile(p)
        <4>1. op[p].at \in {"config", "layers"}
          BY <3>2 DEF WriteFile, OpenInv, OpenOK
        <4> QED  BY <1>2, <3>2, <4>1, OwnWriteFile
      <3>3. CASE MakeLayersDir(p)
        BY <1>2, <3>3, OwnMakeLayersDir DEF Same, MakeLayersDir
      <3>4. CASE UnlinkTag(p)
        BY <1>2, <3>4, OwnGoto DEF Same, UnlinkTag
      <3> QED  BY <1>2, <2>2, <3>1, <3>2, <3>3, <3>4, OwnEnd
               DEF SaveStep, NoDirectory, LinkTag
    <2>3. CASE DeleteStep(p)
      <3>1. ASSUME NEW d \in Digests, PruneVisit(p, d) PROVE DigestOK(p)'
        BY <3>1, OwnDelete
      <3>2. CASE Untag(p) \/ ResolveDir(p)
        BY <1>2, <3>2, OwnDelete, OwnEnd DEF Same, Untag, ResolveDir
      <3>3. ASSUME NEW t \in Tags, Scan(p, t) PROVE DigestOK(p)'
        BY <3>3, OwnDelete, OwnLeave DEF Same, Scan
      <3>4. CASE ScanEnd(p)
        BY <1>2, <3>4, OwnGoto DEF Same, ScanEnd
      <3>5. ASSUME NEW x \in Files, RmFile(p, x) PROVE DigestOK(p)'
        BY <3>5, OwnDelete DEF RmFile
      <3> QED  BY <1>2, <2>3, <3>1, <3>2, <3>3, <3>4, <3>5, OwnEnd, OwnLeave
               DEF DeleteStep, PruneEnd, RmLayersDir, RmDir
    <2>4. CASE ReadStep(p)
      <3>1. CASE ReadConfig(p)
        BY <1>2, <3>1, OwnGoto, OwnEnd DEF ReadConfig, Same
      <3>2. CASE ReadDir(p) \/ (\E x \in Layers : ReadLayer(p, x))
        BY <1>2, <3>2, OwnRead DEF ReadDir, ReadLayer, Same
      <3> QED  BY <1>2, <2>4, <3>1, <3>2, OwnEnd DEF ReadStep, ReadEnd
    <2>5. CASE Crash(p)
      BY <1>2, <2>5, OwnEnd DEF Crash
    <2> QED  BY <2>1, <2>2, <2>3, <2>4, <2>5 DEF Act
  <1> QED  BY <1>1, <1>2

\* A call opens a file only by OpenFile, and one that has a file open goes on
\* with it.
LEMMA OpenChange ==
    ASSUME StoreInv, NEW p \in Procs, Act(p)
    PROVE  op'[p].open = NoFile \/ \E x \in Files : OpenFile(p, x)
  <1> USE DEF StoreInv
  <1>1. op[p].at \notin {"config", "layers"} => op[p].open = NoFile
    BY DEF OpenInv, OpenOK, At
  <1>2. CASE Calls(p)
    BY <1>2, OwnNew
  <1>3. CASE SaveStep(p)
    BY <1>1, <1>3, OwnWriteFile, OwnMakeLayersDir, OwnGoto, OwnEnd
       DEF SaveStep, NoDirectory, LinkTag, MakeLayersDir, UnlinkTag, At, Same
  <1>4. CASE DeleteStep(p)
    <2>1. CASE \E x \in Files : RmFile(p, x)
      BY <1>1, <2>1, OwnDelete, AbsentAssumption DEF RmFile, At
    <2>2. CASE \E d \in Digests : PruneVisit(p, d)
      BY <1>1, <2>2, OwnDelete DEF PruneVisit, At
    <2>3. CASE Untag(p) \/ ResolveDir(p)
      BY <1>1, <2>3, OwnDelete, OwnEnd DEF Untag, ResolveDir, At, Same
    <2>4. CASE \E t \in Tags : Scan(p, t)
      BY <1>1, <2>4, OwnDelete, OwnLeave DEF Scan, At, Same
    <2>5. CASE ScanEnd(p)
      BY <1>1, <2>5, OwnGoto DEF ScanEnd, At, Same
    <2>6. CASE RmDir(p)
      BY <1>1, <2>6, OwnLeave DEF RmDir, At
    <2>7. CASE RmLayersDir(p)
      BY <1>1, <2>7 DEF RmLayersDir, At
    <2> QED  BY <1>4, <2>1, <2>2, <2>3, <2>4, <2>5, <2>6, <2>7, OwnEnd DEF DeleteStep, PruneEnd
  <1>5. CASE ReadStep(p)
    BY <1>1, <1>5, OwnRead, OwnGoto, OwnEnd
       DEF ReadStep, ReadConfig, ReadDir, ReadLayer, ReadEnd, At, Same
  <1>6. CASE Crash(p)
    BY <1>6, OwnEnd DEF Crash
  <1> QED  BY <1>2, <1>3, <1>4, <1>5, <1>6 DEF Act

LEMMA OpenStep ==
    ASSUME StoreInv, NEW p \in Procs, Act(p), Observe
    PROVE  OpenInv'
  <1> USE DEF StoreInv
  <1> SUFFICES ASSUME NEW q \in Procs PROVE OpenOK(q)'
    BY DEF OpenInv
  <1>0. OpenOK(q)
    BY DEF OpenInv
  <1>1. CASE q # p
    <2>1. CASE op'[q] = op[q]
      <3>1. op[q].open \in Files => Digest(q) \in Digests
        BY <1>0, AbsentAssumption DEF OpenOK, DigestInv, DigestOK, At
      <3>2. op[q].open \in Files => Written(Digest(q), op[q].open)'
        <4> SUFFICES ASSUME op[q].open \in Files PROVE Written(Digest(q), op[q].open)'
          OBVIOUS
        <4>1. ~ (Digest(q) = Digest(p) /\ RmFile(p, op[q].open))
          <5> SUFFICES ASSUME Digest(q) = Digest(p), RmFile(p, op[q].open) PROVE FALSE
            OBVIOUS
          <5>1. op'[q] = [op[q] EXCEPT !.open = Lost]
            BY DEF RmFile
          <5>2. op[q] \in Call
            BY DEF TypeOK
          <5>3. op'[q].open = Lost
            BY <5>1, <5>2 DEF Call
          <5> QED  BY <2>1, <5>3, AbsentAssumption
        <4> QED  BY <1>0, <2>1, <3>1, <4>1, FileStays DEF OpenOK, Written, Digest
      <3> QED  BY <1>0, <2>1, <3>2, HurtStays DEF OpenOK, At, Digest
    <2>2. ASSUME NEW x \in Files, RmFile(p, x), Digest(q) = Digest(p), op[q].open = x,
                 op'[q] = [op[q] EXCEPT !.open = Lost]
          PROVE  OpenOK(q)'
      <3>1. /\ op'[q].at = op[q].at /\ op'[q].digest = op[q].digest /\ op'[q].open = Lost
        <4>1. op[q] \in Call
          BY DEF TypeOK
        <4> QED  BY <2>2, <4>1 DEF Call
      <3>2. op[q].at \in {"config", "layers"}
        BY <1>0, <2>2, AbsentAssumption DEF OpenOK, At
      <3>3. Digest(p) \in Digests
        BY <2>2 DEF DigestInv, DigestOK, RmFile, At
      <3>4. Saving(q, Digest(p))
        BY <2>2, <3>2 DEF Saving
      <3>5. Digest(p) \in hurt'
        BY <2>2, <3>3, <3>4, Hurts
      <3> QED  BY <2>2, <3>1, <3>2, <3>5, AbsentAssumption DEF OpenOK, At, Digest
    <2> QED  BY <1>1, <2>1, <2>2, OtherCall
  <1>2. CASE q = p
    <2>1. CASE op'[p].open = NoFile
      BY <1>2, <2>1, AbsentAssumption DEF OpenOK
    <2>2. ASSUME NEW x \in Files, OpenFile(p, x)
          PROVE  OpenOK(p)'
      <3>1. \/ At(p, "config") /\ x = "config"
            \/ At(p, "layers") /\ x \in op[p].todo
        BY <2>2 DEF OpenFile, Writable, At
      <3>2. Digest(p) \in Digests
        BY <3>1 DEF DigestInv, DigestOK, At
      <3>3. op[p].todo \subseteq Layers \cup Tags
        BY DEF TypeOK, Call
      <3>4. file'[Digest(p)][x] = "part"
        BY <2>2, <3>2 DEF OpenFile, TypeOK
      <3>5. x # Lost /\ x # NoFile
        BY AbsentAssumption
      <3>6. x \in Layers \/ x = "config"
        BY DEF Files
      <3>7. At(p, "layers") => x \in Layers
        BY <3>1, <3>3, <3>6, AbsentAssumption DEF At
      <3> QED  BY <2>2, <3>1, <3>4, <3>5, <3>7, OwnOpenFile DEF OpenOK, At, Digest, Written
    <2> QED  BY <1>2, <2>1, <2>2, OpenChange
  <1> QED  BY <1>1, <1>2

\* Only OpenFile makes a file appear.
LEMMA FileComes ==
    ASSUME TypeOK, OpenInv, NEW p \in Procs, Act(p), NEW d \in Digests, NEW x \in Files,
           Written(d, x)'
    PROVE  Written(d, x) \/ (d = Digest(p) /\ OpenFile(p, x))
  <1>1. CASE WriteFile(p)
    <2>1. CASE d = Digest(p) /\ x = op[p].open
      BY <2>1 DEF OpenInv, OpenOK
    <2>2. CASE d # Digest(p)
      BY <1>1, <2>2 DEF WriteFile, TypeOK, Written
    <2>3. CASE d = Digest(p) /\ x # op[p].open
      <3>1. file'[d][x] = file[d][x]
        BY <1>1, <2>3 DEF WriteFile, TypeOK
      <3> QED  BY <3>1 DEF Written
    <2> QED  BY <2>1, <2>2, <2>3
  <1>2. ASSUME NEW y \in Files, RmFile(p, y)
        PROVE  Written(d, x)
    BY <1>2 DEF RmFile, TypeOK, Written
  <1>3. ASSUME NEW y \in Files, OpenFile(p, y)
        PROVE  Written(d, x) \/ (d = Digest(p) /\ OpenFile(p, x))
    <2>1. file' = [file EXCEPT ![Digest(p)][y] = "part"]
      BY <1>3 DEF OpenFile
    <2>2. CASE d = Digest(p) /\ x = y
      BY <1>3, <2>2
    <2>3. CASE ~ (d = Digest(p) /\ x = y)
      BY <2>1, <2>3 DEF TypeOK, Written
    <2> QED  BY <2>2, <2>3
  <1>4. CASE file' = file
    BY <1>4 DEF Written
  <1> QED  BY <1>1, <1>2, <1>3, <1>4, FileChange

LEMMA PlaceStep ==
    ASSUME StoreInv, NEW p \in Procs, Act(p)
    PROVE  PlaceInv'
  <1> USE DEF StoreInv
  <1> SUFFICES ASSUME NEW d \in Digests, NEW x \in Files, Written(d, x)'
               PROVE  HasPlace(d, x)'
    BY DEF PlaceInv
  <1>1. CASE dirs' = dirs
    <2>1. Written(d, x) => HasPlace(d, x)
      BY DEF PlaceInv
    <2>2. OpenFile(p, x) /\ d = Digest(p) => HasPlace(d, x)
      BY DEF OpenFile
    <2> QED  BY <1>1, <2>1, <2>2, FileComes DEF HasPlace
  <1>2. ASSUME NEW t \in Tags, NEW c \in Digests, Save(p, t, c)
        PROVE  HasPlace(d, x)'
    BY <1>2 DEF Save, MakeDir, HasPlace, Written, PlaceInv, TypeOK
  <1>3. CASE MakeLayersDir(p)
    BY <1>3 DEF MakeLayersDir, HasPlace, Written, PlaceInv, TypeOK
  <1>4. CASE RmLayersDir(p)
    BY <1>4 DEF RmLayersDir, HasPlace, Written, PlaceInv, TypeOK
  <1>5. CASE RmDir(p)
    BY <1>5 DEF RmDir, HasPlace, Written, PlaceInv, TypeOK
  <1> QED  BY <1>1, <1>2, <1>3, <1>4, <1>5, DirChange

\* A save that has a file open goes on, finishes the file or ends, and then
\* the image is hurt.
LEMMA SaverGoesOn ==
    ASSUME StoreInv, NEW p \in Procs, Act(p), Observe,
           NEW q \in Procs, NEW d \in Digests, NEW x \in Files,
           Saving(q, d), op[q].open = x
    PROVE  \/ Saving(q, d)' /\ op'[q].open = x
           \/ d \in hurt'
           \/ q = p /\ WriteFile(p)
  <1> USE DEF StoreInv
  <1>1. op[q].at \in {"config", "layers"} /\ x # NoFile /\ x # Lost
    BY AbsentAssumption DEF OpenInv, OpenOK, At
  <1>2. CASE q # p
    <2>1. CASE op'[q] = op[q]
      BY <2>1 DEF Saving, Digest
    <2>2. ASSUME NEW y \in Files, RmFile(p, y), Digest(q) = Digest(p)
          PROVE  d \in hurt'
      BY <2>2, Hurts DEF Saving
    <2> QED  BY <1>2, <2>1, <2>2, OtherCall
  <1>3. CASE q = p
    <2>1. op'[p] = Idle => d \in hurt'
      BY <1>1, <1>3 DEF Observe
    <2>2. CASE SaveStep(p)
      BY <1>1, <1>3, <2>1, <2>2, OwnEnd
         DEF SaveStep, OpenFile, NoDirectory, MakeLayersDir, UnlinkTag, LinkTag, At
    <2>3. CASE Crash(p)
      BY <1>3, <2>1, <2>3, OwnEnd DEF Crash
    <2>4. ~ Calls(p) /\ ~ DeleteStep(p) /\ ~ ReadStep(p)
      BY <1>1, <1>3 DEF Calls, Save, Remove, Prune, Load, DeleteStep, Untag, PruneVisit,
            PruneEnd, ResolveDir, Scan, ScanEnd, RmFile, RmLayersDir, RmDir, ReadStep,
            ReadConfig, ReadDir, ReadLayer, ReadEnd, At
    <2> QED  BY <1>3, <2>2, <2>3, <2>4 DEF Act
  <1> QED  BY <1>2, <1>3

LEMMA PartStep ==
    ASSUME StoreInv, NEW p \in Procs, Act(p), Observe
    PROVE  PartInv'
  <1> USE DEF StoreInv
  <1> SUFFICES ASSUME NEW d \in Digests, NEW x \in Files, file'[d][x] = "part", d \notin hurt'
               PROVE  \E q \in Procs : Saving(q, d)' /\ op'[q].open = x
    BY DEF PartInv
  <1>1. CASE file[d][x] = "part" /\ ~ (WriteFile(p) /\ Digest(p) = d /\ op[p].open = x)
    <2>1. PICK q \in Procs : Saving(q, d) /\ op[q].open = x
      BY <1>1, HurtStays DEF PartInv
    <2> QED  BY <1>1, <2>1, SaverGoesOn DEF Saving
  <1>2. CASE WriteFile(p) /\ Digest(p) = d /\ op[p].open = x
    <2>1. file'[d][x] = "whole"
      BY <1>2, AbsentAssumption DEF WriteFile, TypeOK
    <2> QED  BY <2>1
  <1>3. CASE file[d][x] # "part"
    <2>1. \E y \in Files : OpenFile(p, y)
      <3>1. ~ WriteFile(p)
        BY <1>3, <1>2 DEF WriteFile, TypeOK
      <3>2. \A y \in Files : ~ RmFile(p, y)
        BY <1>3 DEF RmFile, TypeOK
      <3> QED  BY <1>3, <3>1, <3>2, FileChange
    <2>2. PICK y \in Files : OpenFile(p, y)
      BY <2>1
    <2>3. d = Digest(p) /\ x = y
      BY <1>3, <2>2 DEF OpenFile, TypeOK
    <2>4. op[p].at \in {"config", "layers"}
      BY <2>2 DEF OpenFile, Writable, At
    <2> QED  BY <2>2, <2>3, <2>4, OwnOpenFile DEF Saving, Digest
  <1> QED  BY <1>1, <1>2, <1>3

\* As long as an image is not hurt, its files stay while it is tagged, saved
\* or read.
LEMMA UnhurtStays ==
    ASSUME StoreInv, NEW p \in Procs, Act(p), Observe,
           NEW d \in Digests, NEW x \in Files, d \notin hurt', Written(d, x),
           \/ \E t \in Tags : tag[t] = d
           \/ \E q \in Procs : Digest(q) = d /\ (Saving(q, d) \/ Reading(q))
    PROVE  Written(d, x)'
  BY FileStays, Hurts DEF StoreInv

LEMMA SaveStepInv ==
    ASSUME StoreInv, NEW p \in Procs, Act(p), Observe
    PROVE  SaveInv'
  <1> USE DEF StoreInv
  <1> DEFINE After(q) ==
        /\ op[q].at \in {"mklayers", "layers", "unlink", "link"}
               => Written(Digest(q), "config")
        /\ At(q, "layers") =>
               /\ op[q].todo \subseteq Layers
               /\ \A x \in Layers \ op[q].todo : Written(Digest(q), x)
        /\ op[q].at \in {"unlink", "link"}
               => \A x \in Files : Written(Digest(q), x)
  <1> SUFFICES ASSUME NEW q \in Procs, Digest(q)' \notin hurt' PROVE After(q)'
    BY DEF SaveInv
  <1>0. "config" \in Files /\ Layers \subseteq Files /\ Files = {"config"} \cup Layers
    BY DEF Files
  <1>a. op[q].at \in {"mklayers", "layers", "unlink", "link"} => Digest(q) \in Digests
    BY DEF DigestInv, DigestOK, At
  \* The files that q finds stay.
  <1>b. ASSUME op'[q].digest = op[q].digest,
               op[q].at \in {"config", "mklayers", "layers", "unlink", "link"}
        PROVE  /\ After(q)
               /\ \A x \in Files : Written(Digest(q), x) => Written(Digest(q), x)'
    <2>1. Digest(q) \notin hurt
      BY <1>b, HurtStays DEF Digest
    <2>2. Digest(q) \in Digests
      BY <1>b DEF DigestInv, DigestOK, At
    <2>3. Saving(q, Digest(q)) /\ Digest(q) \notin hurt'
      BY <1>b DEF Saving, Digest
    <2>4. After(q)
      BY <2>1 DEF SaveInv
    <2>5. \A x \in Files : Written(Digest(q), x) => Written(Digest(q), x)'
      <3> SUFFICES ASSUME NEW x \in Files, file[Digest(q)][x] # "none"
                   PROVE  file'[Digest(q)][x] # "none"
        BY <1>b DEF Written, Digest
      <3>0. PICK d \in Digests : d = Digest(q)
        BY <2>2
      <3>1. d \notin hurt' /\ Written(d, x)
        BY <2>3, <3>0 DEF Written
      <3>2. \E r \in Procs : Digest(r) = d /\ (Saving(r, d) \/ Reading(r))
        BY <2>3, <3>0
      <3>3. Written(d, x)'
        BY <3>1, <3>2, UnhurtStays
      <3> QED  BY <3>0, <3>3 DEF Written
    <2> QED  BY <2>4, <2>5
  <1>1. ASSUME op'[q].digest = op[q].digest, op'[q].at = op[q].at, op'[q].todo = op[q].todo
        PROVE  After(q)'
    <2>1. CASE op[q].at \in {"config", "mklayers", "layers", "unlink", "link"}
      <3>1. /\ After(q)
            /\ \A x \in Files : Written(Digest(q), x) => Written(Digest(q), x)'
        BY <1>1, <1>b, <2>1
      <3> QED  BY <1>0, <1>1, <3>1 DEF At, Digest, Written
    <2>2. CASE op[q].at \notin {"config", "mklayers", "layers", "unlink", "link"}
      BY <1>1, <2>2 DEF At
    <2> QED  BY <2>1, <2>2
  <1>2. CASE q # p
    BY <1>1, <1>2, OtherFields
  <1>3. ASSUME q = p, op'[q].at \notin {"mklayers", "layers", "unlink", "link"}
        PROVE  After(q)'
    BY <1>3 DEF At
  <1>4. ASSUME q = p, SaveStep(p)
        PROVE  After(q)'
    <2>1. ASSUME NEW y \in Files, OpenFile(p, y)
          PROVE  After(q)'
      <3>1. \/ At(p, "config") /\ y = "config"
            \/ At(p, "layers") /\ y \in op[p].todo
        BY <2>1 DEF OpenFile, Writable, At
      <3>2. CASE At(p, "config")
        BY <1>3, <1>4, <2>1, <3>2, OwnOpenFile DEF At
      <3>3. CASE At(p, "layers") /\ y \in op[p].todo
        <4>1. /\ After(q)
              /\ \A x \in Files : Written(Digest(q), x) => Written(Digest(q), x)'
          BY <1>4, <1>b, <2>1, <3>3, OwnOpenFile DEF At
        <4>2. Written(Digest(q), y)'
          BY <1>4, <1>a, <2>1, <3>3, OwnOpenFile DEF OpenFile, At, TypeOK, Written, Digest
        <4> QED  BY <1>0, <1>4, <2>1, <3>3, <4>1, <4>2, OwnOpenFile DEF At, Digest, Written
      <3> QED  BY <3>1, <3>2, <3>3
    <2>2. CASE WriteFile(p)
      <3>1. /\ op[p].at \in {"config", "layers"} /\ op[p].open # Lost
            /\ At(p, "config") => Written(Digest(p), "config")
        <4>1. op'[p].digest = op[p].digest
          BY <2>2, OwnWriteFile
        <4>2. op[p].open # Lost
          BY <1>4, <4>1, HurtStays DEF OpenInv, OpenOK, Digest
        <4> QED  BY <1>0, <2>2, <4>2 DEF WriteFile, OpenInv, OpenOK, At
      <3>2. /\ After(q)
            /\ \A x \in Files : Written(Digest(q), x) => Written(Digest(q), x)'
        BY <1>4, <1>b, <2>2, <3>1, OwnWriteFile
      <3> QED  BY <1>0, <1>4, <2>2, <3>1, <3>2, OwnWriteFile DEF At, Digest, Written
    <2>3. CASE MakeLayersDir(p)
      <3>1. /\ After(q)
            /\ \A x \in Files : Written(Digest(q), x) => Written(Digest(q), x)'
        BY <1>4, <1>b, <2>3, OwnMakeLayersDir DEF MakeLayersDir, At, Same
      <3> QED  BY <1>0, <1>4, <2>3, <3>1, OwnMakeLayersDir
               DEF MakeLayersDir, At, Digest, Written, Same
    <2>4. CASE UnlinkTag(p)
      <3>1. /\ After(q)
            /\ \A x \in Files : Written(Digest(q), x) => Written(Digest(q), x)'
        BY <1>4, <1>b, <2>4, OwnGoto DEF UnlinkTag, At, Same
      <3> QED  BY <1>0, <1>4, <2>4, <3>1, OwnGoto DEF UnlinkTag, At, Digest, Written, Same
    <2> QED  BY <1>3, <1>4, <2>1, <2>2, <2>3, <2>4, OwnEnd DEF SaveStep, NoDirectory, LinkTag
  <1>5. ASSUME q = p, DeleteStep(p)
        PROVE  op'[q].at \notin {"mklayers", "layers", "unlink", "link"}
    <2>1. CASE Untag(p) \/ ResolveDir(p) \/ (\E d \in Digests : PruneVisit(p, d))
      BY <1>5, <2>1, OwnDelete, OwnEnd
    <2>2. CASE \E t \in Tags : Scan(p, t)
      BY <1>5, <2>2, OwnDelete, OwnLeave
    <2>3. CASE \E x \in Files : RmFile(p, x)
      BY <1>5, <2>3, OwnDelete
    <2>4. CASE RmLayersDir(p)
      BY <1>5, <2>4 DEF RmLayersDir, At
    <2>5. CASE PruneEnd(p) \/ ScanEnd(p) \/ RmDir(p)
      BY <1>5, <2>5, OwnLeave, OwnGoto, OwnEnd DEF PruneEnd, ScanEnd, RmDir
    <2> QED  BY <1>5, <2>1, <2>2, <2>3, <2>4, <2>5 DEF DeleteStep
  <1>6. ASSUME q = p, Calls(p) \/ ReadStep(p) \/ Crash(p)
        PROVE  op'[q].at \notin {"mklayers", "layers", "unlink", "link"}
    BY <1>6, OwnNew, OwnRead, OwnGoto, OwnEnd DEF ReadStep, ReadConfig, ReadEnd, Crash
  <1> QED  BY <1>2, <1>3, <1>4, <1>5, <1>6 DEF Act

LEMMA TagInvStep ==
    ASSUME StoreInv, NEW p \in Procs, Act(p), Observe
    PROVE  TagInv'
  <1> USE DEF StoreInv
  <1>1. ASSUME NEW t \in Tags, tag'[t] \notin hurt' \cup {NoDigest}, NEW x \in Files
        PROVE  Written(tag[t], x)'
    <2>1. ASSUME tag[t] = tag'[t]
          PROVE  Written(tag[t], x)'
      <3>0. PICK d \in Digests : d = tag[t]
        BY <1>1, <2>1 DEF TypeOK
      <3>1. d \notin hurt' /\ Written(d, x)
        BY <1>1, <2>1, <3>0, HurtStays DEF TagInv, Written
      <3>2. \E u \in Tags : tag[u] = d
        BY <3>0
      <3>3. Written(d, x)'
        BY <3>1, <3>2, UnhurtStays
      <3> QED  BY <2>1, <3>0, <3>3 DEF Written
    <2>2. CASE UnlinkTag(p)
      BY <1>1, <2>1, <2>2 DEF UnlinkTag, TypeOK
    <2>3. CASE Untag(p)
      BY <1>1, <2>1, <2>3 DEF Untag, TypeOK
    <2>4. CASE LinkTag(p) /\ tag[t] # tag'[t]
      <3>1. tag'[t] = Digest(p)
        BY <2>4 DEF LinkTag, TypeOK
      <3>2. Digest(p) \in Digests /\ Digest(p) \notin hurt
        BY <1>1, <2>4, <3>1, HurtStays DEF DigestInv, DigestOK, LinkTag, At
      <3>3. Written(Digest(p), x)
        BY <2>4, <3>2 DEF SaveInv, LinkTag, At
      <3> QED  BY <2>4, <3>1, <3>3 DEF LinkTag, Written
    <2> QED  BY <2>1, <2>2, <2>3, <2>4, TagChange
  <1>2. ASSUME NEW q \in Procs, Reading(q)', Digest(q)' \notin hurt', NEW x \in Files
        PROVE  Written(Digest(q), x)'
    <2>1. ASSUME op'[q].digest = op[q].digest, Reading(q)
          PROVE  Written(Digest(q), x)'
      <3>0. PICK d \in Digests : d = Digest(q)
        BY <2>1 DEF DigestInv, DigestOK, Reading
      <3>1. d \notin hurt' /\ Written(d, x)
        BY <1>2, <2>1, <3>0, HurtStays DEF TagInv, Digest, Written
      <3>2. \E r \in Procs : Digest(r) = d /\ (Saving(r, d) \/ Reading(r))
        BY <2>1, <3>0
      <3>3. Written(d, x)'
        BY <3>1, <3>2, UnhurtStays
      <3> QED  BY <2>1, <3>0, <3>3 DEF Written, Digest
    <2>2. CASE q # p
      BY <1>2, <2>1, <2>2, OtherFields DEF Reading
    <2>3. ASSUME q = p, NEW t \in Tags, Load(p, t)
          PROVE  Written(Digest(q), x)'
      <3>1. op'[p].digest = tag[t]
        BY <2>3 DEF Load, Step, TypeOK, Idle
      <3> QED  BY <1>2, <2>3, <3>1, HurtStays DEF Load, Resolves, TagInv, Written, Digest
    <2>4. ASSUME q = p, ReadStep(p)
          PROVE  Written(Digest(q), x)'
      <3>1. Reading(p)
        BY <2>4 DEF ReadStep, ReadConfig, ReadDir, ReadLayer, ReadEnd, At, Reading
      <3>2. op'[p].at = "idle" \/ op'[p].digest = op[p].digest
        BY <2>4, OwnRead, OwnGoto, OwnEnd DEF ReadStep, ReadConfig, ReadEnd, Same
      <3> QED  BY <1>2, <2>1, <2>4, <3>1, <3>2 DEF Reading
    <2>5. ASSUME q = p, ~ ReadStep(p), ~ \E t \in Tags : Load(p, t)
          PROVE  FALSE
      <3>1. ~ Calls(p)
        <4>1. \A c : Step(p, c) => op'[p] = c
          BY DEF Step, TypeOK
        <4> QED  BY <1>2, <2>5, <4>1 DEF Calls, Save, Remove, Prune, Reading, Idle
      <3>2. ~ SaveStep(p)
        <4>1. ~ WriteFile(p)
          BY <1>2, <2>5, OwnWriteFile DEF WriteFile, OpenInv, OpenOK, At, Reading
        <4>2. \A y \in Files : ~ OpenFile(p, y)
          BY <1>2, <2>5, OwnOpenFile DEF OpenFile, Writable, At, Reading
        <4> QED  BY <1>2, <2>5, <4>1, <4>2, OwnMakeLayersDir, OwnGoto, OwnEnd
                 DEF SaveStep, NoDirectory, LinkTag, UnlinkTag, Reading
      <3>3. ~ DeleteStep(p)
        <4>1. \A y \in Files : ~ RmFile(p, y)
          BY <1>2, <2>5, OwnDelete DEF Reading
        <4>2. ~ RmLayersDir(p) /\ ~ RmDir(p)
          BY <1>2, <2>5, OwnLeave DEF RmLayersDir, RmDir, At, Reading
        <4>3. ~ Untag(p) /\ ~ ResolveDir(p) /\ \A d \in Digests : ~ PruneVisit(p, d)
          BY <1>2, <2>5, OwnDelete, OwnEnd DEF Reading
        <4>4. \A t \in Tags : ~ Scan(p, t)
          BY <1>2, <2>5, OwnDelete, OwnLeave DEF Reading
        <4> QED  BY <1>2, <2>5, <4>1, <4>2, <4>3, <4>4, OwnGoto, OwnEnd
                 DEF DeleteStep, PruneEnd, ScanEnd, Reading
      <3> QED  BY <1>2, <2>5, <3>1, <3>2, <3>3, OwnEnd DEF Act, Crash, Reading
    <2> QED  BY <2>2, <2>3, <2>4, <2>5
  <1> QED  BY <1>1, <1>2 DEF TagInv, Digest, Written

\* What the history of a load records.
LEMMA MetStep ==
    ASSUME Observe, NEW q \in Procs, At(q, "read")'
    PROVE  /\ Rewritten(Digest(q))' \subseteq met'[q].rewritten
           /\ Lacking(Digest(q))' \subseteq met'[q].lacking
           /\ At(q, "read") =>
                 /\ met[q].rewritten \subseteq met'[q].rewritten
                 /\ met[q].lacking \subseteq met'[q].lacking
                 /\ ~ met'[q].cut =>
                       ~ met[q].cut /\ \A x \in Layers : ~ Deleted(Digest(q), x)
  BY DEF Observe

LEMMA ReadStepInv ==
    ASSUME StoreInv, NEW p \in Procs, Act(p), Observe
    PROVE  ReadInv'
  <1> USE DEF StoreInv
  <1> SUFFICES ASSUME NEW q \in Procs, At(q, "read")'
               PROVE  ReadOK(q)'
    BY DEF ReadInv, ReadOK
  <1>0. Layers \subseteq Files
    BY DEF Files
  \* What q has left stays as it was before the step, or becomes what is named.
  <1>1. ASSUME NEW todo, NEW got, op'[q].digest = op[q].digest,
               op'[q].todo = todo, op'[q].got = got,
               Digest(q) \notin hurt => Layers \subseteq got \cup todo \cup met'[q].rewritten,
               ~ met'[q].cut =>
                  /\ Layers \subseteq got \cup todo \cup met'[q].lacking
                  /\ \A x \in todo \cap Layers : Written(Digest(q), x)'
        PROVE  ReadOK(q)'
    <2>1. Rewritten(Digest(q))' \subseteq met'[q].rewritten
          /\ Lacking(Digest(q))' \subseteq met'[q].lacking
      BY MetStep
    <2>2. Digest(q)' \in hurt' \/ Layers \subseteq got \cup todo \cup met'[q].rewritten
      BY <1>1, HurtStays DEF Digest
    <2> QED  BY <1>1, <2>1, <2>2 DEF ReadOK, Digest, Written
  <1>2. ASSUME op'[q].digest = op[q].digest, op[q].at = "read",
               op'[q].todo = op[q].todo, op'[q].got = op[q].got
        PROVE  ReadOK(q)'
    <2>1. At(q, "read") /\ ReadOK(q) /\ Digest(q) \in Digests
      BY <1>2 DEF ReadInv, At, DigestInv, DigestOK
    <2>2. Digest(q) \notin hurt =>
             Layers \subseteq op[q].got \cup op[q].todo \cup met'[q].rewritten
      BY <2>1, MetStep DEF ReadOK
    <2>3. ASSUME ~ met'[q].cut
          PROVE  /\ Layers \subseteq op[q].got \cup op[q].todo \cup met'[q].lacking
                 /\ \A x \in op[q].todo \cap Layers : Written(Digest(q), x)'
      <3>1. /\ Layers \subseteq op[q].got \cup op[q].todo \cup met[q].lacking
            /\ \A x \in op[q].todo \cap Layers : Written(Digest(q), x)
            /\ met[q].lacking \subseteq met'[q].lacking
            /\ \A x \in Layers : ~ Deleted(Digest(q), x)
        BY <2>1, <2>3, MetStep DEF ReadOK
      <3> QED  BY <1>2, <3>1 DEF Written, Deleted, Digest
    <2> QED  BY <1>1, <1>2, <2>2, <2>3
  <1>3. CASE q # p
    BY <1>2, <1>3, OtherFields DEF At
  <1>4. CASE q = p
    <2>1. CASE ReadDir(p)
      <3>1. /\ Reading(p) /\ op'[p].digest = op[p].digest /\ file' = file
            /\ op'[p].todo = {x \in Layers : Written(Digest(p), x)}
        BY <2>1, OwnRead DEF ReadDir, Reading, At, Same
      <3>2. Digest(p) \notin hurt => \A x \in Layers : Written(Digest(p), x)
        BY <1>0, <3>1 DEF TagInv
      <3>3. \A x \in Layers : Written(Digest(p), x) \/ x \in met'[p].lacking
        <4>1. Lacking(Digest(p))' \subseteq met'[p].lacking
          BY <1>4, MetStep
        <4> QED  BY <3>1, <4>1 DEF Lacking, Written, Digest
      <3>4. \A x \in Layers : Written(Digest(p), x) => Written(Digest(p), x)'
        BY <3>1 DEF Written, Digest
      <3> QED  BY <1>1, <1>4, <3>1, <3>2, <3>3, <3>4
    <2>2. ASSUME NEW x \in Layers, ReadLayer(p, x)
          PROVE  ReadOK(q)'
      <3>1. /\ op'[p].digest = op[p].digest /\ At(p, "read") /\ file' = file /\ Reading(p)
            /\ x \in op[p].todo /\ Digest(p) \in Digests /\ ReadOK(p)
        BY <2>2, OwnRead DEF ReadLayer, At, Same, Reading, DigestInv, DigestOK, ReadInv
      <3>2. file[Digest(p)][x] \in {"none", "part", "whole"}
        BY <1>0, <3>1 DEF TypeOK
      <3>3. /\ met[p].rewritten \subseteq met'[p].rewritten
            /\ met[p].lacking \subseteq met'[p].lacking
            /\ ~ met'[p].cut => ~ met[p].cut
        BY <1>4, <3>1, MetStep
      <3>4. \A y : Written(Digest(p), y) => Written(Digest(p), y)'
        BY <3>1 DEF Written, Digest
      <3>5. op'[p].todo \subseteq op[p].todo
        BY <2>2, OwnRead
      <3>6. CASE file[Digest(p)][x] = "whole"
        <4>1. op'[p].todo = op[p].todo \ {x} /\ op'[p].got = op[p].got \cup {x}
          BY <2>2, <3>6, OwnRead
        <4> QED  BY <1>1, <1>4, <3>1, <3>3, <3>4, <4>1 DEF ReadOK
      <3>7. CASE file[Digest(p)][x] = "part"
        <4>1. op'[p].todo = op[p].todo \ {x} /\ op'[p].got = op[p].got
          BY <2>2, <3>7, OwnRead
        <4>2. x \in Lacking(Digest(p))
          BY <3>7 DEF Lacking
        <4>3. Digest(p) \notin hurt => x \in Rewritten(Digest(p))
          BY <1>0, <3>1, <3>7 DEF PartInv, Rewritten
        <4>4. Digest(p) \notin hurt =>
                 Layers \subseteq op'[p].got \cup op'[p].todo \cup met'[p].rewritten
          <5> SUFFICES ASSUME Digest(p) \notin hurt
                       PROVE  Layers \subseteq op'[p].got \cup op'[p].todo \cup met'[p].rewritten
            OBVIOUS
          <5>1. x \in met[p].rewritten
            BY <3>1, <4>3 DEF ReadOK
          <5>2. Layers \subseteq op[p].got \cup op[p].todo \cup met[p].rewritten
            BY <3>1 DEF ReadOK
          <5> QED  BY <3>3, <4>1, <5>1, <5>2
        <4>5. ASSUME ~ met'[p].cut
              PROVE  /\ Layers \subseteq op'[p].got \cup op'[p].todo \cup met'[p].lacking
                     /\ \A y \in op'[p].todo \cap Layers : Written(Digest(p), y)'
          <5>1. x \in met[p].lacking
            BY <3>1, <4>2 DEF ReadOK
          <5>2. /\ Layers \subseteq op[p].got \cup op[p].todo \cup met[p].lacking
                /\ \A y \in op[p].todo \cap Layers : Written(Digest(p), y)
            BY <3>1, <3>3, <4>5 DEF ReadOK
          <5> QED  BY <3>3, <3>4, <4>1, <5>1, <5>2
        <4> QED  BY <1>1, <1>4, <3>1, <4>4, <4>5
      <3>8. CASE file[Digest(p)][x] = "none"
        <4>1. Digest(p) \in hurt
          BY <1>0, <3>1, <3>8 DEF TagInv, Written
        <4>2. met[p].cut
          BY <3>1, <3>8 DEF ReadOK, Written
        <4> QED  BY <1>1, <1>4, <3>1, <3>3, <4>1, <4>2
      <3> QED  BY <3>2, <3>6, <3>7, <3>8
    <2>3. CASE ReadConfig(p) \/ ReadEnd(p) \/ Crash(p) \/ Calls(p)
      BY <1>4, <2>3, OwnGoto, OwnEnd, OwnNew DEF ReadConfig, ReadEnd, Crash, At
    <2>4. CASE SaveStep(p)
      <3>1. ~ WriteFile(p)
        BY <1>4, OwnWriteFile DEF WriteFile, OpenInv, OpenOK, At
      <3>2. \A y \in Files : ~ OpenFile(p, y)
        BY <1>4, OwnOpenFile DEF OpenFile, Writable, At
      <3> QED  BY <1>4, <2>4, <3>1, <3>2, OwnMakeLayersDir, OwnGoto, OwnEnd
               DEF SaveStep, NoDirectory, LinkTag, UnlinkTag, At
    <2>5. CASE DeleteStep(p)
      <3>1. \A y \in Files : ~ RmFile(p, y)
        BY <1>4, OwnDelete DEF At
      <3>2. ~ RmLayersDir(p) /\ ~ RmDir(p)
        BY <1>4, OwnLeave DEF RmLayersDir, RmDir, At
      <3>3. ~ Untag(p) /\ ~ ResolveDir(p) /\ \A d \in Digests : ~ PruneVisit(p, d)
        BY <1>4, OwnDelete, OwnEnd DEF At
      <3>4. \A t \in Tags : ~ Scan(p, t)
        BY <1>4, OwnDelete, OwnLeave DEF At
      <3> QED  BY <1>4, <2>5, <3>1, <3>2, <3>3, <3>4, OwnGoto, OwnEnd
               DEF DeleteStep, PruneEnd, ScanEnd, At
    <2> QED  BY <2>1, <2>2, <2>3, <2>4, <2>5 DEF Act, ReadStep
  <1> QED  BY <1>3, <1>4

LEMMA HeldStep ==
    ASSUME StoreInv, NEW p \in Procs, Act(p), Observe
    PROVE  HeldInv'
  <1> USE DEF StoreInv
  <1> SUFFICES ASSUME NEW q \in Procs
               PROVE  /\ op'[q].at = "scan" => held'[q] \subseteq op'[q].todo
                      /\ op'[q].at = "rm" => held'[q] = {}
    BY DEF HeldInv, At
  <1>0. Deleting(q) /\ Deleting(q)' => held'[q] = held[q] \cap LeadingTo(Digest(q))'
    BY DEF Observe
  <1>1. ASSUME op'[q].at = op[q].at, op'[q].todo = op[q].todo
        PROVE  /\ op'[q].at = "scan" => held'[q] \subseteq op'[q].todo
               /\ op'[q].at = "rm" => held'[q] = {}
    BY <1>0, <1>1 DEF HeldInv, Deleting, At
  <1>2. CASE q # p
    BY <1>1, <1>2, OtherFields
  <1>3. CASE q = p
    <2>1. CASE ResolveDir(p)
      <3>1. /\ op'[p].at = "scan" /\ op'[p].digest = op[p].digest
            /\ op'[p].todo = IF dirs[Digest(p)] = "none" THEN {} ELSE Tags
        BY <2>1, OwnDelete DEF Same
      <3>2. held'[p] = LeadingTo(Digest(p))'
        BY <2>1, <3>1 DEF Observe, Deleting, ResolveDir, At
      <3>3. LeadingTo(Digest(p))' \subseteq IF dirs[Digest(p)] = "none" THEN {} ELSE Tags
        BY <2>1, <3>1 DEF LeadingTo, Resolves, Digest, ResolveDir
      <3> QED  BY <1>3, <3>1, <3>2, <3>3
    <2>2. ASSUME NEW t \in Tags, Scan(p, t)
          PROVE  /\ op'[q].at = "scan" => held'[q] \subseteq op'[q].todo
                 /\ op'[q].at = "rm" => held'[q] = {}
      <3>1. CASE Leave(p)
        BY <1>3, <3>1, OwnLeave
      <3>2. CASE /\ ~ (tag[t] = Digest(p) /\ Resolves(t))
                 /\ Same(p) /\ op'[p].at = "scan" /\ op'[p].todo = op[p].todo \ {t}
        <4>1. t \notin LeadingTo(Digest(p))'
          BY <2>2, <3>2 DEF LeadingTo, Resolves, Digest, Scan, Same
        <4>2. held[p] \subseteq op[p].todo
          BY <2>2 DEF HeldInv, Scan
        <4> QED  BY <1>0, <1>3, <2>2, <3>2, <4>1, <4>2 DEF Deleting, Scan, At
      <3> QED  BY <2>2, <3>1, <3>2, OwnDelete
    <2>3. CASE ScanEnd(p)
      <3>1. op'[p].at = "rm"
        BY <2>3, OwnGoto DEF ScanEnd
      <3> QED  BY <1>0, <1>3, <2>3, <3>1 DEF HeldInv, ScanEnd, Deleting, At
    <2>4. ASSUME NEW x \in Files, RmFile(p, x)
          PROVE  op'[q].at = "rm" /\ held'[q] = {}
      <3>1. op'[p].at = "rm" /\ op[p].at = "rm"
        BY <2>4, OwnDelete DEF RmFile, At
      <3> QED  BY <1>0, <1>3, <3>1 DEF HeldInv, Deleting, At
    <2>5. CASE RmLayersDir(p)
      BY <1>1, <1>3, <2>5 DEF RmLayersDir
    <2>6. CASE RmDir(p) \/ PruneEnd(p) \/ Untag(p) \/ (\E d \in Digests : PruneVisit(p, d))
      BY <1>3, <2>6, OwnLeave, OwnEnd, OwnDelete DEF RmDir, PruneEnd
    <2>7. CASE Calls(p) \/ ReadStep(p) \/ Crash(p)
      BY <1>3, <2>7, OwnNew, OwnRead, OwnGoto, OwnEnd DEF ReadStep, ReadConfig, ReadEnd, Crash
    <2>8. CASE SaveStep(p)
      <3>1. CASE WriteFile(p)
        BY <1>3, <3>1, OwnWriteFile DEF WriteFile, OpenInv, OpenOK, At
      <3>2. CASE \E y \in Files : OpenFile(p, y)
        BY <1>3, <3>2, OwnOpenFile DEF OpenFile, Writable, At
      <3> QED  BY <1>3, <2>8, <3>1, <3>2, OwnMakeLayersDir, OwnGoto, OwnEnd
               DEF SaveStep, NoDirectory, LinkTag, UnlinkTag
    <2> QED  BY <2>1, <2>2, <2>3, <2>4, <2>5, <2>6, <2>7, <2>8 DEF Act, DeleteStep
  <1> QED  BY <1>2, <1>3

-----------------------------------------------------------------------------
(* The theorems. *)

\* The invariant holds in every reachable state.
THEOREM StoreInvariant == Spec => []StoreInv
  <1>1. StoreInv /\ [Next]_vars => StoreInv'
    <2>1. ASSUME StoreInv, NEW p \in Procs, Act(p), Observe
          PROVE  StoreInv'
      <3>1. TypeOK'
        BY <2>1, TypeStep DEF StoreInv, Next, Act
      <3> QED  BY <2>1, <3>1, DigestStep, OpenStep, PlaceStep, PartStep, SaveStepInv,
                  TagInvStep, ReadStepInv, HeldStep DEF StoreInv
    <2>2. ASSUME StoreInv, UNCHANGED vars
          PROVE  StoreInv'
      BY <2>2 DEF vars, StoreInv, TypeOK, DigestInv, DigestOK, OpenInv, OpenOK, PlaceInv,
           HasPlace, PartInv, SaveInv, TagInv, ReadInv, ReadOK, Rewritten, Lacking,
           HeldInv, Written, Digest, At, Saving, Reading
    <2> QED  BY <2>1, <2>2 DEF Next, Act
  <1> QED  BY <1>1, InitInv, PTL DEF Spec

\* Every state of the store, and every call, has its type.
THEOREM StoreTypeOK == Spec => []TypeOK
  <1>1. StoreInv => TypeOK
    BY DEF StoreInv
  <1> QED  BY <1>1, StoreInvariant, PTL

\* A ref leads to a whole image, unless the image was hurt or is being saved
\* (save links last; remove and prune look for refs first).
THEOREM RefsLeadToWholeImages == Spec => []TagsWhole
  <1>1. StoreInv => TagsWhole
    <2> SUFFICES ASSUME StoreInv, NEW t \in Tags, tag[t] \notin hurt \cup {NoDigest},
                        \A p \in Procs : ~ Saving(p, tag[t])
                 PROVE  Whole(tag[t])
      BY DEF TagsWhole
    <2>0. PICK d \in Digests : d = tag[t]
      BY DEF StoreInv, TypeOK
    <2>1. \A x \in Files : file[d][x] # "none"
      BY <2>0 DEF StoreInv, TagInv, Written
    <2>2. \A x \in Files : file[d][x] # "part"
      BY <2>0 DEF StoreInv, PartInv
    <2>3. \A x \in Files : file[d][x] = "whole"
      BY <2>0, <2>1, <2>2 DEF StoreInv, TypeOK
    <2>4. dirs[d] = "full"
      <3>1. PICK x \in Layers : TRUE
        BY LayersAssumption
      <3>2. HasPlace(d, x)
        BY <2>1 DEF StoreInv, PlaceInv, Written, Files
      <3> QED  BY <3>2 DEF HasPlace
    <2> QED  BY <2>0, <2>3, <2>4 DEF Whole
  <1> QED  BY <1>1, StoreInvariant, PTL

\* remove and prune delete no directory to which one and the same ref has led
\* during the whole check for refs.
THEOREM HeldImagesAreKept == Spec => []HeldImageKept
  <1>1. StoreInv => HeldImageKept
    BY DEF StoreInv, HeldInv, HeldImageKept
  <1> QED  BY <1>1, StoreInvariant, PTL

\* A load misses only layers that a save had open meanwhile, or, of a hurt
\* image, that were missing or incomplete meanwhile, unless one was deleted.
THEOREM LoadsAreWhole == Spec => []LoadsWhole
  <1>1. StoreInv => LoadsWhole
    BY DEF StoreInv, ReadInv, ReadOK, LoadsWhole
  <1> QED  BY <1>1, StoreInvariant, PTL

=============================================================================
