-------------------------- MODULE HostPluginProofs --------------------------
(***************************************************************************)
(* What file-serve and portal-notify keep, for any number of files,        *)
(* clients, requests, calls, members and retries: no answer announces half *)
(* a file or breaks its word, nobody is refused who has not asked too      *)
(* often, a directory that nothing will reach is left only by a process    *)
(* that ended or a removal that failed, and a member gets a notice once.   *)
(***************************************************************************)
EXTENDS FileServe, PortalNotify, FiniteSetTheorems, SequenceTheorems, TLAPS

-----------------------------------------------------------------------------
(* file-serve: types.                                                      *)

Parts == {"none", "part", "whole"}

Dir == [dir : BOOLEAN, file : Parts, meta : Parts, createdAt : Nat]

Bucket == [client : Clients, count : Nat, resetAt : Nat]

Request ==
    [step : {"none", "meta", "stat", "open", "429", "404", "410", "served", "cut",
             "short", "broken"},
     client : Clients \cup {NoClient}, uuid : Uuids \cup {NoRequest.uuid},
     at : Nat, expires : Nat]

ServeTypes ==
    /\ now \in Nat
    /\ disk \in [Uuids -> Dir]
    /\ save \in [Uuids -> {"new", "copy", "copying", "meta", "writing", "sent",
                           "rollback", "blocked"}]
    /\ buckets \in Seq(Bucket)
    /\ asked \in Seq([client : Clients, at : Nat])
    /\ request \in Request
    /\ cleanup \in [step : {"none", "next", "rm"}, todo : SUBSET Uuids,
                   removing : SUBSET Uuids]
    /\ cleanup.step # "rm" => cleanup.removing = {}
    /\ \A u, v \in cleanup.removing : u = v

Expired(u) == disk[u].createdAt + Ttl <= now

\* What is on the disk at each place of a save; after it only the cleanup takes
\* something away, and only what has expired.
FileInv(u) ==
    /\ ~disk[u].dir => disk[u] = NoDir
    /\ save[u] = "new" => ~disk[u].dir
    /\ save[u] \in {"copy", "copying", "meta", "writing"} => disk[u].dir
    /\ save[u] \in {"meta", "writing"} => disk[u].file = "whole"
    /\ save[u] # "sent" => disk[u].meta # "whole" /\ u \notin cleanup.removing
    /\ save[u] = "blocked" /\ disk[u].dir => u \in hurt
    /\ save[u] = "sent" => disk[u].file # "part" /\ disk[u].meta # "part"
    /\ save[u] = "sent" /\ disk[u].dir /\ (disk[u].file = "none" \/ disk[u].meta = "none") =>
          Expired(u) /\ (u \in cleanup.removing \/ u \in hurt)
    /\ u \in cleanup.removing /\ disk[u].dir => Expired(u)

\* A file that is being answered was sent; it is gone only if it has expired.
RequestInv ==
    /\ request.step = "meta" => request.uuid \in Uuids
    /\ request.step \in {"stat", "open"} =>
          /\ request.uuid \in Uuids /\ save[request.uuid] = "sent"
          /\ request.expires \in Nat
          /\ disk[request.uuid].dir =>
                request.expires = disk[request.uuid].createdAt + Ttl
          /\ ~disk[request.uuid].dir => now >= request.expires
    /\ request.step = "cut" => request.expires \in Nat /\ now >= request.expires
    /\ request.step # "short"

\* The requests of a client since a time.
Since(client, at) ==
    {i \in DOMAIN asked : asked[i].client = client /\ asked[i].at >= at}

\* An entry counts no more than the requests of its client in its window.
Covered(entry) ==
    /\ entry.resetAt - windowMs <= now
    /\ entry.count <= Cardinality(Since(entry.client, entry.resetAt - windowMs))

BucketInv ==
    /\ \A i \in DOMAIN buckets : Covered(buckets[i])
    /\ request.step = "429" => maxRequests < Cardinality(Recent)

FilesInv == \A u \in Uuids : FileInv(u)

ServeInv == ServeTypes /\ FilesInv /\ RequestInv /\ BucketInv

-----------------------------------------------------------------------------
LEMMA RemainsEffect ==
    ASSUME NEW d \in Dir, NEW e \in Remains(d), d.dir
    PROVE  /\ e \in Dir
           /\ \/ e = NoDir /\ d.file = "none" /\ d.meta = "none"
              \/ e.dir /\ e.createdAt = d.createdAt
                 /\ \/ e.file = "none" /\ e.meta = d.meta
                    \/ e.meta = "none" /\ e.file = d.file
<1> DEFINE entries == {x \in {"file", "meta"} : d[x] # "none"}
<1>1. CASE entries = {}
  <2>1. e = NoDir
    BY <1>1 DEF Remains
  <2>2. d["file"] = "none" /\ d["meta"] = "none"
    BY <1>1
  <2>. QED
    BY <2>1, <2>2 DEF Dir, NoDir, Parts
<1>2. CASE entries # {}
  <2>1. PICK x \in entries : e = [d EXCEPT ![x] = "none"]
    BY <1>2 DEF Remains
  <2>2. CASE x = "file"
    <3>1. e = [d EXCEPT !.file = "none"]
      BY <2>1, <2>2
    <3>. QED
      BY <3>1 DEF Dir, Parts
  <2>3. CASE x = "meta"
    <3>1. e = [d EXCEPT !.meta = "none"]
      BY <2>1, <2>3
    <3>. QED
      BY <3>1 DEF Dir, Parts
  <2>. QED
    BY <2>2, <2>3
<1>. QED
  BY <1>1, <1>2

\* A directory that a step leaves alone.
LEMMA FileKept ==
    ASSUME ServeTypes, NEW u \in Uuids, FileInv(u),
           disk'[u] = disk[u], save'[u] = save[u],
           u \in cleanup'.removing <=> u \in cleanup.removing,
           hurt \subseteq hurt', now' \in Nat, now <= now'
    PROVE  FileInv(u)'
<1>1. disk[u].createdAt \in Nat /\ Ttl \in Nat /\ now \in Nat
  BY ServeAssumption DEF ServeTypes, Dir
<1>2. Expired(u) => Expired(u)'
  BY <1>1 DEF Expired
<1>. QED
  BY <1>2 DEF FileInv

\* A request that a step leaves alone.
LEMMA RequestKept ==
    ASSUME ServeTypes, RequestInv, UNCHANGED request, now' \in Nat, now <= now',
           request.step \in {"stat", "open"} =>
              /\ save'[request.uuid] = save[request.uuid]
              /\ \/ disk'[request.uuid] = disk[request.uuid]
                 \/ disk'[request.uuid].dir
                    /\ disk'[request.uuid].createdAt = disk[request.uuid].createdAt
                    /\ disk[request.uuid].dir
                 \/ now >= request.expires /\ ~disk'[request.uuid].dir
    PROVE  RequestInv'
BY DEF ServeTypes, RequestInv

LEMMA CoveredKept ==
    ASSUME ServeTypes, NEW e \in Bucket, Covered(e), UNCHANGED asked, now' \in Nat, now <= now'
    PROVE  Covered(e)'
<1>1. e.resetAt - windowMs \in Int /\ now \in Nat
  BY ServeAssumption DEF ServeTypes, Bucket
<1>2. Since(e.client, e.resetAt - windowMs)' = Since(e.client, e.resetAt - windowMs)
  BY DEF Since
<1>. QED
  BY <1>1, <1>2 DEF Covered

LEMMA BucketKept ==
    ASSUME ServeTypes, BucketInv, UNCHANGED <<buckets, asked>>, now' \in Nat, now <= now',
           request' = request \/ request'.step # "429"
    PROVE  BucketInv'
<1>1. \A i \in DOMAIN buckets' : Covered(buckets[i])'
  <2>1. SUFFICES ASSUME NEW i \in DOMAIN buckets PROVE Covered(buckets[i])'
    OBVIOUS
  <2>2. PICK e \in Bucket : e = buckets[i]
    BY DEF ServeTypes
  <2>3. Covered(e)'
    BY <2>2, CoveredKept DEF BucketInv
  <2>. QED
    BY <2>2, <2>3 DEF Covered, Since
<1>2. request'.step = "429" => maxRequests < Cardinality(Recent')
  BY DEF BucketInv, Recent
<1>. QED
  BY <1>1, <1>2 DEF BucketInv

-----------------------------------------------------------------------------
(* The hook. *)

\* A step of the hook changes what it saves, and nothing that has been sent.
LEMMA SaveAction ==
    ASSUME ServeInv, NEW u \in Uuids, NEW d \in Dir,
           NEW to \in {"copy", "copying", "meta", "writing", "sent", "rollback", "blocked"},
           disk' = [disk EXCEPT ![u] = d], save' = [save EXCEPT ![u] = to],
           UNCHANGED <<now, buckets, request, cleanup, asked>>,
           save[u] # "sent", hurt \subseteq hurt', FileInv(u)'
    PROVE  ServeInv'
<1>1. ServeTypes'
  BY DEF ServeInv, ServeTypes
<1>2. now' \in Nat /\ now <= now'
  BY DEF ServeInv, ServeTypes
<1>3. ASSUME NEW v \in Uuids, v # u
      PROVE  FileInv(v)'
  <2>1. disk'[v] = disk[v] /\ save'[v] = save[v]
    BY <1>3 DEF ServeInv, ServeTypes
  <2>. QED
    BY <1>2, <2>1, FileKept DEF ServeInv, FilesInv
<1>4. RequestInv'
  <2>1. request.step \in {"stat", "open"} => /\ save'[request.uuid] = save[request.uuid]
                                             /\ disk'[request.uuid] = disk[request.uuid]
    BY DEF ServeInv, ServeTypes, RequestInv
  <2>. QED
    BY <1>2, <2>1, RequestKept DEF ServeInv
<1>5. BucketInv'
  BY <1>2, BucketKept DEF ServeInv
<1>. QED
  BY <1>1, <1>3, <1>4, <1>5 DEF ServeInv, FilesInv

LEMMA SaveKeeps ==
    ASSUME ServeInv, NEW u \in Uuids,
           \/ Mkdir(u) \/ CopyStarts(u) \/ CopyEnds(u) \/ MetaStarts(u) \/ MetaEnds(u)
    PROVE  ServeInv'
<1>1. disk[u] \in Dir /\ FileInv(u) /\ now \in Nat
      /\ disk \in [Uuids -> Dir]
      /\ save \in [Uuids -> {"new", "copy", "copying", "meta", "writing", "sent",
                             "rollback", "blocked"}]
  BY DEF ServeInv, ServeTypes, FilesInv
<1>2. UNCHANGED <<now, buckets, request, cleanup, asked, hurt>>
  BY DEF Mkdir, CopyStarts, CopyEnds, MetaStarts, MetaEnds, SaveStep
<1>3. CASE Mkdir(u)
  <2> DEFINE d == [disk[u] EXCEPT !.dir = TRUE]
  <2>1. save[u] = "new" /\ save' = [save EXCEPT ![u] = "copy"] /\ disk' = [disk EXCEPT ![u] = d]
    BY <1>1, <1>3 DEF Mkdir, SaveStep
  <2>2. d \in Dir /\ d.dir /\ d.meta = disk[u].meta
    BY <1>1 DEF Dir
  <2> HIDE DEF d
  <2>3. FileInv(u)'
    BY <1>1, <1>2, <2>1, <2>2 DEF FileInv
  <2>. QED
    BY <1>2, <2>1, <2>2, <2>3, SaveAction
<1>4. CASE CopyStarts(u)
  <2> DEFINE d == [disk[u] EXCEPT !.file = "part"]
  <2>1. save[u] = "copy" /\ save' = [save EXCEPT ![u] = "copying"]
        /\ disk' = [disk EXCEPT ![u] = d]
    BY <1>1, <1>4 DEF CopyStarts, SaveStep
  <2>2. d \in Dir /\ d.dir = disk[u].dir /\ d.meta = disk[u].meta
    BY <1>1 DEF Dir, Parts
  <2> HIDE DEF d
  <2>3. FileInv(u)'
    BY <1>1, <1>2, <2>1, <2>2 DEF FileInv
  <2>. QED
    BY <1>2, <2>1, <2>2, <2>3, SaveAction
<1>5. CASE CopyEnds(u)
  <2> DEFINE d == [disk[u] EXCEPT !.file = "whole"]
  <2>1. save[u] = "copying" /\ save' = [save EXCEPT ![u] = "meta"]
        /\ disk' = [disk EXCEPT ![u] = d]
    BY <1>1, <1>5 DEF CopyEnds, SaveStep
  <2>2. d \in Dir /\ d.dir = disk[u].dir /\ d.meta = disk[u].meta /\ d.file = "whole"
    BY <1>1 DEF Dir, Parts
  <2> HIDE DEF d
  <2>3. FileInv(u)'
    BY <1>1, <1>2, <2>1, <2>2 DEF FileInv
  <2>. QED
    BY <1>2, <2>1, <2>2, <2>3, SaveAction
<1>6. CASE MetaStarts(u)
  <2> DEFINE d == [disk[u] EXCEPT !.meta = "part", !.createdAt = now]
  <2>1. save[u] = "meta" /\ save' = [save EXCEPT ![u] = "writing"]
        /\ disk' = [disk EXCEPT ![u] = d]
    BY <1>1, <1>6 DEF MetaStarts, SaveStep
  <2>2. d \in Dir /\ d.dir = disk[u].dir /\ d.meta = "part" /\ d.file = disk[u].file
    BY <1>1 DEF Dir, Parts
  <2> HIDE DEF d
  <2>3. FileInv(u)'
    BY <1>1, <1>2, <2>1, <2>2 DEF FileInv
  <2>. QED
    BY <1>2, <2>1, <2>2, <2>3, SaveAction
<1>7. CASE MetaEnds(u)
  <2> DEFINE d == [disk[u] EXCEPT !.meta = "whole"]
  <2>1. save[u] = "writing" /\ save' = [save EXCEPT ![u] = "sent"]
        /\ disk' = [disk EXCEPT ![u] = d]
    BY <1>1, <1>7 DEF MetaEnds, SaveStep
  <2>2. d \in Dir /\ d.dir = disk[u].dir /\ d.meta = "whole" /\ d.file = disk[u].file
    BY <1>1 DEF Dir, Parts
  <2> HIDE DEF d
  <2>3. FileInv(u)'
    BY <1>1, <1>2, <2>1, <2>2 DEF FileInv
  <2>. QED
    BY <1>2, <2>1, <2>2, <2>3, SaveAction
<1>. QED
  BY <1>3, <1>4, <1>5, <1>6, <1>7

LEMMA SaveFailsKeeps ==
    ASSUME ServeInv, NEW u \in Uuids, SaveFails(u)
    PROVE  ServeInv'
<1>1. PICK step \in {"copy", "copying", "meta", "writing"} : SaveStep(u, step, "rollback")
  BY DEF SaveFails
<1>2. disk[u] \in Dir /\ FileInv(u)
  BY DEF ServeInv, ServeTypes, FilesInv
<1>3. /\ save[u] = step /\ save' = [save EXCEPT ![u] = "rollback"]
      /\ disk' = [disk EXCEPT ![u] = disk[u]]
      /\ UNCHANGED <<disk, now, buckets, request, cleanup, asked, hurt>>
  BY <1>1 DEF SaveFails, SaveStep, ServeInv, ServeTypes
<1>4. save'[u] = "rollback"
  BY <1>3 DEF ServeInv, ServeTypes
<1>5. FileInv(u)'
  BY <1>2, <1>3, <1>4 DEF FileInv
<1>. QED
  BY <1>2, <1>3, <1>5, SaveAction

LEMMA RollbackKeeps ==
    ASSUME ServeInv, NEW u \in Uuids, Rollback(u)
    PROVE  ServeInv'
<1>1. disk[u] \in Dir /\ FileInv(u) /\ disk \in [Uuids -> Dir]
      /\ save \in [Uuids -> {"new", "copy", "copying", "meta", "writing", "sent",
                             "rollback", "blocked"}]
  BY DEF ServeInv, ServeTypes, FilesInv
<1>2. save[u] = "rollback" /\ UNCHANGED <<now, buckets, request, cleanup, asked>>
  BY DEF Rollback, SaveStep
<1>3. CASE disk[u].dir /\ save' = [save EXCEPT ![u] = "rollback"] /\ UNCHANGED hurt
           /\ \E d \in Remains(disk[u]) : disk' = [disk EXCEPT ![u] = d]
  <2>1. PICK d \in Remains(disk[u]) : disk' = [disk EXCEPT ![u] = d]
    BY <1>3
  <2>2. /\ d \in Dir
        /\ \/ d = NoDir
           \/ d.dir /\ (d.meta = "none" \/ d.meta = disk[u].meta)
    BY <1>1, <1>3, <2>1, RemainsEffect
  <2>3. disk'[u] = d /\ save'[u] = "rollback"
    BY <1>1, <1>3, <2>1
  <2>4. FileInv(u)'
    BY <1>1, <1>2, <1>3, <2>2, <2>3 DEF FileInv, NoDir
  <2>. QED
    BY <1>2, <1>3, <2>1, <2>2, <2>4, SaveAction
<1>4. CASE /\ save' = [save EXCEPT ![u] = "blocked"] /\ UNCHANGED disk
           /\ (~disk[u].dir /\ UNCHANGED hurt) \/ hurt' = hurt \cup {u}
  <2>1. save'[u] = "blocked" /\ disk' = [disk EXCEPT ![u] = disk[u]]
    BY <1>1, <1>4
  <2>2. FileInv(u)'
    BY <1>1, <1>2, <1>4, <2>1 DEF FileInv
  <2>. QED
    BY <1>1, <1>2, <1>4, <2>1, <2>2, SaveAction
<1>. QED
  BY <1>3, <1>4 DEF Rollback, SaveStep

-----------------------------------------------------------------------------
(* Requests. *)

\* A step of the request leaves the files alone.
LEMMA RequestAction ==
    ASSUME ServeInv, UNCHANGED <<now, disk, save, buckets, cleanup, asked, hurt>>,
           request' \in Request, RequestInv', request'.step # "429"
    PROVE  ServeInv'
<1>1. ServeTypes'
  BY DEF ServeInv, ServeTypes
<1>2. FilesInv'
  BY DEF ServeInv, FilesInv, FileInv, Expired
<1>3. BucketInv'
  <2>1. now' \in Nat /\ now <= now'
    BY DEF ServeInv, ServeTypes
  <2>. QED
    BY <2>1, BucketKept DEF ServeInv
<1>. QED
  BY <1>1, <1>2, <1>3 DEF ServeInv

LEMMA AnswerFields ==
    ASSUME ServeTypes, NEW status \in {"stat", "open", "404", "410", "served", "cut", "short",
                                      "broken"}
    PROVE  /\ Answer(status) \in Request
           /\ Answer(status).step = status
           /\ Answer(status).uuid = request.uuid
           /\ Answer(status).expires = request.expires
BY DEF Answer, ServeTypes, Request

LEMMA ReadMetaKeeps ==
    ASSUME ServeInv, ReadMeta
    PROVE  ServeInv'
<1> DEFINE u == request.uuid
<1>1. /\ request.step = "meta" /\ u \in Uuids
      /\ UNCHANGED <<now, disk, save, buckets, cleanup, asked, hurt>>
  BY DEF ReadMeta, RequestStep, ServeInv, RequestInv
<1>2. request' = CASE ~HasMeta(u) -> Answer("404")
                   [] HasMeta(u) /\ ~isWithinTtl(u) -> Answer("410")
                   [] OTHER -> [Answer("stat") EXCEPT !.expires = disk[u].createdAt + Ttl]
  BY DEF ReadMeta, RequestStep
<1>3. ServeTypes
  BY DEF ServeInv
<1>4. CASE ~HasMeta(u) \/ ~isWithinTtl(u)
  <2>1. request' \in {Answer("404"), Answer("410")}
    BY <1>2, <1>4
  <2>2. request' \in Request /\ request'.step \in {"404", "410"}
    BY <1>3, <2>1, AnswerFields
  <2>3. RequestInv'
    BY <2>2 DEF RequestInv
  <2>. QED
    BY <1>1, <2>2, <2>3, RequestAction
\* The file has been sent, and is there.
<1>5. CASE HasMeta(u) /\ isWithinTtl(u)
  <2> DEFINE expires == disk[u].createdAt + Ttl
  <2>1. request' = [Answer("stat") EXCEPT !.expires = expires]
    BY <1>2, <1>5
  <2>2. disk[u] \in Dir /\ expires \in Nat
    BY <1>1, <1>3, ServeAssumption DEF ServeTypes, Dir
  <2>3. /\ Answer("stat") \in Request /\ Answer("stat").step = "stat"
        /\ Answer("stat").uuid = u
    BY <1>3, AnswerFields
  <2>4. /\ request' \in Request /\ request'.step = "stat" /\ request'.uuid = u
        /\ request'.expires = expires
    BY <2>1, <2>2, <2>3 DEF Request
  <2>5. save[u] = "sent" /\ disk[u].dir
    BY <1>1, <1>5 DEF HasMeta, ServeInv, FilesInv, FileInv
  <2>6. RequestInv'
    BY <1>1, <2>2, <2>4, <2>5 DEF RequestInv
  <2>. QED
    BY <1>1, <2>4, <2>6, RequestAction
<1>. QED
  BY <1>4, <1>5

LEMMA StatKeeps ==
    ASSUME ServeInv, Stat
    PROVE  ServeInv'
<1>1. /\ request.step = "stat"
      /\ UNCHANGED <<now, disk, save, buckets, cleanup, asked, hurt>>
      /\ request' \in {Answer("404"), Answer("open")}
  BY DEF Stat, RequestStep
<1>2. /\ request' \in Request /\ request'.step \in {"404", "open"}
      /\ request'.uuid = request.uuid /\ request'.expires = request.expires
  BY <1>1, AnswerFields DEF ServeInv
<1>3. RequestInv'
  BY <1>1, <1>2 DEF ServeInv, RequestInv
<1>. QED
  BY <1>1, <1>2, <1>3, RequestAction

LEMMA ReadFailsKeeps ==
    ASSUME ServeInv, ReadFails
    PROVE  ServeInv'
<1>1. /\ UNCHANGED <<now, disk, save, buckets, cleanup, asked, hurt>>
      /\ request' \in {Answer("404"), Answer("broken")}
  BY DEF ReadFails, RequestStep
<1>2. request' \in Request /\ request'.step \in {"404", "broken"}
  BY <1>1, AnswerFields DEF ServeInv
<1>3. RequestInv'
  BY <1>2 DEF RequestInv
<1>. QED
  BY <1>1, <1>2, <1>3, RequestAction

\* The file is whole, unless it is gone; then it has expired.
LEMMA OpenStreamKeeps ==
    ASSUME ServeInv, OpenStream
    PROVE  ServeInv'
<1> DEFINE u == request.uuid
<1>1. /\ request.step = "open" /\ u \in Uuids /\ save[u] = "sent" /\ FileInv(u)
      /\ disk[u] \in Dir
      /\ UNCHANGED <<now, disk, save, buckets, cleanup, asked, hurt>>
  BY DEF OpenStream, RequestStep, ServeInv, RequestInv, FilesInv, ServeTypes
<1>2. request' = Answer(CASE disk[u].file = "none" -> "cut"
                          [] disk[u].file = "part" -> "short"
                          [] OTHER -> "served")
  BY DEF OpenStream, RequestStep
<1>3. CASE disk[u].file = "none"
  <2>1. request' = Answer("cut")
    BY <1>2, <1>3
  <2>2. /\ request' \in Request /\ request'.step = "cut"
        /\ request'.expires = request.expires
    BY <2>1, AnswerFields DEF ServeInv
  <2>3. request.expires \in Nat /\ now >= request.expires
    <3>1. now \in Nat /\ disk[u].createdAt \in Nat /\ Ttl \in Nat
      BY <1>1, ServeAssumption DEF ServeInv, ServeTypes, Dir
    <3>2. CASE disk[u].dir
      <4>1. Expired(u)
        BY <1>1, <1>3, <3>2 DEF FileInv
      <4>. QED
        BY <1>1, <3>1, <3>2, <4>1 DEF Expired, ServeInv, RequestInv
    <3>3. CASE ~disk[u].dir
      BY <1>1, <3>3 DEF ServeInv, RequestInv
    <3>. QED
      BY <1>1, <3>2, <3>3 DEF Dir
  <2>4. RequestInv'
    BY <1>1, <2>2, <2>3 DEF RequestInv
  <2>. QED
    BY <1>1, <2>2, <2>4, RequestAction
<1>4. CASE disk[u].file # "none"
  <2>1. disk[u].file # "part"
    BY <1>1 DEF FileInv
  <2>2. request' = Answer("served")
    BY <1>2, <1>4, <2>1
  <2>3. request' \in Request /\ request'.step = "served"
    BY <2>2, AnswerFields DEF ServeInv
  <2>4. RequestInv'
    BY <2>3 DEF RequestInv
  <2>. QED
    BY <1>1, <2>3, <2>4, RequestAction
<1>. QED
  BY <1>3, <1>4

-----------------------------------------------------------------------------
(* The rate limiter. *)

LEMMA SinceFinite ==
    ASSUME asked \in Seq([client : Clients, at : Nat]), NEW client, NEW at
    PROVE  IsFiniteSet(Since(client, at))
<1>1. IsFiniteSet(1..Len(asked))
  BY FS_Interval
<1>2. Since(client, at) \subseteq 1..Len(asked)
  BY DEF Since
<1>. QED
  BY <1>1, <1>2, FS_Subset

\* A request adds one to those of its client since any time up to now.
LEMMA SinceAsk ==
    ASSUME ServeTypes, NEW asker \in Clients,
           asked' = Append(asked, [client |-> asker, at |-> now]),
           NEW client, NEW at \in Int
    PROVE  /\ Cardinality(Since(client, at)) \in Nat
           /\ Cardinality(Since(client, at)') \in Nat
           /\ Cardinality(Since(client, at)') >= Cardinality(Since(client, at))
           /\ client = asker /\ at <= now =>
                 Cardinality(Since(client, at)') = Cardinality(Since(client, at)) + 1
<1> DEFINE before == Since(client, at)
           after == {i \in DOMAIN asked' : asked'[i].client = client /\ asked'[i].at >= at}
           next == Len(asked) + 1
           r == [client |-> asker, at |-> now]
<1>1. after = Since(client, at)'
  BY DEF Since
<1>2. /\ asked \in Seq([client : Clients, at : Nat]) /\ r \in [client : Clients, at : Nat]
      /\ now \in Nat
  BY DEF ServeTypes
<1>3. /\ DOMAIN asked' = 1..next /\ DOMAIN asked = 1..Len(asked) /\ Len(asked) \in Nat
      /\ asked'[next] = r
      /\ \A i \in 1..Len(asked) : asked'[i] = asked[i]
      /\ asked' \in Seq([client : Clients, at : Nat])
  BY <1>2
<1>4. IsFiniteSet(before)
  BY <1>2, SinceFinite
<1>5. IsFiniteSet(after)
  <2>1. IsFiniteSet(1..next)
    BY <1>3, FS_Interval
  <2>. QED
    BY <1>3, <2>1, FS_Subset
<1>6. before \subseteq after /\ next \notin before
  BY <1>3 DEF Since
<1>7. CASE client = asker /\ at <= now
  <2>1. after = before \cup {next}
    BY <1>2, <1>3, <1>7 DEF Since
  <2>. QED
    BY <1>1, <1>4, <1>5, <1>6, <2>1, FS_AddElement, FS_CardinalityType
<1>8. CASE ~(client = asker /\ at <= now)
  BY <1>1, <1>4, <1>5, <1>6, <1>8, FS_Subset, FS_CardinalityType
<1>. QED
  BY <1>7, <1>8

\* An entry after check is one from before, a new one, or one more request of
\* a window that is not over.
LEMMA CheckEffect ==
    ASSUME ServeTypes, NEW client \in Clients
    PROVE  /\ check(client)[2] \in Seq(Bucket)
           /\ \A j \in DOMAIN check(client)[2] :
                 \/ \E k \in DOMAIN buckets : check(client)[2][j] = buckets[k]
                 \/ check(client)[2][j] = NewEntry(client)
                 \/ \E k \in EntriesOf(client) :
                       /\ now < buckets[k].resetAt
                       /\ check(client)[2][j] = [client |-> client,
                                                 count |-> buckets[k].count + 1,
                                                 resetAt |-> buckets[k].resetAt]
           /\ ~check(client)[1] =>
                 \E k \in EntriesOf(client) :
                    now < buckets[k].resetAt /\ maxRequests < buckets[k].count + 1
<1>1. buckets \in Seq(Bucket) /\ now \in Nat /\ windowMs \in Nat /\ maxRequests \in Nat
      /\ MaxEntries \in Nat \ {0}
  BY ServeAssumption DEF ServeTypes
<1>2. NewEntry(client) \in Bucket
  BY <1>1 DEF NewEntry, Bucket
<1>3. CASE EntriesOf(client) = {}
  <2> DEFINE kept == IF Len(buckets) >= MaxEntries THEN Tail(buckets) ELSE buckets
  <2>1. /\ kept \in Seq(Bucket)
        /\ \A j \in DOMAIN kept : \E k \in DOMAIN buckets : kept[j] = buckets[k]
    <3>1. CASE Len(buckets) >= MaxEntries
      <4>1. buckets # <<>>
        BY <1>1, <3>1
      <4>2. /\ Tail(buckets) \in Seq(Bucket)
            /\ Len(Tail(buckets)) = Len(buckets) - 1
            /\ \A i \in 1..Len(Tail(buckets)) : Tail(buckets)[i] = buckets[i + 1]
        BY <1>1, <4>1, HeadTailProperties
      <4>3. ASSUME NEW j \in DOMAIN kept
            PROVE  j + 1 \in DOMAIN buckets /\ kept[j] = buckets[j + 1]
        BY <1>1, <3>1, <4>2
      <4>. QED
        BY <3>1, <4>2, <4>3
    <3>2. CASE ~(Len(buckets) >= MaxEntries)
      BY <1>1, <3>2
    <3>. QED
      BY <3>1, <3>2
  <2>2. check(client) = <<TRUE, Append(kept, NewEntry(client))>>
    BY <1>3 DEF check
  <2> HIDE DEF kept
  <2>3. check(client)[1] /\ check(client)[2] = Append(kept, NewEntry(client))
    BY <2>2
  <2>4. \A j \in DOMAIN Append(kept, NewEntry(client)) :
           \/ j \in DOMAIN kept /\ Append(kept, NewEntry(client))[j] = kept[j]
           \/ Append(kept, NewEntry(client))[j] = NewEntry(client)
    BY <1>2, <2>1
  <2>5. Append(kept, NewEntry(client)) \in Seq(Bucket)
    BY <1>2, <2>1
  <2>. QED
    BY <2>1, <2>3, <2>4, <2>5
<1>4. CASE EntriesOf(client) # {}
  <2> DEFINE i == CHOOSE k \in EntriesOf(client) : TRUE
             count == buckets[i].count + 1
  <2>1. i \in EntriesOf(client)
    BY <1>4
  <2>2. check(client) =
           IF now >= buckets[i].resetAt
           THEN <<TRUE, [buckets EXCEPT ![i] = NewEntry(client)]>>
           ELSE <<count <= maxRequests, [buckets EXCEPT ![i].count = count]>>
    BY <1>4 DEF check
  <2> HIDE DEF i
  <2>3. i \in DOMAIN buckets /\ buckets[i] \in Bucket /\ buckets[i].client = client
    BY <1>1, <2>1 DEF EntriesOf
  <2>4. CASE now >= buckets[i].resetAt
    <3>1. check(client)[1] /\ check(client)[2] = [buckets EXCEPT ![i] = NewEntry(client)]
      BY <2>2, <2>4
    <3>. QED
      BY <1>1, <1>2, <2>3, <3>1
  <2>5. CASE ~(now >= buckets[i].resetAt)
    <3> DEFINE e == [client |-> client, count |-> buckets[i].count + 1,
                     resetAt |-> buckets[i].resetAt]
    <3>1. (check(client)[1] <=> count <= maxRequests)
          /\ check(client)[2] = [buckets EXCEPT ![i].count = count]
      <4> DEFINE allowed == count <= maxRequests
                 entries == [buckets EXCEPT ![i].count = count]
      <4>1. check(client) = <<allowed, entries>>
        BY <2>2, <2>5
      <4> HIDE DEF allowed, entries
      <4>2. check(client)[2] = entries
        BY <4>1
      <4>3. check(client)[1] = allowed
        BY <4>1
      <4>. QED
        BY <4>2, <4>3 DEF allowed, entries
    <3>2. e \in Bucket
      BY <2>3 DEF Bucket
    <3>3. [buckets EXCEPT ![i].count = count] = [buckets EXCEPT ![i] = e]
      <4>1. [buckets[i] EXCEPT !.count = count] = e
        BY <2>3 DEF Bucket
      <4>2. [buckets EXCEPT ![i].count = count]
              = [buckets EXCEPT ![i] = [buckets[i] EXCEPT !.count = count]]
        BY <1>1, <2>3
      <4>. QED
        BY <4>1, <4>2
    <3> HIDE DEF e
    <3>4. /\ [buckets EXCEPT ![i] = e] \in Seq(Bucket)
          /\ \A j \in DOMAIN [buckets EXCEPT ![i] = e] :
                j \in DOMAIN buckets
                /\ [buckets EXCEPT ![i] = e][j] = IF j = i THEN e ELSE buckets[j]
      BY <1>1, <2>3, <3>2
    <3>5. now < buckets[i].resetAt
      BY <1>1, <2>3, <2>5 DEF Bucket
    <3>6. ~(count <= maxRequests) => maxRequests < buckets[i].count + 1
      BY <1>1, <2>3 DEF Bucket
    <3>. QED
      BY <2>1, <3>1, <3>3, <3>4, <3>5, <3>6 DEF e
  <2>. QED
    BY <2>4, <2>5
<1>. QED
  BY <1>3, <1>4

\* A client is refused only if an entry of its own counts too many requests of a
\* window that is not over, and the window began after now - windowMs.
LEMMA AskKeeps ==
    ASSUME ServeInv, NEW u \in Uuids, NEW client \in Clients, Ask(client, u)
    PROVE  ServeInv'
<1>1. /\ asked' = Append(asked, [client |-> client, at |-> now])
      /\ buckets' = check(client)[2]
      /\ request' = [step |-> IF check(client)[1] THEN "meta" ELSE "429",
                     client |-> client, uuid |-> u, at |-> now, expires |-> 0]
      /\ UNCHANGED <<now, disk, save, cleanup, hurt>>
  BY DEF Ask
<1>2. ServeTypes /\ now \in Nat /\ windowMs \in Nat /\ maxRequests \in Nat
  BY ServeAssumption DEF ServeInv, ServeTypes
<1>3. /\ request'.step = IF check(client)[1] THEN "meta" ELSE "429"
      /\ request'.client = client /\ request'.uuid = u /\ request'.at = now
  BY <1>1
<1>4. request' \in Request
  BY <1>1, <1>2 DEF Request
<1>5. asked' \in Seq([client : Clients, at : Nat])
  BY <1>1, <1>2 DEF ServeTypes
<1>6. ServeTypes'
  BY <1>1, <1>2, <1>4, <1>5, CheckEffect DEF ServeTypes
<1>7. FilesInv'
  BY <1>1 DEF ServeInv, FilesInv, FileInv, Expired
<1>8. RequestInv'
  BY <1>3 DEF RequestInv
<1>9. ASSUME NEW e \in Bucket, Covered(e)
      PROVE  /\ Covered(e)'
             /\ e.client = client =>
                   e.count + 1 <= Cardinality(Since(e.client, e.resetAt - windowMs)')
  <2>1. e.resetAt - windowMs \in Int /\ e.count \in Nat
    BY <1>2 DEF Bucket
  <2>. QED
    BY <1>1, <1>2, <1>9, <2>1, SinceAsk DEF Covered
<1>10. ASSUME NEW e, e = NewEntry(client)
       PROVE  Covered(e)'
  <2>1. e.client = client /\ e.count = 1 /\ e.resetAt = now + windowMs
    BY <1>10 DEF NewEntry
  <2>2. e.resetAt - windowMs = now
    BY <1>2, <2>1
  <2>3. /\ Cardinality(Since(client, now)) \in Nat
        /\ Cardinality(Since(e.client, e.resetAt - windowMs)')
             = Cardinality(Since(client, now)) + 1
    <3>1. PICK from \in Int : from = e.resetAt - windowMs /\ from = now
      BY <1>2, <2>2
    <3>2. /\ Cardinality(Since(client, from)) \in Nat
          /\ Cardinality(Since(client, from)') = Cardinality(Since(client, from)) + 1
      BY <1>1, <1>2, <3>1, SinceAsk
    <3>. QED
      BY <2>1, <3>1, <3>2
  <2>. QED
    BY <1>1, <1>2, <2>1, <2>2, <2>3 DEF Covered
<1>11. \A j \in DOMAIN buckets' : Covered(buckets[j])'
  <2>1. SUFFICES ASSUME NEW j \in DOMAIN buckets' PROVE Covered(buckets[j])'
    OBVIOUS
  <2>2. PICK e \in Bucket : e = buckets'[j]
    BY <1>6 DEF ServeTypes
  <2>3. Covered(e)'
    <3>1. CASE \E k \in DOMAIN buckets : e = buckets[k]
      BY <1>9, <3>1 DEF ServeInv, BucketInv
    <3>2. CASE e = NewEntry(client)
      BY <1>10, <3>2
    <3>3. CASE \E k \in EntriesOf(client) :
                  /\ now < buckets[k].resetAt
                  /\ e = [client |-> client, count |-> buckets[k].count + 1,
                          resetAt |-> buckets[k].resetAt]
      <4>1. PICK k \in EntriesOf(client), f \in Bucket :
               /\ f = buckets[k] /\ f.client = client /\ Covered(f)
               /\ e = [client |-> client, count |-> f.count + 1, resetAt |-> f.resetAt]
        BY <3>3 DEF EntriesOf, ServeInv, BucketInv, ServeTypes
      <4>2. /\ Covered(f)'
            /\ f.count + 1 <= Cardinality(Since(f.client, f.resetAt - windowMs)')
        BY <1>9, <4>1
      <4>3. e.client = f.client /\ e.count = f.count + 1 /\ e.resetAt = f.resetAt
        BY <4>1
      <4>. QED
        BY <4>2, <4>3 DEF Covered
    <3>. QED
      BY <1>1, <1>2, <2>1, <2>2, <3>1, <3>2, <3>3, CheckEffect
  <2>. QED
    BY <2>2, <2>3 DEF Covered, Since
<1>12. (request.step = "429" => maxRequests < Cardinality(Recent))'
  <2>1. SUFFICES ASSUME request'.step = "429" PROVE maxRequests < Cardinality(Recent)'
    OBVIOUS
  <2>2. ~check(client)[1]
    BY <1>3, <2>1
  <2>3. PICK k \in EntriesOf(client) :
           now < buckets[k].resetAt /\ maxRequests < buckets[k].count + 1
    BY <1>2, <2>2, CheckEffect
  <2>4. PICK e \in Bucket : e = buckets[k] /\ e.client = client /\ Covered(e)
    BY <2>3 DEF EntriesOf, ServeInv, BucketInv, ServeTypes
  <2> DEFINE window == Since(client, e.resetAt - windowMs)'
             recent == {i \in DOMAIN asked' :
                           asked'[i].client = client /\ asked'[i].at > now - windowMs}
  <2>5. e.count + 1 <= Cardinality(window)
    BY <1>9, <2>4
  <2>6. recent = Recent'
    BY <1>3 DEF Recent
  <2>7. window \subseteq recent
    <3>1. e.resetAt \in Nat /\ now < e.resetAt
      BY <2>3, <2>4 DEF Bucket
    <3>2. \A i \in DOMAIN asked' : asked'[i].at \in Nat
      <4>1. \A i \in DOMAIN asked' : asked'[i] \in [client : Clients, at : Nat]
        BY <1>5, LenProperties, ElementOfSeq
      <4>. QED
        BY <4>1
    <3>. QED
      BY <1>2, <3>1, <3>2 DEF Since
  <2>8. IsFiniteSet(recent)
    <3>1. IsFiniteSet(1..Len(asked'))
      BY <1>5, FS_Interval
    <3>2. recent \subseteq 1..Len(asked')
      BY <1>5
    <3>. QED
      BY <3>1, <3>2, FS_Subset
  <2>9. Cardinality(window) \in Nat /\ Cardinality(recent) \in Nat
        /\ Cardinality(window) <= Cardinality(recent)
    BY <2>7, <2>8, FS_Subset, FS_CardinalityType
  <2> HIDE DEF window, recent
  <2>10. e.count \in Nat /\ maxRequests < e.count + 1
    BY <2>3, <2>4 DEF Bucket
  <2>11. maxRequests < Cardinality(recent)
    BY <1>2, <2>5, <2>9, <2>10
  <2>. QED
    BY <2>6, <2>11
<1>13. BucketInv'
  BY <1>11, <1>12 DEF BucketInv
<1>. QED
  BY <1>6, <1>7, <1>8, <1>13 DEF ServeInv

LEMMA CleanBucketsKeeps ==
    ASSUME ServeInv, CleanBuckets
    PROVE  ServeInv'
<1> DEFINE live == {i \in DOMAIN buckets : now < buckets[i].resetAt}
<1>1. UNCHANGED <<now, disk, save, request, cleanup, asked, hurt>>
  BY DEF CleanBuckets
<1>2. PICK place \in [1..Cardinality(live) -> live] :
         buckets' = [i \in DOMAIN place |-> buckets[place[i]]]
  BY DEF CleanBuckets
<1>3. buckets \in Seq(Bucket) /\ DOMAIN buckets = 1..Len(buckets)
  BY DEF ServeInv, ServeTypes
<1>4. Cardinality(live) \in Nat
  <2>1. IsFiniteSet(1..Len(buckets))
    BY <1>3, FS_Interval
  <2>2. live \subseteq 1..Len(buckets)
    BY <1>3
  <2>. QED
    BY <2>1, <2>2, FS_Subset, FS_CardinalityType
<1>5. \A i \in 1..Cardinality(live) : place[i] \in DOMAIN buckets
  BY <1>2
<1> HIDE DEF live
<1>6. DOMAIN buckets' = 1..Cardinality(live)
      /\ \A i \in DOMAIN buckets' : buckets'[i] = buckets[place[i]]
  BY <1>2
<1>7. buckets' \in Seq(Bucket)
  <2>1. \A i \in 1..Cardinality(live) : buckets[place[i]] \in Bucket
    BY <1>3, <1>5
  <2>2. buckets' \in [1..Cardinality(live) -> Bucket]
    BY <1>2, <2>1
  <2>. QED
    BY <1>4, <2>2, SeqDef
<1>8. ServeTypes'
  BY <1>1, <1>7 DEF ServeInv, ServeTypes
<1>9. BucketInv'
  <2>1. ASSUME NEW i \in DOMAIN buckets' PROVE Covered(buckets[i])'
    <3>1. PICK e \in Bucket : e = buckets'[i] /\ Covered(e)
      BY <1>3, <1>5, <1>6, <2>1 DEF ServeInv, BucketInv
    <3>. QED
      BY <1>1, <3>1 DEF Covered, Since
  <2>2. (request.step = "429" => maxRequests < Cardinality(Recent))'
    BY <1>1 DEF ServeInv, BucketInv, Recent
  <2>. QED
    BY <2>1, <2>2 DEF BucketInv
<1>10. FilesInv' /\ RequestInv'
  BY <1>1 DEF ServeInv, FilesInv, FileInv, Expired, RequestInv
<1>. QED
  BY <1>8, <1>9, <1>10 DEF ServeInv

-----------------------------------------------------------------------------
(* The cleanup service, time and restarts. *)

LEMMA CleanupFields ==
    ASSUME ServeTypes, NEW u \in Uuids, cleanup.step = "next"
    PROVE  LET rest == [cleanup EXCEPT !.todo = @ \ {u}]
               rm == [rest EXCEPT !.step = "rm", !.removing = {u}]
           IN /\ \A next \in {rest, rm} :
                    next \in [step : {"none", "next", "rm"}, todo : SUBSET Uuids,
                              removing : SUBSET Uuids]
              /\ rest.step = "next" /\ rest.removing = {}
              /\ rm.step = "rm" /\ rm.removing = {u}
<1> DEFINE Run == [step : {"none", "next", "rm"}, todo : SUBSET Uuids,
                   removing : SUBSET Uuids]
           rest == [cleanup EXCEPT !.todo = @ \ {u}]
           rm == [rest EXCEPT !.step = "rm", !.removing = {u}]
<1>1. cleanup \in Run /\ cleanup.removing = {}
  BY DEF ServeTypes
<1>2. rest \in Run /\ rest.step = "next" /\ rest.removing = {}
  BY <1>1
<1> HIDE DEF rest
<1>3. rm \in Run /\ rm.step = "rm" /\ rm.removing = {u}
  BY <1>2
<1>. QED
  BY <1>2, <1>3 DEF rest

\* A step of the cleanup that leaves the disk alone.
LEMMA CleanupAction ==
    ASSUME ServeInv, UNCHANGED <<now, save, buckets, request, asked, disk>>,
           cleanup' \in [step : {"none", "next", "rm"}, todo : SUBSET Uuids,
                         removing : SUBSET Uuids],
           cleanup'.step # "rm" => cleanup'.removing = {},
           \A u, v \in cleanup'.removing : u = v,
           \A u \in Uuids : FileInv(u)'
    PROVE  ServeInv'
<1>1. ServeTypes' /\ RequestInv'
  BY DEF ServeInv, ServeTypes, RequestInv
<1>2. BucketInv'
  <2>1. now' \in Nat /\ now <= now'
    BY DEF ServeInv, ServeTypes
  <2>. QED
    BY <2>1, BucketKept DEF ServeInv
<1>. QED
  BY <1>1, <1>2 DEF ServeInv, FilesInv

LEMMA ReadDirKeeps ==
    ASSUME ServeInv, ReadDir
    PROVE  ServeInv'
<1>1. /\ cleanup.step = "none" /\ UNCHANGED <<now, save, buckets, request, asked, disk, hurt>>
      /\ cleanup' = [NoCleanup EXCEPT !.step = "next", !.todo = {u \in Uuids : disk[u].dir}]
  BY DEF ReadDir, CleanupStep
<1>2. /\ cleanup' \in [step : {"none", "next", "rm"}, todo : SUBSET Uuids,
                       removing : SUBSET Uuids]
      /\ cleanup'.removing = {} /\ cleanup.removing = {}
  BY <1>1 DEF NoCleanup, ServeInv, ServeTypes
<1>3. \A u \in Uuids : FileInv(u)'
  BY <1>1, <1>2 DEF ServeInv, FilesInv, FileInv, Expired
<1>. QED
  BY <1>1, <1>2, <1>3, CleanupAction

LEMMA CleanupDoneKeeps ==
    ASSUME ServeInv, CleanupDone
    PROVE  ServeInv'
<1>1. /\ cleanup.step = "next" /\ UNCHANGED <<now, save, buckets, request, asked, disk, hurt>>
      /\ cleanup' = NoCleanup
  BY DEF CleanupDone, CleanupStep
<1>2. /\ cleanup' \in [step : {"none", "next", "rm"}, todo : SUBSET Uuids,
                       removing : SUBSET Uuids]
      /\ cleanup'.removing = {} /\ cleanup.removing = {}
  BY <1>1 DEF NoCleanup, ServeInv, ServeTypes
<1>3. \A u \in Uuids : FileInv(u)'
  BY <1>1, <1>2 DEF ServeInv, FilesInv, FileInv, Expired
<1>. QED
  BY <1>1, <1>2, <1>3, CleanupAction

\* What is to be removed has been sent, and has expired.
LEMMA InspectKeeps ==
    ASSUME ServeInv, NEW u \in Uuids, Inspect(u)
    PROVE  ServeInv'
<1> DEFINE rest == [cleanup EXCEPT !.todo = @ \ {u}]
           rm == [rest EXCEPT !.step = "rm", !.removing = {u}]
<1>1. /\ cleanup.step = "next" /\ cleanup.removing = {}
      /\ UNCHANGED <<now, save, buckets, request, asked, disk, hurt>>
      /\ cleanup' = IF HasMeta(u) /\ ~isWithinTtl(u) THEN rm ELSE rest
  BY DEF Inspect, CleanupStep, ServeInv, ServeTypes
<1>2. /\ \A next \in {rest, rm} :
            next \in [step : {"none", "next", "rm"}, todo : SUBSET Uuids,
                      removing : SUBSET Uuids]
      /\ rest.step = "next" /\ rest.removing = {}
      /\ rm.step = "rm" /\ rm.removing = {u}
  BY <1>1, CleanupFields DEF ServeInv
<1> HIDE DEF rest, rm
<1>3. CASE HasMeta(u) /\ ~isWithinTtl(u)
  <2>1. now \in Nat /\ Ttl \in Nat /\ disk[u] \in Dir
    BY ServeAssumption DEF ServeInv, ServeTypes
  <2>2. disk[u].dir /\ disk[u].meta = "whole" /\ Expired(u)
    BY <1>3, <2>1 DEF HasMeta, isWithinTtl, Expired, Dir
  <2>3. save[u] = "sent"
    BY <2>2 DEF ServeInv, FilesInv, FileInv
  <2>4. cleanup' = rm
    BY <1>1, <1>3
  <2>5. ASSUME NEW v \in Uuids PROVE FileInv(v)'
    <3>1. FileInv(v) /\ (v \in cleanup'.removing <=> v = u)
      BY <1>2, <2>4 DEF ServeInv, FilesInv
    <3>. QED
      BY <1>1, <2>2, <2>3, <3>1 DEF FileInv, Expired
  <2>. QED
    BY <1>1, <1>2, <2>4, <2>5, CleanupAction
<1>4. CASE ~(HasMeta(u) /\ ~isWithinTtl(u))
  <2>1. cleanup' = rest
    BY <1>1, <1>4
  <2>2. \A v \in Uuids : FileInv(v)'
    BY <1>1, <1>2, <2>1 DEF ServeInv, FilesInv, FileInv, Expired
  <2>. QED
    BY <1>1, <1>2, <2>1, <2>2, CleanupAction
<1>. QED
  BY <1>3, <1>4

LEMMA RemoveOneKeeps ==
    ASSUME ServeInv, NEW u \in Uuids, RemoveOne(u)
    PROVE  ServeInv'
<1>1. /\ u \in cleanup.removing /\ UNCHANGED <<now, save, buckets, request, asked>>
      /\ FileInv(u) /\ disk[u] \in Dir /\ disk \in [Uuids -> Dir]
      /\ now \in Nat /\ Ttl \in Nat
  BY ServeAssumption DEF RemoveOne, CleanupStep, ServeInv, ServeTypes, FilesInv
<1>2. save[u] = "sent"
  BY <1>1 DEF FileInv
<1>3. NextEntry \in [step : {"none", "next", "rm"}, todo : SUBSET Uuids,
                     removing : SUBSET Uuids]
      /\ NextEntry.step = "next" /\ NextEntry.removing = {}
  BY DEF NextEntry, ServeInv, ServeTypes
<1>4. \A v \in cleanup.removing : v = u
  BY <1>1 DEF ServeInv, ServeTypes
\* An entry goes; the request that reads it knows that it has expired.
<1>5. CASE /\ disk[u].dir /\ cleanup' = cleanup /\ UNCHANGED hurt
           /\ \E d \in Remains(disk[u]) : disk' = [disk EXCEPT ![u] = d]
  <2>1. PICK d \in Remains(disk[u]) : disk' = [disk EXCEPT ![u] = d]
    BY <1>5
  <2>2. /\ d \in Dir
        /\ \/ d = NoDir
           \/ /\ d.dir /\ d.createdAt = disk[u].createdAt
              /\ \/ d.file = "none" /\ d.meta = disk[u].meta
                 \/ d.meta = "none" /\ d.file = disk[u].file
    BY <1>1, <1>5, <2>1, RemainsEffect
  <2>3. Expired(u)
    BY <1>1, <1>5 DEF FileInv
  <2>4. disk'[u] = d /\ \A v \in Uuids \ {u} : disk'[v] = disk[v]
    BY <1>1, <2>1
  <2>5. FileInv(u)'
    BY <1>1, <1>2, <1>5, <2>2, <2>3, <2>4 DEF FileInv, NoDir, Expired
  <2>6. ASSUME NEW v \in Uuids, v # u PROVE FileInv(v)'
    BY <1>1, <1>5, <2>4, <2>6 DEF ServeInv, FilesInv, FileInv, Expired
  <2>7. ServeTypes'
    BY <1>1, <1>5, <2>1, <2>2 DEF ServeInv, ServeTypes
  <2>8. RequestInv'
    <3>1. CASE request.step \in {"stat", "open"} /\ request.uuid = u
      <4>1. request.expires = disk[u].createdAt + Ttl /\ now >= request.expires
        BY <1>1, <1>5, <2>3, <3>1 DEF ServeInv, RequestInv, Expired, Dir
      <4>2. d.dir => d.createdAt = disk[u].createdAt
        BY <2>2 DEF NoDir
      <4>. QED
        BY <1>1, <2>4, <3>1, <4>1, <4>2 DEF ServeInv, RequestInv
    <3>2. CASE ~(request.step \in {"stat", "open"} /\ request.uuid = u)
      BY <1>1, <2>4, <3>2 DEF ServeInv, RequestInv
    <3>. QED
      BY <3>1, <3>2
  <2>9. BucketInv'
    BY <1>1, BucketKept DEF ServeInv
  <2>. QED
    BY <2>5, <2>6, <2>7, <2>8, <2>9 DEF ServeInv, FilesInv
<1>6. CASE /\ cleanup' = NextEntry /\ UNCHANGED disk
           /\ (~disk[u].dir /\ UNCHANGED hurt) \/ hurt' = hurt \cup {u}
  <2>1. ASSUME NEW v \in Uuids PROVE FileInv(v)'
    BY <1>1, <1>2, <1>3, <1>4, <1>6 DEF ServeInv, FilesInv, FileInv, Expired
  <2>. QED
    BY <1>1, <1>3, <1>6, <2>1, CleanupAction
<1>. QED
  BY <1>5, <1>6 DEF RemoveOne, CleanupStep

LEMMA ServeTickKeeps ==
    ASSUME ServeInv, ServeTick
    PROVE  ServeInv'
<1>1. /\ now \in Nat /\ now' = now + 1
      /\ UNCHANGED <<disk, save, buckets, request, cleanup, asked, hurt>>
  BY DEF ServeTick, ServeInv, ServeTypes
<1>2. now' \in Nat /\ now <= now'
  BY <1>1
<1>3. ServeTypes'
  BY <1>1, <1>2 DEF ServeInv, ServeTypes
<1>4. FilesInv'
  BY <1>1, <1>2, FileKept DEF ServeInv, FilesInv
<1>5. RequestInv' /\ BucketInv'
  BY <1>1, <1>2, RequestKept, BucketKept DEF ServeInv
<1>. QED
  BY <1>3, <1>4, <1>5 DEF ServeInv

\* What a process that ends leaves behind is hurt.
LEMMA RestartServeKeeps ==
    ASSUME ServeInv, RestartServe
    PROVE  ServeInv'
<1>1. /\ hurt' = hurt \cup Saving \cup cleanup.removing
      /\ save' = [u \in Uuids |-> IF u \in Saving THEN "blocked" ELSE save[u]]
      /\ buckets' = <<>> /\ request' = NoRequest /\ cleanup' = NoCleanup
      /\ UNCHANGED <<now, disk, asked>>
  BY DEF RestartServe
<1>2. request' \in Request /\ request'.step = "none"
  BY <1>1 DEF NoRequest, Request
<1>3. /\ cleanup' \in [step : {"none", "next", "rm"}, todo : SUBSET Uuids,
                       removing : SUBSET Uuids]
      /\ cleanup'.removing = {} /\ cleanup'.step = "none"
  BY <1>1 DEF NoCleanup
<1>4. buckets' \in Seq(Bucket) /\ DOMAIN buckets' = {}
  BY <1>1
<1>5. ServeTypes'
  BY <1>1, <1>2, <1>3, <1>4 DEF ServeInv, ServeTypes
<1>6. ASSUME NEW u \in Uuids PROVE FileInv(u)'
  BY <1>1, <1>3 DEF Saving, ServeInv, ServeTypes, FilesInv, FileInv, Expired
<1>7. RequestInv'
  BY <1>2 DEF RequestInv
<1>8. BucketInv'
  BY <1>2, <1>4 DEF BucketInv
<1>. QED
  BY <1>5, <1>6, <1>7, <1>8 DEF ServeInv, FilesInv

-----------------------------------------------------------------------------
LEMMA ServeInvInit == ServeInit => ServeInv
<1> SUFFICES ASSUME ServeInit PROVE ServeInv
  OBVIOUS
<1>1. /\ now = 0 /\ disk = [u \in Uuids |-> NoDir] /\ save = [u \in Uuids |-> "new"]
      /\ buckets = <<>> /\ request = NoRequest /\ cleanup = NoCleanup /\ asked = <<>>
      /\ hurt = {}
  BY DEF ServeInit
<1>2. NoDir \in Dir /\ NoDir.dir = FALSE /\ NoDir.meta = "none"
  BY DEF NoDir, Dir, Parts
<1>3. request \in Request /\ request.step = "none"
  BY <1>1 DEF NoRequest, Request
<1>4. /\ cleanup \in [step : {"none", "next", "rm"}, todo : SUBSET Uuids,
                      removing : SUBSET Uuids]
      /\ cleanup.removing = {}
  BY <1>1 DEF NoCleanup
<1>5. ServeTypes
  BY <1>1, <1>2, <1>3, <1>4 DEF ServeTypes
<1>6. FilesInv
  BY <1>1, <1>2, <1>4 DEF FilesInv, FileInv
<1>7. RequestInv /\ BucketInv
  BY <1>1, <1>3 DEF RequestInv, BucketInv
<1>. QED
  BY <1>5, <1>6, <1>7 DEF ServeInv

\* What is on the disk for each save, what a request has found, and what the
\* entries of the rate limiter count, after any steps, failures and restarts.
THEOREM ServeInvariant == ServeSpec => []ServeInv
<1>1. ServeInit => ServeInv
  BY ServeInvInit
<1>2. ServeInv /\ [ServeNext]_serveVars => ServeInv'
  <2> SUFFICES ASSUME ServeInv, [ServeNext]_serveVars PROVE ServeInv'
    OBVIOUS
  <2>1. CASE UNCHANGED serveVars
    <3>1. UNCHANGED <<now, save, buckets, request, asked, disk, cleanup, hurt>>
      BY <2>1 DEF serveVars
    <3>2. \A u \in Uuids : FileInv(u)'
      BY <3>1 DEF ServeInv, FilesInv, FileInv, Expired
    <3>. QED
      BY <3>1, <3>2, CleanupAction DEF ServeInv, ServeTypes
  <2>2. CASE ServeNext
    <3>1. ASSUME NEW u \in Uuids,
                 \/ Mkdir(u) \/ CopyStarts(u) \/ CopyEnds(u) \/ MetaStarts(u) \/ MetaEnds(u)
                 \/ SaveFails(u) \/ Rollback(u) \/ Inspect(u) \/ RemoveOne(u)
          PROVE  ServeInv'
      BY <3>1, SaveKeeps, SaveFailsKeeps, RollbackKeeps, InspectKeeps, RemoveOneKeeps
    <3>2. ASSUME NEW u \in Uuids, NEW client \in Clients, Ask(client, u)
          PROVE  ServeInv'
      BY <3>2, AskKeeps
    <3>3. CASE CleanBuckets \/ ReadMeta \/ Stat \/ OpenStream \/ ReadFails
      BY <3>3, CleanBucketsKeeps, ReadMetaKeeps, StatKeeps, OpenStreamKeeps, ReadFailsKeeps
    <3>4. CASE ReadDir \/ CleanupDone \/ ServeTick \/ RestartServe
      BY <3>4, ReadDirKeeps, CleanupDoneKeeps, ServeTickKeeps, RestartServeKeeps
    <3>. QED
      BY <2>2, <3>1, <3>2, <3>3, <3>4 DEF ServeNext
  <2>. QED
    BY <2>1, <2>2
<1>. QED
  BY <1>1, <1>2, PTL DEF ServeSpec

\* No answer announces half a file, one breaks off only when its file has
\* expired, and a client is refused only after more than maxRequests requests
\* of its own in one window.
THEOREM WordKept == ServeSpec => []AnswersKept
<1>1. ServeInv => AnswersKept
  BY DEF ServeInv, RequestInv, BucketInv, AnswersKept
<1>. QED
  BY <1>1, ServeInvariant, PTL

\* A directory that nothing will reach any more is one of a process that ended,
\* or of a removal that failed.
THEOREM RemainsAreExplained == ServeSpec => []RemainsExplained
<1>1. ServeInv => RemainsExplained
  BY DEF ServeInv, ServeTypes, FilesInv, FileInv, Saving, Dir, Parts, RemainsExplained
<1>. QED
  BY <1>1, ServeInvariant, PTL

-----------------------------------------------------------------------------
(* Type correctness.                                                        *)

\* The entries of the limiter: at most as many as it may hold, one a client.
OneEach(entries) ==
    /\ Len(entries) <= MaxEntries
    /\ \A i, j \in 1..Len(entries) : entries[i].client = entries[j].client => i = j

\* What ServeTypeOK says beyond ServeInv.
ServeBounds ==
    /\ now <= MaxNow
    /\ \A u \in Uuids : disk[u].createdAt <= now
    /\ OneEach(buckets)
    /\ cleanup.step = "rm" => cleanup.removing # {}
    /\ hurt \subseteq Uuids

LEMMA UpToCardinality ==
    ASSUME NEW n \in Nat
    PROVE  IsFiniteSet(1..n) /\ Cardinality(1..n) = n
<1>1. IsFiniteSet(1..n) /\ Cardinality(1..n) = IF 1 > n THEN 0 ELSE n - 1 + 1
  BY FS_Interval
<1>. QED
  BY <1>1

LEMMA CheckKeepsOneEach ==
    ASSUME ServeTypes, OneEach(buckets), NEW client \in Clients
    PROVE  OneEach(check(client)[2])
<1>1. buckets \in Seq(Bucket) /\ MaxEntries \in Nat \ {0} /\ Len(buckets) \in Nat
      /\ DOMAIN buckets = 1..Len(buckets)
      /\ now \in Nat /\ windowMs \in Nat
  BY ServeAssumption, LenProperties DEF ServeTypes
<1>2. NewEntry(client) \in Bucket /\ NewEntry(client).client = client
  BY <1>1 DEF NewEntry, Bucket
<1>3. CASE EntriesOf(client) = {}
  <2>. DEFINE kept == IF Len(buckets) >= MaxEntries THEN Tail(buckets) ELSE buckets
              new == NewEntry(client)
              longer == Append(kept, new)
  <2>1. /\ kept \in Seq(Bucket) /\ Len(kept) \in Nat /\ Len(kept) + 1 <= MaxEntries
        /\ \E by \in {0, 1} : \A j \in 1..Len(kept) :
              j + by \in 1..Len(buckets) /\ kept[j] = buckets[j + by]
    <3>1. CASE Len(buckets) >= MaxEntries
      <4>1. buckets # <<>>
        BY <1>1, <3>1
      <4>2. /\ Tail(buckets) \in Seq(Bucket)
            /\ Len(Tail(buckets)) = Len(buckets) - 1
            /\ \A i \in 1..Len(Tail(buckets)) : Tail(buckets)[i] = buckets[i + 1]
        BY <1>1, <4>1, HeadTailProperties
      <4>3. \A j \in 1..Len(kept) : j + 1 \in 1..Len(buckets) /\ kept[j] = buckets[j + 1]
        BY <1>1, <3>1, <4>2
      <4>4. Len(kept) + 1 <= MaxEntries /\ Len(kept) \in Nat
        BY <1>1, <3>1, <4>2 DEF OneEach
      <4>. QED
        BY <3>1, <4>2, <4>3, <4>4
    <3>2. CASE ~(Len(buckets) >= MaxEntries)
      <4>1. kept = buckets
        BY <3>2
      <4>. HIDE DEF kept
      <4>2. \A j \in 1..Len(kept) : j + 0 \in 1..Len(buckets) /\ kept[j] = buckets[j + 0]
        BY <1>1, <4>1
      <4>. QED
        BY <1>1, <3>2, <4>1, <4>2
    <3>. QED
      BY <3>1, <3>2
  <2>2. check(client)[2] = longer
    BY <1>3 DEF check
  <2>. HIDE DEF kept, new
  <2>3. new \in Bucket /\ new.client = client
    BY <1>2 DEF new
  <2>4. /\ Len(longer) = Len(kept) + 1
        /\ \A j \in 1..Len(kept) : longer[j] = kept[j]
        /\ longer[Len(kept) + 1] = new
    BY <2>1, <2>3, AppendProperties
  <2>. HIDE DEF longer
  <2>5. PICK by \in {0, 1} : \A j \in 1..Len(kept) :
              j + by \in 1..Len(buckets) /\ kept[j] = buckets[j + by]
    BY <2>1
  <2>6. \A j \in 1..Len(kept) : longer[j].client # client
    BY <1>1, <1>3, <2>4, <2>5 DEF EntriesOf
  <2>7. ASSUME NEW i \in 1..Len(kept), NEW j \in 1..Len(kept), longer[i].client = longer[j].client
        PROVE  i = j
    <3>1. i + by \in 1..Len(buckets) /\ j + by \in 1..Len(buckets)
          /\ buckets[i + by].client = buckets[j + by].client
      BY <2>4, <2>5, <2>7
    <3>2. i + by = j + by
      BY <3>1 DEF OneEach
    <3>. QED
      BY <2>1, <3>2
  <2>8. ASSUME NEW i \in 1..Len(longer), NEW j \in 1..Len(longer),
               longer[i].client = longer[j].client
        PROVE  i = j
    <3>1. /\ i \in 1..Len(kept) \/ i = Len(kept) + 1
          /\ j \in 1..Len(kept) \/ j = Len(kept) + 1
      BY <2>1, <2>4
    <3>. QED
      BY <2>3, <2>4, <2>6, <2>7, <2>8, <3>1
  <2>. QED
    BY <2>1, <2>2, <2>4, <2>8 DEF OneEach
<1>4. CASE EntriesOf(client) # {}
  <2>. DEFINE i == CHOOSE k \in EntriesOf(client) : TRUE
  <2>1. i \in EntriesOf(client)
    BY <1>4
  <2>2. check(client)[2] = [buckets EXCEPT ![i] = NewEntry(client)]
        \/ check(client)[2] = [buckets EXCEPT ![i].count = buckets[i].count + 1]
    BY <1>4 DEF check
  <2>. HIDE DEF i
  <2>3. i \in 1..Len(buckets) /\ buckets[i] \in Bucket /\ buckets[i].client = client
    BY <1>1, <2>1 DEF EntriesOf
  <2>4. ASSUME NEW e \in Bucket, e.client = client
        PROVE  OneEach([buckets EXCEPT ![i] = e])
    <3>. DEFINE other == [buckets EXCEPT ![i] = e]
    <3>1. other \in Seq(Bucket) /\ Len(other) = Len(buckets)
          /\ \A j \in 1..Len(buckets) : other[j] = IF j = i THEN e ELSE buckets[j]
      BY <1>1, <2>3, <2>4, ExceptSeq
    <3>. HIDE DEF other
    <3>2. \A j \in 1..Len(buckets) : other[j].client = buckets[j].client
      BY <2>3, <2>4, <3>1
    <3>3. OneEach(other)
      BY <3>1, <3>2 DEF OneEach
    <3>. QED
      BY <3>3 DEF other
  <2>5. CASE check(client)[2] = [buckets EXCEPT ![i] = NewEntry(client)]
    BY <1>2, <2>4, <2>5
  <2>6. CASE check(client)[2] = [buckets EXCEPT ![i].count = buckets[i].count + 1]
    <3>. DEFINE e == [buckets[i] EXCEPT !.count = buckets[i].count + 1]
    <3>1. e \in Bucket /\ e.client = client
      BY <2>3 DEF Bucket
    <3>2. check(client)[2] = [buckets EXCEPT ![i] = e]
      BY <1>1, <2>3, <2>6
    <3>. HIDE DEF e
    <3>. QED
      BY <2>4, <3>1, <3>2
  <2>. QED
    BY <2>2, <2>5, <2>6
<1>. QED
  BY <1>3, <1>4

LEMMA CleanKeepsOneEach ==
    ASSUME ServeTypes, OneEach(buckets), CleanBuckets
    PROVE  OneEach(buckets')
<1>. DEFINE live == {i \in DOMAIN buckets : now < buckets[i].resetAt}
            n == Cardinality(live)
<1>1. PICK place \in [1..n -> live] :
         /\ \A i, j \in DOMAIN place : i < j => place[i] < place[j]
         /\ buckets' = [i \in DOMAIN place |-> buckets[place[i]]]
  BY DEF CleanBuckets
<1>2. buckets \in Seq(Bucket) /\ DOMAIN buckets = 1..Len(buckets) /\ Len(buckets) \in Nat
      /\ MaxEntries \in Nat
  BY ServeAssumption, LenProperties DEF ServeTypes
<1>3. n \in Nat /\ n <= Len(buckets)
  <2>1. IsFiniteSet(1..Len(buckets)) /\ Cardinality(1..Len(buckets)) = Len(buckets)
    BY <1>2, UpToCardinality
  <2>2. live \subseteq 1..Len(buckets)
    BY <1>2
  <2>3. ASSUME NEW S, S \subseteq 1..Len(buckets)
        PROVE  Cardinality(S) \in Nat /\ Cardinality(S) <= Len(buckets)
    <3>1. IsFiniteSet(S) /\ Cardinality(S) <= Cardinality(1..Len(buckets))
      BY <2>1, <2>3, FS_Subset
    <3>. QED
      BY <2>1, <3>1, FS_CardinalityType
  <2>. QED
    BY <2>2, <2>3
<1>4. \A i \in 1..n : place[i] \in 1..Len(buckets)
  BY <1>1, <1>2
<1>. HIDE DEF live, n
<1>5. /\ DOMAIN buckets' = 1..n
      /\ \A i \in 1..n : buckets'[i] = buckets[place[i]]
  BY <1>1
<1>6. Len(buckets') = n
  <2>1. \A i \in 1..n : buckets[place[i]] \in Bucket
    BY <1>2, <1>4
  <2>2. buckets' \in [1..n -> Bucket]
    BY <1>1, <2>1
  <2>3. buckets' \in Seq(Bucket)
    BY <1>3, <2>2, SeqDef
  <2>. QED
    BY <1>3, <1>5, <2>3
<1>7. ASSUME NEW i \in 1..n, NEW j \in 1..n, buckets'[i].client = buckets'[j].client
      PROVE  i = j
  <2>1. place[i] = place[j] /\ place[i] \in Int
    BY <1>4, <1>5, <1>7 DEF OneEach
  <2>2. ~(i < j) /\ ~(j < i)
    BY <1>1, <2>1
  <2>. QED
    BY <1>3, <2>2
<1>. QED
  BY <1>2, <1>3, <1>6, <1>7 DEF OneEach

LEMMA DiskKeepsTime ==
    ASSUME ServeInv, ServeBounds, NEW u \in Uuids,
           UNCHANGED now,
           \/ Mkdir(u) \/ CopyStarts(u) \/ CopyEnds(u) \/ MetaStarts(u) \/ MetaEnds(u)
           \/ Rollback(u) \/ RemoveOne(u)
    PROVE  \A v \in Uuids : disk'[v].createdAt <= now
<1>1. /\ disk \in [Uuids -> Dir] /\ disk[u] \in Dir /\ now \in Nat
      /\ \A v \in Uuids : disk[v].createdAt <= now
  BY DEF ServeInv, ServeTypes, ServeBounds
<1>2. ASSUME NEW d \in Dir, disk' = [disk EXCEPT ![u] = d], d.createdAt <= now
      PROVE  \A v \in Uuids : disk'[v].createdAt <= now
  BY <1>1, <1>2
<1>3. CASE UNCHANGED disk
  BY <1>1, <1>3
<1>4. CASE Mkdir(u)
  <2>1. disk' = [disk EXCEPT ![u] = [disk[u] EXCEPT !.dir = TRUE]]
    BY <1>1, <1>4 DEF Mkdir
  <2>2. [disk[u] EXCEPT !.dir = TRUE] \in Dir
        /\ [disk[u] EXCEPT !.dir = TRUE].createdAt <= now
    BY <1>1 DEF Dir
  <2>. QED
    BY <1>2, <2>1, <2>2
<1>5. ASSUME NEW part \in Parts,
             \/ disk' = [disk EXCEPT ![u].file = part]
             \/ disk' = [disk EXCEPT ![u].meta = part]
      PROVE  \A v \in Uuids : disk'[v].createdAt <= now
  <2>1. \/ disk' = [disk EXCEPT ![u] = [disk[u] EXCEPT !.file = part]]
        \/ disk' = [disk EXCEPT ![u] = [disk[u] EXCEPT !.meta = part]]
    BY <1>1, <1>5
  <2>2. /\ [disk[u] EXCEPT !.file = part] \in Dir
        /\ [disk[u] EXCEPT !.file = part].createdAt <= now
        /\ [disk[u] EXCEPT !.meta = part] \in Dir
        /\ [disk[u] EXCEPT !.meta = part].createdAt <= now
    BY <1>1 DEF Dir
  <2>. QED
    BY <1>2, <2>1, <2>2
<1>6. CASE CopyStarts(u) \/ CopyEnds(u) \/ MetaEnds(u)
  BY <1>5, <1>6 DEF CopyStarts, CopyEnds, MetaEnds, Parts
<1>7. CASE MetaStarts(u)
  <2>. DEFINE begun == [disk[u] EXCEPT !.meta = "part"]
              d == [begun EXCEPT !.createdAt = now]
  <2>1. disk' = [disk EXCEPT ![u] = d]
    BY <1>1, <1>7 DEF MetaStarts
  <2>2. begun \in Dir
    BY <1>1 DEF Dir, Parts
  <2>. HIDE DEF begun
  <2>3. d \in Dir /\ d.createdAt <= now
    BY <1>1, <2>2 DEF Dir
  <2>. HIDE DEF d
  <2>. QED
    BY <1>2, <2>1, <2>3
<1>8. ASSUME NEW d \in Remains(disk[u]), disk[u].dir, disk' = [disk EXCEPT ![u] = d]
      PROVE  \A v \in Uuids : disk'[v].createdAt <= now
  <2>1. d \in Dir /\ (d = NoDir \/ d.createdAt = disk[u].createdAt)
    BY <1>1, <1>8, RemainsEffect
  <2>2. NoDir.createdAt = 0
    BY DEF NoDir
  <2>. QED
    BY <1>1, <1>2, <1>8, <2>1, <2>2
<1>9. CASE Rollback(u) \/ RemoveOne(u)
  BY <1>3, <1>8, <1>9 DEF Rollback, RemoveOne
<1>. QED
  BY <1>4, <1>6, <1>7, <1>9

LEMMA BoundsKept ==
    ASSUME ServeInv, ServeBounds, ServeNext
    PROVE  ServeBounds'
<1>1. /\ now \in Nat /\ MaxNow \in Nat /\ now <= MaxNow /\ OneEach(buckets)
      /\ \A u \in Uuids : disk[u].createdAt <= now /\ disk[u].createdAt \in Nat
      /\ cleanup.step = "rm" => cleanup.removing # {}
      /\ hurt \subseteq Uuids /\ cleanup.removing \subseteq Uuids
      /\ ServeTypes
  BY ServeAssumption DEF ServeInv, ServeTypes, ServeBounds, Dir
<1>2. ASSUME NEW u \in Uuids,
             \/ Mkdir(u) \/ CopyStarts(u) \/ CopyEnds(u) \/ MetaStarts(u) \/ MetaEnds(u)
             \/ Rollback(u)
      PROVE  ServeBounds'
  <2>1. UNCHANGED <<now, buckets, cleanup>> /\ (hurt' = hurt \/ hurt' = hurt \cup {u})
    BY <1>2 DEF Mkdir, CopyStarts, CopyEnds, MetaStarts, MetaEnds, Rollback, SaveStep
  <2>2. \A v \in Uuids : disk'[v].createdAt <= now
    BY <1>2, <2>1, DiskKeepsTime
  <2>. QED
    BY <1>1, <2>1, <2>2 DEF ServeBounds
<1>3. ASSUME NEW u \in Uuids, SaveFails(u)
      PROVE  ServeBounds'
  <2>1. UNCHANGED <<now, disk, buckets, cleanup, hurt>>
    BY <1>3 DEF SaveFails, SaveStep
  <2>. QED
    BY <2>1 DEF ServeBounds
<1>4. ASSUME NEW u \in Uuids, Inspect(u)
      PROVE  ServeBounds'
  <2>. DEFINE rest == [cleanup EXCEPT !.todo = @ \ {u}]
  <2>1. /\ UNCHANGED <<now, disk, buckets, hurt>> /\ cleanup.step = "next"
        /\ cleanup' \in {[rest EXCEPT !.step = "rm", !.removing = {u}], rest}
    BY <1>4 DEF Inspect, CleanupStep
  <2>2. cleanup \in [step : {"none", "next", "rm"}, todo : SUBSET Uuids, removing : SUBSET Uuids]
    BY <1>1 DEF ServeTypes
  <2>3. cleanup'.step = "rm" => cleanup'.removing # {}
    BY <2>1, <2>2
  <2>. QED
    BY <1>1, <2>1, <2>3 DEF ServeBounds
<1>5. ASSUME NEW u \in Uuids, RemoveOne(u)
      PROVE  ServeBounds'
  <2>1. /\ UNCHANGED <<now, buckets>> /\ (hurt' = hurt \/ hurt' = hurt \cup {u})
        /\ cleanup' = cleanup \/ cleanup' = NextEntry
    BY <1>5 DEF RemoveOne, CleanupStep
  <2>2. cleanup \in [step : {"none", "next", "rm"}, todo : SUBSET Uuids, removing : SUBSET Uuids]
    BY <1>1 DEF ServeTypes
  <2>3. NextEntry.step = "next"
    BY <2>2 DEF NextEntry
  <2>4. cleanup'.step = "rm" => cleanup'.removing # {}
    BY <1>1, <2>1, <2>3
  <2>5. \A v \in Uuids : disk'[v].createdAt <= now
    BY <1>5, <2>1, DiskKeepsTime
  <2>. QED
    BY <1>1, <2>1, <2>4, <2>5 DEF ServeBounds
<1>6. ASSUME NEW u \in Uuids, NEW client \in Clients, Ask(client, u)
      PROVE  ServeBounds'
  <2>1. UNCHANGED <<now, disk, cleanup, hurt>> /\ buckets' = check(client)[2]
    BY <1>6 DEF Ask
  <2>2. OneEach(buckets')
    BY <1>1, <2>1, CheckKeepsOneEach
  <2>. QED
    BY <1>1, <2>1, <2>2 DEF ServeBounds
<1>7. CASE CleanBuckets
  <2>1. UNCHANGED <<now, disk, cleanup, hurt>>
    BY <1>7 DEF CleanBuckets
  <2>2. OneEach(buckets')
    BY <1>1, <1>7, CleanKeepsOneEach
  <2>. QED
    BY <1>1, <2>1, <2>2 DEF ServeBounds
<1>8. CASE ReadMeta \/ Stat \/ OpenStream \/ ReadFails
  <2>1. UNCHANGED <<now, disk, buckets, cleanup, hurt>>
    BY <1>8 DEF ReadMeta, Stat, OpenStream, ReadFails, RequestStep
  <2>. QED
    BY <2>1 DEF ServeBounds
<1>9. CASE CleanupDone
  <2>1. UNCHANGED <<now, disk, buckets, hurt>> /\ cleanup' = NoCleanup
    BY <1>9 DEF CleanupDone, CleanupStep
  <2>2. NoCleanup.step = "none"
    BY DEF NoCleanup
  <2>. QED
    BY <1>1, <2>1, <2>2 DEF ServeBounds
<1>12. CASE ReadDir
  <2>. DEFINE entries == {u \in Uuids : disk[u].dir}
              next == [NoCleanup EXCEPT !.step = "next"]
              listed == [next EXCEPT !.todo = entries]
  <2>1. UNCHANGED <<now, disk, buckets, hurt>> /\ cleanup' = listed
    BY <1>12 DEF ReadDir, CleanupStep
  <2>2. next \in [step : {"none", "next", "rm"}, todo : SUBSET Uuids, removing : SUBSET Uuids]
        /\ next.step = "next"
    BY DEF NoCleanup
  <2>. HIDE DEF next, entries
  <2>3. listed.step = "next"
    BY <2>2
  <2>. QED
    BY <1>1, <2>1, <2>3 DEF ServeBounds
<1>10. CASE ServeTick
  <2>1. UNCHANGED <<disk, buckets, cleanup, hurt>> /\ now' = now + 1 /\ now < MaxNow
    BY <1>10 DEF ServeTick
  <2>2. now' <= MaxNow /\ \A u \in Uuids : disk'[u].createdAt <= now'
    BY <1>1, <2>1
  <2>. QED
    BY <1>1, <2>1, <2>2 DEF ServeBounds
<1>11. CASE RestartServe
  <2>1. /\ UNCHANGED <<now, disk>> /\ buckets' = <<>> /\ cleanup'.step = "none"
        /\ hurt' \subseteq Uuids
    BY <1>1, <1>11 DEF RestartServe, NoCleanup, Saving
  <2>2. OneEach(buckets')
    BY <2>1, ServeAssumption, EmptySeq DEF OneEach
  <2>. QED
    BY <1>1, <2>1, <2>2 DEF ServeBounds
<1>. QED
  BY <1>2, <1>3, <1>4, <1>5, <1>6, <1>7, <1>8, <1>9, <1>10, <1>11, <1>12 DEF ServeNext

\* The directories, the hook, the limiter and the cleanup hold what they are
\* for: in particular the limiter has one entry for a client, and never more
\* entries than it may (checkRateLimit).
THEOREM ServeTypeCorrect == ServeSpec => []ServeTypeOK
<1>1. ServeInit => ServeBounds
  <2>. SUFFICES ASSUME ServeInit PROVE ServeBounds
    OBVIOUS
  <2>1. /\ now = 0 /\ buckets = <<>> /\ hurt = {} /\ cleanup.step = "none"
        /\ \A u \in Uuids : disk[u].createdAt = 0
    BY DEF ServeInit, NoDir, NoCleanup
  <2>2. OneEach(buckets)
    BY <2>1, ServeAssumption, EmptySeq DEF OneEach
  <2>. QED
    BY <2>1, <2>2, ServeAssumption DEF ServeBounds
<1>2. ServeInv /\ ServeBounds /\ [ServeNext]_serveVars => ServeBounds'
  <2>1. ASSUME ServeBounds, UNCHANGED serveVars PROVE ServeBounds'
    BY <2>1 DEF ServeBounds, OneEach, serveVars
  <2>. QED
    BY <2>1, BoundsKept
<1>3. ServeInv /\ ServeBounds => ServeTypeOK
  <2>. SUFFICES ASSUME ServeInv, ServeBounds PROVE ServeTypeOK
    OBVIOUS
  <2>1. /\ now \in 0..MaxNow
        /\ \A u \in Uuids : disk[u] \in Directory
    BY ServeAssumption DEF ServeInv, ServeTypes, ServeBounds, Dir, Parts, Directory
  <2>2. DOMAIN buckets = 1..Len(buckets)
    BY LenProperties DEF ServeInv, ServeTypes
  <2>3. \A u \in Uuids : ~disk[u].dir => disk[u] = NoDir
    BY DEF ServeInv, FilesInv, FileInv
  <2>4. request.step \in {"none", "meta", "stat", "open", "429", "404", "410",
                          "served", "cut", "short", "broken"}
    BY DEF ServeInv, ServeTypes, Request
  <2>5. disk \in [Uuids -> Directory]
    BY <2>1 DEF ServeInv, ServeTypes
  <2>6. cleanup.step = "rm" <=> cleanup.removing # {}
    BY DEF ServeInv, ServeTypes, ServeBounds
  <2>. QED
    BY <2>1, <2>2, <2>3, <2>4, <2>5, <2>6
       DEF ServeInv, ServeTypes, ServeBounds, OneEach, ServeTypeOK
<1>. QED
  BY <1>1, <1>2, <1>3, ServeInvariant, PTL DEF ServeSpec

-----------------------------------------------------------------------------
(* portal-notify: types.                                                   *)

Delivery == [status : {"sent", "pending", "failed"}, by : Notices]

Keys == AgentKeys \cup Notices

\* The types that the induction needs.
NotifyTypes ==
    /\ call \in [Notices -> NoticeCall]
    /\ DOMAIN portal \subseteq Keys
    /\ \A k \in DOMAIN portal : portal[k] \in [Members -> Delivery]
    /\ late \in [Notices -> Nat]
    /\ got \in [Notices -> [Members -> Nat]]

Started(n) == call[n].step # "new"

\* The requests that a call has given up so far are at most its attempts.
Attempts(n) == call[n].again * (MaxRetries + 1) + call[n].attempt

Within(n) ==
    /\ ~Started(n) => late[n] = 0 /\ call[n].again = 0 /\ call[n].attempt = 0
    /\ call[n].step \in {"ready", "waiting"} => late[n] <= Attempts(n)
    /\ call[n].step = "answered" => late[n] <= Attempts(n) + 1
    /\ late[n] <= (MaxRetries + 1) * (MaxPending + 1)

LateInv == \A n \in Notices : Within(n)

\* A call that has begun has its key.
KeyInv == \A n \in Notices : Started(n) => call[n].key \in Keys

\* A delivery is for a call with its key.
ByInv ==
    \A k \in DOMAIN portal, m \in Members :
       Started(portal[k][m].by) /\ call[portal[k][m].by].key = k

\* A message that went to a member for a call is the delivery under its key.
GotInv ==
    \A n \in Notices, m \in Members :
       got[n][m] # 0 =>
          /\ got[n][m] = 1
          /\ Started(n) /\ call[n].key \in DOMAIN portal
          /\ portal[call[n].key][m] = [status |-> "sent", by |-> n]

NotifyInv == NotifyTypes /\ LateInv /\ KeyInv /\ ByInv /\ GotInv

-----------------------------------------------------------------------------
\* What calls keep in every step of the client and of the portal.
KeptCalls ==
    /\ call' \in [Notices -> NoticeCall]
    /\ \A n \in Notices : Started(n) => Started(n)' /\ call'[n].key = call[n].key

LEMMA CountType ==
    ASSUME NEW deliveries, NEW status
    PROVE  Count(deliveries, status) \in 0..Cardinality(Members)
<1> DEFINE M == {m \in Members : deliveries[m].status = status}
<1>1. IsFiniteSet(Members)
  BY NotifyAssumption
<1>2. M \subseteq Members
  OBVIOUS
<1>3. Cardinality(M) \in Nat /\ Cardinality(M) <= Cardinality(Members)
  BY <1>1, <1>2, FS_Subset, FS_CardinalityType
<1>4. Cardinality(Members) \in Nat
  BY <1>1, FS_CardinalityType
<1>. QED
  BY <1>3, <1>4 DEF Count

LEMMA AnswersKeep ==
    ASSUME NotifyTypes, NEW n \in Notices, call[n].step = "waiting",
           NEW status \in {"200", "400", "401", "404", "410", "500", "502", "malformed"},
           NEW deliveries, Answers(n, status, deliveries)
    PROVE  /\ KeptCalls
           /\ \A c \in Notices \ {n} : call'[c] = call[c]
           /\ call'[n].step = "answered" /\ call'[n].attempt = call[n].attempt
           /\ call'[n].again = call[n].again
<1>1. /\ Count(deliveries, "sent") \in 0..Cardinality(Members)
      /\ Count(deliveries, "pending") \in 0..Cardinality(Members)
  BY CountType
<1> DEFINE answer == [status |-> status, sent |-> Count(deliveries, "sent"),
                      pending |-> Count(deliveries, "pending")]
<1>2. call' = [call EXCEPT ![n] = [call[n] EXCEPT !.step = "answered", !.answer = answer]]
  BY DEF Answers, NotifyTypes
<1>3. [call[n] EXCEPT !.step = "answered", !.answer = answer] \in NoticeCall
  BY <1>1 DEF NotifyTypes, NoticeCall, PortalAnswer
<1>. QED
  BY <1>2, <1>3 DEF NotifyTypes, NoticeCall, KeptCalls, Started

\* What the portal does for a call that has begun.
LEMMA DeliverKeeps ==
    ASSUME NotifyTypes, KeyInv, ByInv, GotInv, KeptCalls, NEW n \in Notices, Started(n),
           NEW deliveries \in [Members -> [status : {"sent", "pending", "failed"},
                                           by : Notices]],
           Deliver(n, call[n].key, deliveries)
    PROVE  /\ DOMAIN portal' \subseteq Keys
           /\ \A k \in DOMAIN portal' : portal'[k] \in [Members -> Delivery]
           /\ got' \in [Notices -> [Members -> Nat]]
           /\ ByInv' /\ GotInv'
<1> DEFINE key == call[n].key
           before(m) == StatusFor(key)[m]
<1>1. key \in Keys
  BY DEF KeyInv
<1>2. /\ DOMAIN portal' = DOMAIN portal \cup {key}
      /\ portal'[key] = deliveries
      /\ \A k \in DOMAIN portal \ {key} : portal'[k] = portal[k]
  BY DEF Deliver
<1>3. deliveries \in [Members -> Delivery]
  BY DEF Delivery
<1>4. /\ DOMAIN portal' \subseteq Keys
      /\ \A k \in DOMAIN portal' : portal'[k] \in [Members -> Delivery]
  BY <1>1, <1>2, <1>3 DEF NotifyTypes
<1>5. \A m \in Members : deliveries[m] \in Outcomes(before(m), n)
  BY DEF Deliver
<1>6. \A c \in Notices, m \in Members :
          got'[c][m] = got[c][m] + IF /\ before(m).status # "sent"
                                      /\ deliveries[m] = [status |-> "sent", by |-> c]
                                   THEN 1 ELSE 0
  BY DEF Deliver
<1>7. got' \in [Notices -> [Members -> Nat]]
  <2>1. got' = [c \in Notices |-> [m \in Members |->
                  got[c][m] + IF /\ before(m).status # "sent"
                                 /\ deliveries[m] = [status |-> "sent", by |-> c]
                              THEN 1 ELSE 0]]
    BY DEF Deliver
  <2>2. \A c \in Notices, m \in Members : got[c][m] \in Nat
    BY DEF NotifyTypes
  <2>. QED
    BY <2>1, <2>2
<1>8. \A m \in Members :
         \/ deliveries[m].by = n
         \/ /\ key \in DOMAIN portal
            /\ deliveries[m].by = portal[key][m].by
  BY <1>5 DEF Outcomes, StatusFor, Unsent
<1>9. ByInv'
  <2>1. SUFFICES ASSUME NEW k \in DOMAIN portal', NEW m \in Members
                 PROVE  /\ call'[portal'[k][m].by].step # "new"
                        /\ call'[portal'[k][m].by].key = k
    BY DEF ByInv, Started
  <2>2. CASE k = key /\ deliveries[m].by = n
    BY <1>2, <2>2 DEF KeptCalls, Started
  <2>3. CASE k \in DOMAIN portal /\ portal'[k][m].by = portal[k][m].by
    <3>1. portal[k][m].by \in Notices
      BY <2>3 DEF NotifyTypes, Delivery
    <3>2. Started(portal[k][m].by) /\ call[portal[k][m].by].key = k
      BY <2>3 DEF ByInv
    <3>. QED
      BY <2>3, <3>1, <3>2 DEF KeptCalls, Started
  <2>. QED
    BY <1>2, <1>8, <2>1, <2>2, <2>3
<1>10. GotInv'
  <2>1. SUFFICES ASSUME NEW c \in Notices, NEW m \in Members, got'[c][m] # 0
                 PROVE  /\ got'[c][m] = 1
                        /\ Started(c)' /\ call'[c].key \in DOMAIN portal'
                        /\ portal'[call'[c].key][m] = [status |-> "sent", by |-> c]
    BY DEF GotInv
  <2>2. got[c][m] \in Nat
    BY DEF NotifyTypes
  \* The call had its message: whoever has a notice is left alone.
  <2>3. CASE got[c][m] # 0
    <3>1. /\ got[c][m] = 1
          /\ Started(c) /\ call[c].key \in DOMAIN portal
          /\ portal[call[c].key][m] = [status |-> "sent", by |-> c]
      BY <2>3 DEF GotInv
    <3>2. Started(c)' /\ call'[c].key = call[c].key
      BY <3>1 DEF KeptCalls
    <3>3. CASE call[c].key = key
      <4>1. before(m) = [status |-> "sent", by |-> c]
        BY <3>1, <3>3 DEF StatusFor
      <4>2. deliveries[m] = before(m)
        BY <1>5, <4>1 DEF Outcomes
      <4>3. got'[c][m] = got[c][m]
        BY <1>6, <2>2, <4>1
      <4>. QED
        BY <1>2, <3>1, <3>2, <3>3, <4>1, <4>2, <4>3
    <3>4. CASE call[c].key # key
      <4>1. got'[c][m] = got[c][m]
        <5>1. CASE deliveries[m] = [status |-> "sent", by |-> c] /\ before(m).status # "sent"
          <6>1. deliveries[m].by = c
            BY <5>1
          <6>2. c # n
            BY <3>4
          <6>3. key \in DOMAIN portal /\ portal[key][m].by = c
            BY <1>8, <6>1, <6>2
          <6>. QED
            BY <3>4, <6>3 DEF ByInv
        <5>. QED
          BY <1>6, <2>2, <5>1
      <4>. QED
        BY <1>2, <3>1, <3>2, <3>4, <4>1
    <3>. QED
      BY <3>3, <3>4
  \* It gets its message in this step.
  <2>4. CASE got[c][m] = 0
    <3>1. before(m).status # "sent" /\ deliveries[m] = [status |-> "sent", by |-> c]
      BY <1>6, <2>1, <2>4
    <3>2. got'[c][m] = 1
      BY <1>6, <2>4, <3>1
    <3>3. Started(c) /\ call[c].key = key
      <4>1. deliveries[m].by = c
        BY <3>1
      <4>. QED
        BY <1>8, <4>1 DEF ByInv
    <3>4. Started(c)' /\ call'[c].key = key
      BY <3>3 DEF KeptCalls
    <3>. QED
      BY <1>2, <3>1, <3>2, <3>4
  <2>. QED
    BY <2>3, <2>4
<1>. QED
  BY <1>4, <1>7, <1>9, <1>10

\* The client does not touch the portal, and what it keeps of its calls keeps
\* the two properties of what has been delivered.
LEMMA ClientKeeps ==
    ASSUME NotifyTypes, ByInv, GotInv, KeptCalls, UNCHANGED <<portal, got>>
    PROVE  ByInv' /\ GotInv'
<1>1. ByInv'
  <2>1. SUFFICES ASSUME NEW k \in DOMAIN portal, NEW m \in Members
                 PROVE  /\ call'[portal[k][m].by].step # "new"
                        /\ call'[portal[k][m].by].key = k
    BY DEF ByInv, Started
  <2>2. portal[k][m].by \in Notices
    BY DEF NotifyTypes, Delivery
  <2>3. Started(portal[k][m].by) /\ call[portal[k][m].by].key = k
    BY DEF ByInv
  <2>. QED
    BY <2>2, <2>3 DEF KeptCalls, Started
<1>2. GotInv'
  BY DEF GotInv, KeptCalls
<1>. QED
  BY <1>1, <1>2

-----------------------------------------------------------------------------
(* The client. *)

LEMMA AttemptsType ==
    ASSUME NotifyTypes, NEW n \in Notices
    PROVE  Attempts(n) \in Nat
<1>1. call[n].again \in Nat /\ call[n].attempt \in Nat /\ MaxRetries \in Nat
  BY NotifyAssumption DEF NotifyTypes, NoticeCall
<1>2. call[n].again * (MaxRetries + 1) \in Nat
  BY <1>1
<1>. QED
  BY <1>1, <1>2 DEF Attempts

LEMMA Distribute ==
    ASSUME NEW x \in Nat, NEW y \in Nat, NEW z \in Nat
    PROVE  z * ((x + y) + 1) = x * z + y * z + z
OBVIOUS

\* The attempts of a call are at most those of all its rounds.
LEMMA AttemptsBound ==
    ASSUME NotifyTypes, NEW n \in Notices
    PROVE  Attempts(n) + 1 <= (MaxRetries + 1) * (MaxPending + 1)
<1> DEFINE a == call[n].again
           R == MaxRetries + 1
<1>1. a \in 0..MaxPending /\ call[n].attempt \in 0..MaxRetries
      /\ MaxRetries \in Nat /\ MaxPending \in Nat
  BY NotifyAssumption DEF NotifyTypes, NoticeCall
<1>2. PICK d \in Nat : MaxPending = a + d
  <2>1. MaxPending - a \in Nat /\ MaxPending = a + (MaxPending - a)
    BY <1>1
  <2>. QED
    BY <2>1
<1>3. R * (MaxPending + 1) = a * R + d * R + R
  <2>1. R \in Nat /\ a \in Nat
    BY <1>1
  <2>. HIDE DEF R, a
  <2>. QED
    BY <1>2, <2>1, Distribute
<1>4. d * R \in Nat /\ a * R \in Nat /\ R \in Nat /\ call[n].attempt + 1 <= R
  BY <1>1, <1>2
<1> HIDE DEF R, a
<1>5. a * R + call[n].attempt + 1 <= R * (MaxPending + 1)
  BY <1>1, <1>3, <1>4
<1>. QED
  BY <1>5 DEF Attempts, R, a

\* A step of the client: one call changes, to a record of the type that keeps
\* its key once the call has begun.
LEMMA OneCall ==
    ASSUME NotifyInv, NEW n \in Notices, NEW c \in NoticeCall,
           call' = [call EXCEPT ![n] = c],
           c.step # "new", c.key \in Keys, Started(n) => c.key = call[n].key,
           UNCHANGED <<portal, got>>,
           late' \in [Notices -> Nat], \A d \in Notices \ {n} : late'[d] = late[d],
           Within(n)'
    PROVE  NotifyInv'
<1>1. /\ KeptCalls
      /\ call'[n] = c
      /\ \A d \in Notices \ {n} : call'[d] = call[d]
  BY DEF NotifyInv, NotifyTypes, KeptCalls, Started
<1>2. NotifyTypes'
  BY <1>1 DEF NotifyInv, NotifyTypes, KeptCalls
<1>3. LateInv'
  BY <1>1 DEF NotifyInv, LateInv, Within, Attempts, Started
<1>4. KeyInv'
  BY <1>1 DEF NotifyInv, KeyInv, Started
<1>5. ByInv' /\ GotInv'
  BY <1>1, ClientKeeps DEF NotifyInv
<1>. QED
  BY <1>2, <1>3, <1>4, <1>5 DEF NotifyInv

LEMMA SendKeeps ==
    ASSUME NotifyInv, NEW n \in Notices, Send(n)
    PROVE  NotifyInv'
<1>1. PICK given \in AgentKeys \cup {"none"} :
         call' = [call EXCEPT ![n].key = idempotencyKey(n, given), ![n].step = "ready"]
  BY DEF Send
<1> DEFINE key == idempotencyKey(n, given)
           c == [call[n] EXCEPT !.key = key, !.step = "ready"]
<1>2. key \in Keys
  BY DEF idempotencyKey, Keys
<1>3. call[n] \in NoticeCall
  BY DEF NotifyInv, NotifyTypes
<1>4. c \in NoticeCall
  BY <1>2, <1>3 DEF NoticeCall, Keys
<1>5. call' = [call EXCEPT ![n] = c]
  BY <1>1 DEF NotifyInv, NotifyTypes
<1>6. /\ c.step = "ready" /\ c.key = key
      /\ c.attempt = call[n].attempt /\ c.again = call[n].again
  BY <1>3 DEF NoticeCall
<1>7. call'[n] = c
  BY <1>5 DEF NotifyInv, NotifyTypes
<1>8. ~Started(n) /\ UNCHANGED <<portal, late, got>>
  BY DEF Send, Started
<1>9. Attempts(n)' = Attempts(n)
  BY <1>6, <1>7 DEF Attempts
<1>10. Within(n)'
  <2>1. late[n] = 0
    BY <1>8 DEF NotifyInv, LateInv, Within
  <2>2. 0 <= Attempts(n) /\ late[n] <= (MaxRetries + 1) * (MaxPending + 1)
    BY AttemptsType DEF NotifyInv, LateInv, Within
  <2>. QED
    BY <1>6, <1>7, <1>8, <1>9, <2>1, <2>2 DEF Within, Started
<1> HIDE DEF c
<1>11. late' \in [Notices -> Nat]
  BY <1>8 DEF NotifyInv, NotifyTypes
<1>. QED
  BY <1>2, <1>4, <1>5, <1>6, <1>8, <1>10, <1>11, OneCall

LEMMA PostKeeps ==
    ASSUME NotifyInv, NEW n \in Notices, Post(n)
    PROVE  NotifyInv'
<1> DEFINE c == [call[n] EXCEPT !.step = "waiting"]
<1>1. call[n] \in NoticeCall /\ call[n].step = "ready"
  BY DEF NotifyInv, NotifyTypes, Post
<1>2. c \in NoticeCall /\ c.step = "waiting" /\ c.key = call[n].key
      /\ c.attempt = call[n].attempt /\ c.again = call[n].again
  BY <1>1 DEF NoticeCall
<1>3. call' = [call EXCEPT ![n] = c]
  <2>1. call' = [call EXCEPT ![n] = [call[n] EXCEPT !.step = "waiting", !.key = call[n].key]]
    BY DEF Post, KeyOfRequest, NotifyInv, NotifyTypes
  <2>2. [call[n] EXCEPT !.step = "waiting", !.key = call[n].key] = c
    BY <1>1 DEF NoticeCall
  <2>. QED
    BY <2>1, <2>2
<1>4. call'[n] = c
  BY <1>3 DEF NotifyInv, NotifyTypes
<1>5. UNCHANGED <<portal, late, got>>
  BY DEF Post
<1>6. Attempts(n)' = Attempts(n)
  BY <1>2, <1>4 DEF Attempts
<1>7. Started(n) /\ call[n].key \in Keys
  BY <1>1 DEF NotifyInv, KeyInv, Started
<1>8. Within(n)'
  BY <1>1, <1>2, <1>4, <1>5, <1>6 DEF NotifyInv, LateInv, Within, Started
<1> HIDE DEF c
<1>9. late' \in [Notices -> Nat]
  BY <1>5 DEF NotifyInv, NotifyTypes
<1>. QED
  BY <1>2, <1>3, <1>5, <1>7, <1>8, <1>9, OneCall

LEMMA NetworkErrorKeeps ==
    ASSUME NotifyInv, NEW n \in Notices, NetworkError(n)
    PROVE  NotifyInv'
<1> DEFINE c == [call[n] EXCEPT !.step = "answered", !.lost = TRUE,
                                !.answer = [NoAnswer EXCEPT !.status = "network"]]
<1>1. call[n] \in NoticeCall /\ call[n].step = "waiting"
  BY DEF NotifyInv, NotifyTypes, NetworkError
<1>2. [NoAnswer EXCEPT !.status = "network"] \in
         [status : {"network"}, sent : {0}, pending : {0}]
  BY DEF NoAnswer
<1>3. 0 \in 0..Cardinality(Members)
  BY NotifyAssumption, FS_CardinalityType
<1>4. c \in NoticeCall
  BY <1>1, <1>2, <1>3 DEF NoticeCall, PortalAnswer
<1>5. /\ c.step = "answered" /\ c.key = call[n].key
      /\ c.attempt = call[n].attempt /\ c.again = call[n].again
  BY <1>1 DEF NoticeCall
<1>6. call' = [call EXCEPT ![n] = c]
  BY DEF NetworkError, NotifyInv, NotifyTypes
<1>7. call'[n] = c
  BY <1>6 DEF NotifyInv, NotifyTypes
<1>8. Started(n) /\ call[n].key \in Keys
  BY <1>1 DEF NotifyInv, KeyInv, Started
<1>9. /\ UNCHANGED <<portal, got>>
      /\ \/ late' = [late EXCEPT ![n] = @ + 1]
         \/ late' = late
  BY DEF NetworkError
<1>10. /\ late' \in [Notices -> Nat]
       /\ \A d \in Notices \ {n} : late'[d] = late[d]
       /\ late[n] \in Nat /\ late'[n] <= late[n] + 1
  BY <1>9 DEF NotifyInv, NotifyTypes
<1>11. Attempts(n)' = Attempts(n)
  BY <1>5, <1>7 DEF Attempts
<1>12. /\ late[n] <= Attempts(n) /\ Attempts(n) \in Nat
       /\ Attempts(n) + 1 <= (MaxRetries + 1) * (MaxPending + 1)
  BY <1>1, AttemptsType, AttemptsBound DEF NotifyInv, LateInv, Within
<1>13. (MaxRetries + 1) * (MaxPending + 1) \in Nat
  BY NotifyAssumption
<1>14. late'[n] \in Nat
  BY <1>10
<1>15. /\ late'[n] <= Attempts(n) + 1
       /\ late'[n] <= (MaxRetries + 1) * (MaxPending + 1)
  <2> DEFINE B == (MaxRetries + 1) * (MaxPending + 1)
  <2>1. B \in Nat /\ Attempts(n) + 1 <= B
    BY <1>12, <1>13
  <2> HIDE DEF B
  <2>2. late'[n] <= Attempts(n) + 1 /\ late'[n] <= B
    BY <1>10, <1>12, <1>14, <2>1
  <2>. QED
    BY <2>2 DEF B
<1>16. Within(n)'
  BY <1>5, <1>7, <1>11, <1>15 DEF Within, Started
<1> HIDE DEF c
<1>. QED
  BY <1>4, <1>5, <1>6, <1>8, <1>9, <1>10, <1>16, OneCall

LEMMA RetryKeeps ==
    ASSUME NotifyInv, NEW n \in Notices, Retry(n)
    PROVE  NotifyInv'
<1> DEFINE c == [call[n] EXCEPT !.attempt = @ + 1, !.step = "ready", !.answer = NoAnswer,
                                !.lost = @ \/ call[n].answer.status = "500"]
<1>1. call[n] \in NoticeCall /\ call[n].step = "answered" /\ call[n].attempt < MaxRetries
  BY DEF NotifyInv, NotifyTypes, Retry
<1>2. 0 \in 0..Cardinality(Members)
  BY NotifyAssumption, FS_CardinalityType
<1>3. call[n].attempt + 1 \in 0..MaxRetries
  BY <1>1, NotifyAssumption DEF NoticeCall
<1>4. c \in NoticeCall
  BY <1>1, <1>2, <1>3 DEF NoticeCall, PortalAnswer, NoAnswer
<1>5. /\ c.step = "ready" /\ c.key = call[n].key
      /\ c.attempt = call[n].attempt + 1 /\ c.again = call[n].again
  BY <1>1 DEF NoticeCall
<1>6. call' = [call EXCEPT ![n] = c]
  BY DEF Retry, NotifyInv, NotifyTypes
<1>7. call'[n] = c
  BY <1>6 DEF NotifyInv, NotifyTypes
<1>8. Started(n) /\ call[n].key \in Keys
  BY <1>1 DEF NotifyInv, KeyInv, Started
<1>9. UNCHANGED <<portal, late, got>>
  BY DEF Retry
<1>10. Attempts(n)' = Attempts(n) + 1
  <2>1. call[n].again * (MaxRetries + 1) \in Nat /\ call[n].attempt \in Nat
    BY <1>1, NotifyAssumption DEF NoticeCall
  <2>. QED
    BY <1>5, <1>7, <2>1 DEF Attempts
<1>11. Within(n)'
  BY <1>1, <1>5, <1>7, <1>9, <1>10 DEF NotifyInv, LateInv, Within, Started
<1> HIDE DEF c
<1>12. late' \in [Notices -> Nat]
  BY <1>9 DEF NotifyInv, NotifyTypes
<1>. QED
  BY <1>4, <1>5, <1>6, <1>8, <1>9, <1>11, <1>12, OneCall

LEMMA PostAgainKeeps ==
    ASSUME NotifyInv, NEW n \in Notices, PostAgain(n)
    PROVE  NotifyInv'
<1> DEFINE c == [call[n] EXCEPT !.again = @ + 1, !.phase = "pending", !.attempt = 0,
                                !.step = "ready", !.current = call[n].answer,
                                !.answer = NoAnswer]
<1>1. call[n] \in NoticeCall /\ call[n].step = "answered" /\ call[n].again < MaxPending
  BY DEF NotifyInv, NotifyTypes, PostAgain
<1>2. 0 \in 0..Cardinality(Members) /\ 0 \in 0..MaxRetries
  BY NotifyAssumption, FS_CardinalityType
<1>3. call[n].again + 1 \in 0..MaxPending
  BY <1>1, NotifyAssumption DEF NoticeCall
<1>4. c \in NoticeCall
  BY <1>1, <1>2, <1>3 DEF NoticeCall, PortalAnswer, NoAnswer
<1>5. /\ c.step = "ready" /\ c.key = call[n].key
      /\ c.attempt = 0 /\ c.again = call[n].again + 1
  BY <1>1 DEF NoticeCall
<1>6. call' = [call EXCEPT ![n] = c]
  BY DEF PostAgain, NotifyInv, NotifyTypes
<1>7. call'[n] = c
  BY <1>6 DEF NotifyInv, NotifyTypes
<1>8. Started(n) /\ call[n].key \in Keys
  BY <1>1 DEF NotifyInv, KeyInv, Started
<1>9. UNCHANGED <<portal, late, got>>
  BY DEF PostAgain
\* The attempts of the round that ends are at most MaxRetries + 1.
<1>10. Attempts(n) + 1 <= Attempts(n)' /\ Attempts(n) \in Nat /\ Attempts(n)' \in Nat
  <2> DEFINE R == MaxRetries + 1
             a == call[n].again
  <2>1. R \in Nat /\ a \in Nat /\ call[n].attempt \in Nat /\ call[n].attempt + 1 <= R
    BY <1>1, NotifyAssumption DEF NoticeCall
  <2>2. Attempts(n) = a * R + call[n].attempt
    BY DEF Attempts
  <2>3. Attempts(n)' = (a + 1) * R + 0
    BY <1>5, <1>7 DEF Attempts
  <2> HIDE DEF R, a
  <2>4. a * R \in Nat /\ (a + 1) * R = a * R + R
    BY <2>1
  <2>. QED
    BY <2>1, <2>2, <2>3, <2>4
<1>11. late[n] \in Nat /\ late[n] <= Attempts(n) + 1
       /\ late[n] <= (MaxRetries + 1) * (MaxPending + 1)
  BY <1>1 DEF NotifyInv, LateInv, Within, NotifyTypes
<1>12. late[n] <= Attempts(n)'
  BY <1>10, <1>11
<1>13. Within(n)'
  BY <1>5, <1>7, <1>9, <1>11, <1>12 DEF Within, Started
<1> HIDE DEF c
<1>14. late' \in [Notices -> Nat]
  BY <1>9 DEF NotifyInv, NotifyTypes
<1>. QED
  BY <1>4, <1>5, <1>6, <1>8, <1>9, <1>13, <1>14, OneCall

LEMMA DoneKeeps ==
    ASSUME NotifyInv, NEW n \in Notices, call[n].step = "answered",
           NEW result \in {"ok", "delivery", "unavailable", "400", "401", "404", "410",
                           "malformed"},
           Done(n, result)
    PROVE  NotifyInv'
<1> DEFINE c == [call[n] EXCEPT !.step = "done", !.result = result,
                                !.answer = IF result = "ok" THEN @ ELSE NoAnswer,
                                !.attempt = 0,
                                !.lost = @ \/ call[n].answer.status \in {"500", "malformed"}]
<1>1. call[n] \in NoticeCall
  BY DEF NotifyInv, NotifyTypes
<1>2. 0 \in 0..Cardinality(Members) /\ 0 \in 0..MaxRetries
  BY NotifyAssumption, FS_CardinalityType
<1>3. c \in NoticeCall
  <2>1. NoAnswer \in PortalAnswer
    BY <1>2 DEF PortalAnswer, NoAnswer
  <2>. QED
    BY <1>1, <1>2, <2>1 DEF NoticeCall
<1>4. c.step = "done" /\ c.key = call[n].key
  BY <1>1 DEF NoticeCall
<1>5. call' = [call EXCEPT ![n] = c]
  BY DEF Done, NotifyInv, NotifyTypes
<1>6. call'[n] = c
  BY <1>5 DEF NotifyInv, NotifyTypes
<1>7. Started(n) /\ call[n].key \in Keys
  BY DEF NotifyInv, KeyInv, Started
<1>8. UNCHANGED <<portal, late, got>>
  BY DEF Done
<1>9. Within(n)'
  BY <1>4, <1>6, <1>8 DEF NotifyInv, LateInv, Within, Started
<1> HIDE DEF c
<1>10. late' \in [Notices -> Nat]
  BY <1>8 DEF NotifyInv, NotifyTypes
<1>. QED
  BY <1>3, <1>4, <1>5, <1>7, <1>8, <1>9, <1>10, OneCall

LEMMA ClientEnds ==
    ASSUME NotifyInv, NEW n \in Notices, GiveUp(n) \/ Refused(n) \/ Succeed(n)
    PROVE  NotifyInv'
<1>1. CASE GiveUp(n)
  BY <1>1, DoneKeeps DEF GiveUp
<1>2. CASE Refused(n)
  <2>1. PICK result \in {"delivery", "400", "401", "404", "410", "malformed"} :
           Done(n, result)
    BY <1>2 DEF Refused
  <2>. QED
    BY <1>2, <2>1, DoneKeeps DEF Refused
<1>3. CASE Succeed(n)
  BY <1>3, DoneKeeps DEF Succeed
<1>. QED
  BY <1>1, <1>2, <1>3

-----------------------------------------------------------------------------
(* The portal. *)

\* An answer that the client receives; what the portal has done for the request
\* is given by the invariants of what has been delivered.
LEMMA AnsweredKeeps ==
    ASSUME NotifyInv, NEW n \in Notices, call[n].step = "waiting",
           NEW status \in {"200", "400", "401", "404", "410", "500", "502", "malformed"},
           NEW deliveries, Answers(n, status, deliveries), UNCHANGED late,
           DOMAIN portal' \subseteq Keys,
           \A k \in DOMAIN portal' : portal'[k] \in [Members -> Delivery],
           got' \in [Notices -> [Members -> Nat]], ByInv', GotInv'
    PROVE  NotifyInv'
<1>1. /\ KeptCalls
      /\ \A c \in Notices \ {n} : call'[c] = call[c]
      /\ call'[n].step = "answered" /\ call'[n].attempt = call[n].attempt
      /\ call'[n].again = call[n].again
  BY AnswersKeep DEF NotifyInv
<1>2. NotifyTypes'
  BY <1>1 DEF NotifyInv, NotifyTypes, KeptCalls
<1>3. Attempts(n)' = Attempts(n) /\ Attempts(n) \in Nat
  BY <1>1, AttemptsType DEF Attempts, NotifyInv
<1>4. Within(n)'
  <2>1. late[n] \in Nat /\ late[n] <= Attempts(n)
        /\ late[n] <= (MaxRetries + 1) * (MaxPending + 1)
    BY DEF NotifyInv, LateInv, Within, NotifyTypes
  <2>2. late[n] <= Attempts(n) + 1
    BY <1>3, <2>1
  <2>. QED
    BY <1>1, <1>3, <2>1, <2>2 DEF Within, Started
<1>5. LateInv'
  BY <1>1, <1>4 DEF NotifyInv, LateInv, Within, Attempts, Started
<1>6. KeyInv'
  <2>1. Started(n) /\ call[n].key \in Keys
    BY DEF NotifyInv, KeyInv, Started
  <2>. QED
    BY <1>1, <2>1 DEF NotifyInv, KeyInv, KeptCalls, Started
<1>. QED
  BY <1>2, <1>5, <1>6 DEF NotifyInv

LEMMA PortalHandlesKeeps ==
    ASSUME NotifyInv, NEW n \in Notices, PortalHandles(n)
    PROVE  NotifyInv'
<1>1. PICK deliveries \in [Members -> [status : {"sent", "pending", "failed"},
                                       by : Notices]],
           status \in {"500", "malformed", "502", "200"} :
         Deliver(n, call[n].key, deliveries) /\ Answers(n, status, deliveries)
  BY DEF PortalHandles
<1>2. call[n].step = "waiting" /\ UNCHANGED late
  BY DEF PortalHandles
<1>3. KeptCalls
  BY <1>1, <1>2, AnswersKeep DEF NotifyInv
<1>4. Started(n)
  BY <1>2 DEF Started
<1>5. /\ DOMAIN portal' \subseteq Keys
      /\ \A k \in DOMAIN portal' : portal'[k] \in [Members -> Delivery]
      /\ got' \in [Notices -> [Members -> Nat]]
      /\ ByInv' /\ GotInv'
  BY <1>1, <1>3, <1>4, DeliverKeeps DEF NotifyInv
<1>. QED
  BY <1>1, <1>2, <1>5, AnsweredKeeps

LEMMA PortalRefusesKeeps ==
    ASSUME NotifyInv, NEW n \in Notices, PortalRefuses(n)
    PROVE  NotifyInv'
<1>1. PICK status \in {"400", "401", "404", "410", "500"} : Answers(n, status, Unsent)
  BY DEF PortalRefuses
<1>2. call[n].step = "waiting" /\ UNCHANGED <<portal, late, got>>
  BY DEF PortalRefuses
<1>3. KeptCalls
  BY <1>1, <1>2, AnswersKeep DEF NotifyInv
<1>4. ByInv' /\ GotInv'
  BY <1>2, <1>3, ClientKeeps DEF NotifyInv
<1>5. /\ DOMAIN portal' \subseteq Keys
      /\ \A k \in DOMAIN portal' : portal'[k] \in [Members -> Delivery]
      /\ got' \in [Notices -> [Members -> Nat]]
  BY <1>2 DEF NotifyInv, NotifyTypes
<1>. QED
  BY <1>1, <1>2, <1>4, <1>5, AnsweredKeeps

LEMMA PortalHandlesLateKeeps ==
    ASSUME NotifyInv, NEW n \in Notices, PortalHandlesLate(n)
    PROVE  NotifyInv'
<1>1. /\ late[n] > 0 /\ UNCHANGED call
      /\ late' = [late EXCEPT ![n] = @ - 1]
  BY DEF PortalHandlesLate
<1>2. PICK deliveries \in [Members -> [status : {"sent", "pending", "failed"},
                                       by : Notices]] :
         Deliver(n, call[n].key, deliveries)
  BY DEF PortalHandlesLate
\* A call that has not begun has no request on its way.
<1>3. Started(n)
  BY <1>1 DEF NotifyInv, LateInv, Within
<1>4. KeptCalls
  BY <1>1 DEF NotifyInv, NotifyTypes, KeptCalls, Started
<1>5. /\ DOMAIN portal' \subseteq Keys
      /\ \A k \in DOMAIN portal' : portal'[k] \in [Members -> Delivery]
      /\ got' \in [Notices -> [Members -> Nat]]
      /\ ByInv' /\ GotInv'
  BY <1>2, <1>3, <1>4, DeliverKeeps DEF NotifyInv
<1>6. late[n] \in Nat /\ late' \in [Notices -> Nat] /\ late'[n] = late[n] - 1
      /\ \A d \in Notices \ {n} : late'[d] = late[d]
  BY <1>1 DEF NotifyInv, NotifyTypes
<1>7. NotifyTypes'
  BY <1>1, <1>5, <1>6 DEF NotifyInv, NotifyTypes
<1>8. Within(n)'
  <2> DEFINE B == (MaxRetries + 1) * (MaxPending + 1)
  <2>1. Attempts(n)' = Attempts(n) /\ Attempts(n) \in Nat
    BY <1>1, AttemptsType DEF Attempts, NotifyInv
  <2>2. B \in Nat
    BY NotifyAssumption
  <2>3. late[n] <= B
    BY DEF NotifyInv, LateInv, Within
  <2> HIDE DEF B
  <2>4. late'[n] <= late[n] /\ late'[n] <= B
    BY <1>6, <2>2, <2>3
  <2>5. call[n].step \in {"ready", "waiting"} => late'[n] <= Attempts(n)
    <3>1. call[n].step \in {"ready", "waiting"} => late[n] <= Attempts(n)
      BY DEF NotifyInv, LateInv, Within
    <3>. QED
      BY <1>6, <2>1, <3>1
  <2>6. call[n].step = "answered" => late'[n] <= Attempts(n) + 1
    <3>1. call[n].step = "answered" => late[n] <= Attempts(n) + 1
      BY DEF NotifyInv, LateInv, Within
    <3>. QED
      BY <1>6, <2>1, <3>1
  <2>. QED
    BY <1>1, <1>3, <2>1, <2>4, <2>5, <2>6 DEF Within, Started, B
<1>9. LateInv'
  BY <1>1, <1>6, <1>8 DEF NotifyInv, LateInv, Within, Attempts, Started
<1>10. KeyInv'
  BY <1>1 DEF NotifyInv, KeyInv, Started
<1>. QED
  BY <1>5, <1>7, <1>9, <1>10 DEF NotifyInv

-----------------------------------------------------------------------------
LEMMA NotifyInvInit == NotifyInit => NotifyInv
<1> SUFFICES ASSUME NotifyInit PROVE NotifyInv
  OBVIOUS
<1>1. 0 \in 0..Cardinality(Members) /\ 0 \in 0..MaxRetries /\ 0 \in 0..MaxPending
  BY NotifyAssumption, FS_CardinalityType
<1>2. NewCall \in NoticeCall
  BY <1>1 DEF NewCall, NoticeCall, PortalAnswer, NoAnswer
<1>3. /\ call = [n \in Notices |-> NewCall] /\ DOMAIN portal = {}
      /\ late = [n \in Notices |-> 0]
      /\ got = [n \in Notices |-> [m \in Members |-> 0]]
  BY DEF NotifyInit
<1>4. NotifyTypes
  BY <1>2, <1>3 DEF NotifyTypes
<1>5. NewCall.step = "new" /\ NewCall.again = 0 /\ NewCall.attempt = 0
  BY DEF NewCall
<1>6. 0 <= (MaxRetries + 1) * (MaxPending + 1)
  <2>1. (MaxRetries + 1) * (MaxPending + 1) \in Nat
    BY NotifyAssumption
  <2>. QED
    BY <2>1
<1>7. LateInv
  BY <1>3, <1>5, <1>6 DEF LateInv, Within, Started
<1>8. KeyInv /\ ByInv /\ GotInv
  BY <1>3, <1>5 DEF KeyInv, ByInv, GotInv, Started
<1>. QED
  BY <1>4, <1>7, <1>8 DEF NotifyInv

LEMMA NotifyInvStutter == NotifyInv /\ UNCHANGED notifyVars => NotifyInv'
<1> SUFFICES ASSUME NotifyInv, UNCHANGED notifyVars PROVE NotifyInv'
  OBVIOUS
<1>1. call' = call /\ portal' = portal /\ late' = late /\ got' = got
  BY DEF notifyVars
<1>2. NotifyTypes' /\ KeyInv' /\ ByInv' /\ GotInv'
  BY <1>1 DEF NotifyInv, NotifyTypes, KeyInv, ByInv, GotInv, Started
<1>3. LateInv'
  BY <1>1 DEF NotifyInv, LateInv, Within, Attempts, Started
<1>. QED
  BY <1>2, <1>3 DEF NotifyInv

\* What the deliveries are for, whose keys the calls have and how many requests
\* are on their way, after any steps of the calls and of the portal.
THEOREM NotifyInvariant == NotifySpec => []NotifyInv
<1>1. NotifyInit => NotifyInv
  BY NotifyInvInit
<1>2. NotifyInv /\ [NotifyNext]_notifyVars => NotifyInv'
  <2> SUFFICES ASSUME NotifyInv, [NotifyNext]_notifyVars PROVE NotifyInv'
    OBVIOUS
  <2>1. CASE UNCHANGED notifyVars
    BY <2>1, NotifyInvStutter
  <2>2. CASE NotifyNext
    <3>1. PICK n \in Notices :
             \/ Send(n) \/ Post(n) \/ NetworkError(n) \/ Retry(n) \/ GiveUp(n)
             \/ Refused(n) \/ PostAgain(n) \/ Succeed(n)
             \/ PortalHandles(n) \/ PortalRefuses(n) \/ PortalHandlesLate(n)
      BY <2>2 DEF NotifyNext
    <3>2. CASE Send(n)
      BY <3>2, SendKeeps
    <3>3. CASE Post(n)
      BY <3>3, PostKeeps
    <3>4. CASE NetworkError(n)
      BY <3>4, NetworkErrorKeeps
    <3>5. CASE Retry(n)
      BY <3>5, RetryKeeps
    <3>6. CASE GiveUp(n) \/ Refused(n) \/ Succeed(n)
      BY <3>6, ClientEnds
    <3>7. CASE PostAgain(n)
      BY <3>7, PostAgainKeeps
    <3>8. CASE PortalHandles(n)
      BY <3>8, PortalHandlesKeeps
    <3>9. CASE PortalRefuses(n)
      BY <3>9, PortalRefusesKeeps
    <3>10. CASE PortalHandlesLate(n)
      BY <3>10, PortalHandlesLateKeeps
    <3>. QED
      BY <3>1, <3>2, <3>3, <3>4, <3>5, <3>6, <3>7, <3>8, <3>9, <3>10
  <2>. QED
    BY <2>1, <2>2
<1>. QED
  BY <1>1, <1>2, PTL DEF NotifySpec

\* The state of the tool and of the portal has its type; in particular no call
\* has more requests on their way than it may post.
THEOREM NotifyTyped == NotifySpec => []NotifyTypeOK
<1>1. NotifyInv => NotifyTypeOK
  <2> SUFFICES ASSUME NotifyInv PROVE NotifyTypeOK
    OBVIOUS
  <2>1. \A n \in Notices : late[n] \in 0..((MaxRetries + 1) * (MaxPending + 1))
    <3>1. (MaxRetries + 1) * (MaxPending + 1) \in Nat
      BY NotifyAssumption
    <3>2. \A n \in Notices : late[n] \in Nat /\ late[n] <= (MaxRetries + 1) * (MaxPending + 1)
      BY DEF NotifyInv, LateInv, Within, NotifyTypes
    <3>. QED
      BY <3>1, <3>2
  <2>. QED
    BY <2>1 DEF NotifyInv, NotifyTypes, Keys, NotifyTypeOK
<1>. QED
  BY <1>1, NotifyInvariant, PTL

\* However often calls post their notices, and whenever their requests arrive, a
\* member gets a notice once for a call, and once for all calls with one key of
\* the agent's: the delivery under the key is for one call, and is left alone.
THEOREM DeliveredOnce == NotifySpec => []NotifiedOnce
<1>1. NotifyInv => NotifiedOnce
  <2> SUFFICES ASSUME NotifyInv, NEW n \in Notices, NEW other \in Notices, NEW m \in Members
               PROVE  /\ got[n][m] <= 1
                      /\ (/\ n # other /\ call[n].key \in AgentKeys
                          /\ call[n].key = call[other].key) => got[n][m] + got[other][m] <= 1
    BY DEF NotifiedOnce
  <2>1. got[n][m] \in Nat /\ got[other][m] \in Nat
    BY DEF NotifyInv, NotifyTypes
  <2>2. got[n][m] \in {0, 1} /\ got[other][m] \in {0, 1}
    BY <2>1 DEF NotifyInv, GotInv
  <2>3. n # other /\ call[n].key = call[other].key => got[n][m] = 0 \/ got[other][m] = 0
    <3>1. SUFFICES ASSUME call[n].key = call[other].key, got[n][m] # 0, got[other][m] # 0
                   PROVE  n = other
      OBVIOUS
    <3>2. /\ portal[call[n].key][m] = [status |-> "sent", by |-> n]
          /\ portal[call[n].key][m] = [status |-> "sent", by |-> other]
      BY <3>1 DEF NotifyInv, GotInv
    <3>3. [status |-> "sent", by |-> n].by = [status |-> "sent", by |-> other].by
      BY <3>2
    <3>. QED
      BY <3>3
  <2>. QED
    BY <2>2, <2>3
<1>. QED
  BY <1>1, NotifyInvariant, PTL

-----------------------------------------------------------------------------
(* What the tool tells the agent. *)

\* Nothing has been sent for a call, and nothing is pending.
Clean(n) ==
    \A k \in DOMAIN portal, m \in Members :
       portal[k][m].by = n => portal[k][m].status = "failed"

\* The records of calls of which no answer says that something was sent.
Silent(c) ==
    \/ c.step \in {"new", "ready", "waiting"}
    \/ /\ c.step = "answered"
       /\ c.answer.status \in {"502", "400", "401", "404", "410"} \/ NothingSent(c.answer)
    \/ c.step = "done" /\ c.result # "ok"

\* Those that say that all deliveries have failed.
Undelivered(c) ==
    \/ c.step = "answered" /\ (c.answer.status = "502" \/ NothingSent(c.answer))
    \/ c.step = "done" /\ c.result = "delivery"

\* The members for whom a delivery is for a call, and has not failed.
Held(n) ==
    {m \in Members : \E k \in DOMAIN portal :
        portal[k][m].by = n /\ portal[k][m].status # "failed"}

Reported(answer) == answer.sent + answer.pending

\* What the portal holds for a call whose answers all came back: nothing after an
\* answer that says so, or before there was one; otherwise no more than the
\* answer counts, or the one before the notice was posted again.
Quiet(n) ==
    /\ call[n].step = "answered" /\ call[n].answer.status = "network" => call[n].lost
    /\ ~call[n].lost =>
          /\ late[n] = 0
          /\ Silent(call[n]) /\ (call[n].phase = "base" \/ Undelivered(call[n])) => Clean(n)
          /\ Silent(call[n]) /\ call[n].phase = "pending" =>
                Cardinality(Held(n)) <= Reported(call[n].current)
          /\ call[n].step = "answered" /\ call[n].answer.status = "200" =>
                Cardinality(Held(n)) <= Reported(call[n].answer)

\* An answer that is understood counts no more than the portal has sent.
Told(n) ==
    /\ call[n].step \in {"answered", "done"} /\ call[n].answer.status = "200" =>
          call[n].answer.sent <= Count(StatusFor(call[n].key), "sent")
    /\ call[n].step = "done" /\ call[n].result = "ok" =>
          /\ call[n].answer.status = "200"
          /\ call[n].answer.sent + call[n].answer.pending > 0

HonestInv == \A n \in Notices : Quiet(n) /\ Told(n)

LEMMA CountGrows ==
    ASSUME NEW before, NEW after,
           \A m \in Members : before[m].status = "sent" => after[m].status = "sent"
    PROVE  Count(before, "sent") <= Count(after, "sent")
<1> DEFINE B == {m \in Members : before[m].status = "sent"}
           A == {m \in Members : after[m].status = "sent"}
<1>1. IsFiniteSet(A)
  BY NotifyAssumption, FS_Subset
<1>2. B \subseteq A
  OBVIOUS
<1>. QED
  BY <1>1, <1>2, FS_Subset DEF Count

LEMMA CountNone ==
    ASSUME NEW deliveries, NEW status, Count(deliveries, status) = 0
    PROVE  \A m \in Members : deliveries[m].status # status
<1> DEFINE M == {m \in Members : deliveries[m].status = status}
<1>1. IsFiniteSet(M)
  BY NotifyAssumption, FS_Subset
<1>2. Cardinality(M) = 0
  BY DEF Count
<1>3. M = {}
  BY <1>1, <1>2, FS_EmptySet
<1>. QED
  BY <1>3

LEMMA CountAll ==
    ASSUME NEW deliveries, NEW status, Count(deliveries, status) = Cardinality(Members)
    PROVE  \A m \in Members : deliveries[m].status = status
<1> DEFINE M == {m \in Members : deliveries[m].status = status}
<1>1. IsFiniteSet(Members) /\ M \in SUBSET Members
  BY NotifyAssumption
<1>2. Cardinality(M) = Cardinality(Members)
  BY DEF Count
<1>3. M = Members
  BY <1>1, <1>2, FS_Subset
<1>. QED
  BY <1>3

LEMMA HeldFinite ==
    ASSUME NEW n
    PROVE  IsFiniteSet(Held(n)) /\ Cardinality(Held(n)) \in Nat
<1>1. Held(n) \in SUBSET Members
  BY DEF Held
<1>. QED
  BY <1>1, NotifyAssumption, FS_Subset, FS_CardinalityType

\* Nobody is held by a call of which nothing is sent or pending.
LEMMA CleanHoldsNone ==
    ASSUME NEW n, Clean(n)
    PROVE  Cardinality(Held(n)) = 0
<1>1. Held(n) = {}
  BY DEF Clean, Held
<1>. QED
  BY <1>1, FS_EmptySet

LEMMA CountedNat ==
    ASSUME NEW answer \in PortalAnswer
    PROVE  Reported(answer) \in Nat
<1>1. Cardinality(Members) \in Nat
  BY NotifyAssumption, FS_CardinalityType
<1>. QED
  BY <1>1 DEF PortalAnswer, Reported

\* A step of the client leaves the other calls what they were told.
LEMMA HonestOne ==
    ASSUME HonestInv, NEW n \in Notices, UNCHANGED portal,
           \A d \in Notices \ {n} : call'[d] = call[d] /\ late'[d] = late[d],
           Quiet(n)', Told(n)'
    PROVE  HonestInv'
<1>1. ASSUME NEW d \in Notices, d # n
      PROVE  Quiet(d)' /\ Told(d)'
  <2>1. call'[d] = call[d] /\ late'[d] = late[d] /\ Quiet(d) /\ Told(d)
    BY <1>1 DEF HonestInv
  <2>2. Clean(d)' = Clean(d)
    BY DEF Clean
  <2>3. /\ Silent(call[d])' = Silent(call[d])
        /\ Undelivered(call[d])' = Undelivered(call[d])
        /\ Held(d)' = Held(d)
    BY <2>1 DEF Silent, Undelivered, NothingSent, Held
  <2>4. Count(StatusFor(call[d].key), "sent")' = Count(StatusFor(call[d].key), "sent")
    BY <2>1 DEF Count, StatusFor, Unsent
  <2>5. Quiet(d)'
    BY <2>1, <2>2, <2>3 DEF Quiet, Reported
  <2>6. Told(d)'
    BY <2>1, <2>4 DEF Told
  <2>. QED
    BY <2>5, <2>6
<1>. QED
  BY <1>1 DEF HonestInv

LEMMA HonestClient ==
    ASSUME NotifyInv, HonestInv, NEW n \in Notices,
           \/ Send(n) \/ Post(n) \/ NetworkError(n) \/ Retry(n) \/ PostAgain(n)
    PROVE  HonestInv'
<1>1. call[n] \in NoticeCall /\ call \in [Notices -> NoticeCall] /\ late \in [Notices -> Nat]
  BY DEF NotifyInv, NotifyTypes
<1>2. Quiet(n) /\ Told(n)
  BY DEF HonestInv
<1>3. UNCHANGED portal
      /\ \A d \in Notices \ {n} : call'[d] = call[d] /\ late'[d] = late[d]
  BY <1>1 DEF Send, Post, NetworkError, Retry, PostAgain
<1>4. Clean(n)' = Clean(n) /\ Held(n)' = Held(n)
  BY <1>3 DEF Clean, Held
<1>5. CASE Send(n)
  <2>1. call'[n].step = "ready" /\ call'[n].phase = call[n].phase
        /\ call'[n].lost = call[n].lost /\ call'[n].current = call[n].current
        /\ late' = late /\ call[n].step = "new"
    <3>1. PICK given \in AgentKeys \cup {"none"} :
             call' = [call EXCEPT ![n].key = idempotencyKey(n, given), ![n].step = "ready"]
      BY <1>5 DEF Send
    <3>2. call[n].step = "new" /\ late' = late
      BY <1>5 DEF Send
    <3> DEFINE key == idempotencyKey(n, given)
    <3>3. call' = [call EXCEPT ![n].key = key, ![n].step = "ready"]
      BY <3>1
    <3> HIDE DEF key
    <3>. QED
      BY <1>1, <3>2, <3>3 DEF NoticeCall
  <2>2. Quiet(n)' /\ Told(n)'
    BY <1>2, <1>4, <2>1 DEF Quiet, Told, Silent, Undelivered, Reported
  <2>. QED
    BY <1>3, <2>2, HonestOne
<1>6. CASE Post(n)
  <2>1. call'[n].step = "waiting" /\ call'[n].phase = call[n].phase
        /\ call'[n].lost = call[n].lost /\ call'[n].current = call[n].current
        /\ late' = late /\ call[n].step = "ready"
    BY <1>1, <1>6 DEF Post, NoticeCall
  <2>2. Quiet(n)' /\ Told(n)'
    BY <1>2, <1>4, <2>1 DEF Quiet, Told, Silent, Undelivered, Reported
  <2>. QED
    BY <1>3, <2>2, HonestOne
<1>7. CASE NetworkError(n)
  <2>1. call'[n].step = "answered" /\ call'[n].answer.status = "network" /\ call'[n].lost
    BY <1>1, <1>7 DEF NetworkError, NoticeCall, PortalAnswer, NoAnswer
  <2>2. Quiet(n)' /\ Told(n)'
    BY <2>1 DEF Quiet, Told
  <2>. QED
    BY <1>3, <2>2, HonestOne
<1>8. CASE Retry(n)
  <2>1. /\ call'[n].step = "ready" /\ call'[n].phase = call[n].phase
        /\ call'[n].current = call[n].current
        /\ call'[n].lost = (call[n].lost \/ call[n].answer.status = "500") /\ late' = late
        /\ call[n].step = "answered" /\ call[n].answer.status \in Transient
    BY <1>1, <1>8 DEF Retry, NoticeCall
  <2>2. ~call'[n].lost => ~call[n].lost /\ Silent(call[n])
    BY <1>2, <2>1 DEF Quiet, Silent, Transient
  <2>3. Quiet(n)' /\ Told(n)'
    BY <1>2, <1>4, <2>1, <2>2 DEF Quiet, Told, Silent, Undelivered, Reported
  <2>. QED
    BY <1>3, <2>3, HonestOne
<1>9. CASE PostAgain(n)
  <2>1. /\ call'[n].step = "ready" /\ call'[n].phase = "pending"
        /\ call'[n].current = call[n].answer /\ call'[n].lost = call[n].lost
        /\ late' = late /\ call[n].step = "answered" /\ call[n].answer.status = "200"
    BY <1>1, <1>9 DEF PostAgain, NoticeCall, Delivered
  \* What the answer counts is what the portal may hold from now on.
  <2>2. Quiet(n)' /\ Told(n)'
    BY <1>2, <1>4, <2>1 DEF Quiet, Told, Undelivered, Reported
  <2>. QED
    BY <1>3, <2>2, HonestOne
<1>. QED
  BY <1>5, <1>6, <1>7, <1>8, <1>9

\* A call ends with "ok" after an answer that it was delivered; otherwise, after
\* one that says nothing was sent, unless it says nothing of what became of it.
LEMMA HonestDone ==
    ASSUME NotifyInv, HonestInv, NEW n \in Notices, call[n].step = "answered",
           NEW result, Done(n, result),
           IF result = "ok" THEN Delivered(call[n].answer)
           ELSE Silent(call[n]) \/ call[n].answer.status \in {"network", "500", "malformed"},
           result = "delivery" => Undelivered(call[n])
    PROVE  HonestInv'
<1>1. call[n] \in NoticeCall /\ call \in [Notices -> NoticeCall]
  BY DEF NotifyInv, NotifyTypes
<1>2. Quiet(n) /\ Told(n)
  BY DEF HonestInv
<1>3. UNCHANGED <<portal, late>>
      /\ \A d \in Notices \ {n} : call'[d] = call[d]
  BY <1>1 DEF Done
<1>4. Clean(n)' = Clean(n) /\ Held(n)' = Held(n)
  BY <1>3 DEF Clean, Held
<1>5. /\ call'[n].step = "done" /\ call'[n].result = result
      /\ call'[n].phase = call[n].phase /\ call'[n].key = call[n].key
      /\ call'[n].current = call[n].current
      /\ call'[n].lost = (call[n].lost \/ call[n].answer.status \in {"500", "malformed"})
      /\ call'[n].answer = IF result = "ok" THEN call[n].answer ELSE NoAnswer
  BY <1>1 DEF Done, NoticeCall
<1>6. Quiet(n)'
  <2>1. ~call'[n].lost => ~call[n].lost /\ (result = "ok" \/ Silent(call[n]))
    BY <1>2, <1>5 DEF Quiet
  <2>. QED
    BY <1>2, <1>3, <1>4, <1>5, <2>1 DEF Quiet, Silent, Undelivered, Reported
<1>7. Told(n)'
  <2>1. CASE result = "ok"
    <3>1. call[n].answer.sent \in Nat /\ call[n].answer.pending \in Nat
      <4>1. Cardinality(Members) \in Nat
        BY NotifyAssumption, FS_CardinalityType
      <4>. QED
        BY <1>1, <4>1 DEF NoticeCall, PortalAnswer
    <3>2. /\ call[n].answer.status = "200"
          /\ call[n].answer.sent + call[n].answer.pending > 0
      BY <2>1, <3>1 DEF Delivered, NothingSent
    <3>3. call[n].answer.sent <= Count(StatusFor(call[n].key), "sent")
      BY <1>2, <3>2 DEF Told
    <3>4. Count(StatusFor(call[n].key), "sent")' = Count(StatusFor(call[n].key), "sent")
      BY <1>3, <1>5 DEF Count, StatusFor, Unsent
    <3>. QED
      BY <1>5, <2>1, <3>2, <3>3, <3>4 DEF Told
  <2>2. CASE result # "ok"
    BY <1>5, <2>2 DEF Told, NoAnswer
  <2>. QED
    BY <2>1, <2>2
<1>. QED
  BY <1>3, <1>6, <1>7, HonestOne

LEMMA HonestEnds ==
    ASSUME NotifyInv, HonestInv, NEW n \in Notices, GiveUp(n) \/ Refused(n) \/ Succeed(n)
    PROVE  HonestInv'
<1>1. CASE GiveUp(n)
  <2>1. PICK result \in {"delivery", "unavailable"} :
           Done(n, result) /\ (result = "delivery" => call[n].answer.status = "502")
    BY <1>1 DEF GiveUp
  <2>2. /\ call[n].step = "answered"
        /\ Silent(call[n]) \/ call[n].answer.status \in {"network", "500", "malformed"}
    BY <1>1 DEF GiveUp, Silent, Transient
  <2>3. result = "delivery" => Undelivered(call[n])
    BY <1>1, <2>1 DEF GiveUp, Undelivered
  <2>. QED
    BY <2>1, <2>2, <2>3, HonestDone
<1>2. CASE Refused(n)
  <2>1. PICK result \in {"delivery", "400", "401", "404", "410", "malformed"} :
           Done(n, result) /\ (result = "delivery" => NothingSent(call[n].answer))
    BY <1>2 DEF Refused
  <2>2. /\ call[n].step = "answered"
        /\ Silent(call[n]) \/ call[n].answer.status \in {"network", "500", "malformed"}
    BY <1>2 DEF Refused, Silent
  <2>3. result = "delivery" => Undelivered(call[n])
    BY <2>1, <2>2 DEF Undelivered
  <2>. QED
    BY <2>1, <2>2, <2>3, HonestDone
<1>3. CASE Succeed(n)
  BY <1>3, HonestDone DEF Succeed
<1>. QED
  BY <1>1, <1>2, <1>3

\* A request that the portal handles sends nothing for another call that it has
\* sent nothing for, takes back nothing that was sent, and if it fails, sends
\* nothing for its own call.  What it holds for a call is what it held before,
\* or what it counts in its answer.
LEMMA DeliverHonest ==
    ASSUME NotifyInv, NEW n \in Notices, Started(n),
           NEW deliveries \in [Members -> [status : {"sent", "pending", "failed"},
                                           by : Notices]],
           Deliver(n, call[n].key, deliveries)
    PROVE  /\ \A d \in Notices \ {n} : Clean(d) => Clean(d)'
           /\ \A k \in Keys : Count(StatusFor(k), "sent") <= Count(StatusFor(k)', "sent")
           /\ \A k \in Keys : k = call[n].key => StatusFor(k)' = deliveries
           /\ (\A m \in Members : deliveries[m].status = "failed") => Clean(n)'
           /\ \A d \in Notices \ {n} : Cardinality(Held(d)') <= Cardinality(Held(d))
           /\ Cardinality(Held(n)') <= Count(deliveries, "sent") + Count(deliveries, "pending")
<1> DEFINE key == call[n].key
           before(m) == StatusFor(key)[m]
<1>1. key \in Keys
  BY DEF NotifyInv, KeyInv
<1>2. /\ DOMAIN portal' = DOMAIN portal \cup {key}
      /\ portal'[key] = deliveries
      /\ \A k \in DOMAIN portal \ {key} : portal'[k] = portal[k]
  BY DEF Deliver
<1>3. \A m \in Members : deliveries[m] \in Outcomes(before(m), n)
  BY DEF Deliver
<1>4. \A d \in Notices \ {n} : Clean(d) => Clean(d)'
  <2>1. SUFFICES ASSUME NEW d \in Notices \ {n}, Clean(d),
                        NEW k \in DOMAIN portal', NEW m \in Members, portal'[k][m].by = d
                 PROVE  portal'[k][m].status = "failed"
    BY DEF Clean
  <2>2. CASE k = key
    \* Its delivery under this key has failed, and is now for call n.
    <3>1. deliveries[m].by = d
      BY <1>2, <2>1, <2>2
    <3>2. key \in DOMAIN portal /\ portal[key][m].by = d /\ portal[key][m].status # "failed"
      BY <1>3, <2>1, <3>1 DEF Outcomes, StatusFor, Unsent, NotifyInv, NotifyTypes, Delivery
    <3>. QED
      BY <2>1, <3>2 DEF Clean
  <2>3. CASE k # key
    BY <1>2, <2>1, <2>3 DEF Clean
  <2>. QED
    BY <2>2, <2>3
<1>5. \A k \in Keys : Count(StatusFor(k), "sent") <= Count(StatusFor(k)', "sent")
  <2>1. SUFFICES ASSUME NEW k \in Keys, NEW m \in Members, StatusFor(k)[m].status = "sent"
                 PROVE  StatusFor(k)'[m].status = "sent"
    BY CountGrows
  <2>2. CASE k = key
    <3>1. deliveries[m] = before(m)
      BY <1>3, <2>1, <2>2 DEF Outcomes
    <3>2. StatusFor(k)' = deliveries
      BY <1>2, <2>2 DEF StatusFor
    <3>. QED
      BY <2>1, <2>2, <3>1, <3>2
  <2>3. CASE k # key
    BY <1>2, <2>1, <2>3 DEF StatusFor, Unsent
  <2>. QED
    BY <2>2, <2>3
<1>6. \A k \in Keys : k = key => StatusFor(k)' = deliveries
  BY <1>2 DEF StatusFor
\* What is for call n is under its key.
<1>7. \A k \in DOMAIN portal', m \in Members : portal'[k][m].by = n => k = key
  <2>1. SUFFICES ASSUME NEW k \in DOMAIN portal', NEW m \in Members, portal'[k][m].by = n,
                        k # key
                 PROVE  FALSE
    OBVIOUS
  <2>2. k \in DOMAIN portal /\ portal[k][m].by = n
    BY <1>2, <2>1
  <2>. QED
    BY <2>1, <2>2 DEF NotifyInv, ByInv
<1>8. ASSUME \A m \in Members : deliveries[m].status = "failed"
      PROVE  Clean(n)'
  BY <1>2, <1>7, <1>8 DEF Clean
<1>9. \A d \in Notices \ {n} : Cardinality(Held(d)') <= Cardinality(Held(d))
  <2>1. SUFFICES ASSUME NEW d \in Notices \ {n} PROVE Held(d)' \subseteq Held(d)
    BY HeldFinite, FS_Subset
  <2>2. SUFFICES ASSUME NEW m \in Members, NEW k \in DOMAIN portal',
                        portal'[k][m].by = d, portal'[k][m].status # "failed"
                 PROVE  m \in Held(d)
    BY DEF Held
  <2>3. CASE k = key
    \* It was for call d before, and has not failed then.
    <3>1. deliveries[m].by = d /\ deliveries[m].status # "failed"
      BY <1>2, <2>2, <2>3
    <3>2. key \in DOMAIN portal /\ portal[key][m].by = d /\ portal[key][m].status # "failed"
      BY <1>3, <2>1, <3>1 DEF Outcomes, StatusFor, Unsent, NotifyInv, NotifyTypes, Delivery
    <3>. QED
      BY <3>2 DEF Held
  <2>4. CASE k # key
    BY <1>2, <2>2, <2>4 DEF Held
  <2>. QED
    BY <2>3, <2>4
<1>10. Cardinality(Held(n)') <= Count(deliveries, "sent") + Count(deliveries, "pending")
  <2> DEFINE S == {m \in Members : deliveries[m].status = "sent"}
             P == {m \in Members : deliveries[m].status = "pending"}
  <2>1. Held(n)' \subseteq S \cup P
    <3>1. SUFFICES ASSUME NEW m \in Members, NEW k \in DOMAIN portal',
                          portal'[k][m].by = n, portal'[k][m].status # "failed"
                   PROVE  m \in S \cup P
      BY DEF Held
    <3>2. k = key /\ portal'[k] = deliveries
      BY <1>2, <1>7, <3>1
    <3>. QED
      BY <3>1, <3>2
  <2>2. IsFiniteSet(S) /\ IsFiniteSet(P) /\ IsFiniteSet(Held(n)')
    <3>1. S \in SUBSET Members /\ P \in SUBSET Members /\ Held(n)' \in SUBSET Members
      BY DEF Held
    <3>. QED
      BY <3>1, NotifyAssumption, FS_Subset
  <2>3. /\ Cardinality(S) = Count(deliveries, "sent")
        /\ Cardinality(P) = Count(deliveries, "pending")
    BY DEF Count
  <2> HIDE DEF S, P
  <2>4. Cardinality(S \cup P) <= Cardinality(S) + Cardinality(P)
    <3>1. /\ IsFiniteSet(S \cup P)
          /\ Cardinality(S \cup P) = Cardinality(S) + Cardinality(P) - Cardinality(S \cap P)
      BY <2>2, FS_Union
    <3>2. IsFiniteSet(S \cap P)
      BY <2>2, FS_Subset
    <3>3. Cardinality(S \cap P) \in Nat /\ Cardinality(S) \in Nat /\ Cardinality(P) \in Nat
      BY <2>2, <3>2, FS_CardinalityType
    <3>. QED
      BY <3>1, <3>3
  <2>5. Cardinality(Held(n)') <= Cardinality(S \cup P)
    <3>1. IsFiniteSet(S \cup P)
      BY <2>2, FS_Union
    <3>. QED
      BY <2>1, <3>1, FS_Subset
  <2>6. /\ Cardinality(Held(n)') \in Nat /\ Cardinality(S \cup P) \in Nat
        /\ Cardinality(S) \in Nat /\ Cardinality(P) \in Nat
    BY <2>2, FS_Union, FS_CardinalityType
  <2>. QED
    BY <2>3, <2>4, <2>5, <2>6
<1>. QED
  BY <1>2, <1>4, <1>5, <1>6, <1>8, <1>9, <1>10

\* A call that a handled request leaves alone was told the truth, and is silent as before.
LEMMA HonestOthers ==
    ASSUME NotifyInv, HonestInv, NEW n \in Notices, Started(n),
           NEW deliveries \in [Members -> [status : {"sent", "pending", "failed"},
                                           by : Notices]],
           Deliver(n, call[n].key, deliveries),
           NEW d \in Notices, call'[d] = call[d]
    PROVE  /\ Told(d)'
           /\ d # n /\ late'[d] = late[d] => Quiet(d)'
<1>1. call[d] \in NoticeCall /\ Quiet(d) /\ Told(d)
  BY DEF HonestInv, NotifyInv, NotifyTypes
<1>2. /\ \A c \in Notices \ {n} : Clean(c) => Clean(c)'
      /\ \A c \in Notices \ {n} : Cardinality(Held(c)') <= Cardinality(Held(c))
      /\ \A k \in Keys : Count(StatusFor(k), "sent") <= Count(StatusFor(k)', "sent")
  BY DeliverHonest
<1>3. Told(d)'
  <2>1. CASE ~Started(d)
    BY <1>1, <2>1 DEF Told, Started
  <2>2. CASE Started(d)
    <3>1. PICK key \in Keys : key = call[d].key
      BY <2>2 DEF NotifyInv, KeyInv
    <3>2. Count(StatusFor(call[d].key), "sent")' = Count(StatusFor(key)', "sent")
      BY <3>1 DEF Count, StatusFor, Unsent
    <3>3. Count(StatusFor(key), "sent") <= Count(StatusFor(key)', "sent")
      BY <1>2
    <3>4. Count(StatusFor(key), "sent") \in Nat /\ Count(StatusFor(key)', "sent") \in Nat
      BY CountType
    <3>5. call[d].answer.sent \in Nat
      BY <1>1, CountType DEF NoticeCall, PortalAnswer
    <3>. QED
      BY <1>1, <3>1, <3>2, <3>3, <3>4, <3>5 DEF Told
  <2>. QED
    BY <2>1, <2>2
<1>4. ASSUME d # n, late'[d] = late[d]
      PROVE  Quiet(d)'
  <2>1. Silent(call[d])' = Silent(call[d]) /\ Undelivered(call[d])' = Undelivered(call[d])
    BY DEF Silent, Undelivered, NothingSent
  <2>2. /\ Cardinality(Held(d)') <= Cardinality(Held(d))
        /\ Cardinality(Held(d)') \in Nat /\ Cardinality(Held(d)) \in Nat
    <3>1. Held(d)' \in SUBSET Members
      BY DEF Held
    <3>. QED
      BY <1>2, <1>4, <3>1, HeldFinite, NotifyAssumption, FS_Subset, FS_CardinalityType
  <2>3. Reported(call[d].current) \in Nat /\ Reported(call[d].answer) \in Nat
    BY <1>1, CountedNat DEF NoticeCall
  <2>4. /\ Reported(call[d].current)' = Reported(call[d].current)
        /\ Reported(call[d].answer)' = Reported(call[d].answer)
        /\ Cardinality(Held(d))' = Cardinality(Held(d)')
    BY DEF Reported
  <2>. QED
    BY <1>1, <1>2, <1>4, <2>1, <2>2, <2>3, <2>4 DEF Quiet
<1>. QED
  BY <1>3, <1>4

LEMMA HonestHandles ==
    ASSUME NotifyInv, HonestInv, NEW n \in Notices, PortalHandles(n)
    PROVE  HonestInv'
<1>1. PICK deliveries \in [Members -> [status : {"sent", "pending", "failed"},
                                       by : Notices]] :
         /\ Deliver(n, call[n].key, deliveries)
         /\ LET failed == Count(deliveries, "failed") = Cardinality(Members)
            IN \E status \in {"500", "malformed"}
                                \cup (IF failed THEN {"502", "200"} ELSE {"200"}) :
                  Answers(n, status, deliveries)
  BY DEF PortalHandles
<1>2. PICK status \in {"500", "malformed", "502", "200"} :
         /\ Answers(n, status, deliveries)
         /\ status = "502" => Count(deliveries, "failed") = Cardinality(Members)
  BY <1>1
<1>3. call[n].step = "waiting" /\ UNCHANGED late /\ Started(n)
  BY DEF PortalHandles, Started
<1>4. call[n] \in NoticeCall /\ call \in [Notices -> NoticeCall]
  BY DEF NotifyInv, NotifyTypes
<1>5. /\ \A d \in Notices \ {n} : Clean(d) => Clean(d)'
      /\ \A k \in Keys : Count(StatusFor(k), "sent") <= Count(StatusFor(k)', "sent")
      /\ \A k \in Keys : k = call[n].key => StatusFor(k)' = deliveries
      /\ (\A m \in Members : deliveries[m].status = "failed") => Clean(n)'
      /\ Cardinality(Held(n)') <= Count(deliveries, "sent") + Count(deliveries, "pending")
  BY <1>1, <1>3, DeliverHonest
<1>6. /\ \A d \in Notices \ {n} : call'[d] = call[d]
      /\ call'[n].step = "answered" /\ call'[n].key = call[n].key
      /\ call'[n].phase = call[n].phase /\ call'[n].lost = call[n].lost
      /\ call'[n].current = call[n].current
      /\ call'[n].answer = [status |-> status, sent |-> Count(deliveries, "sent"),
                            pending |-> Count(deliveries, "pending")]
  BY <1>2, <1>4 DEF Answers, NoticeCall
<1>7. Quiet(n)'
  \* All deliveries have failed if the answer says so.
  <2>1. ASSUME Silent(call'[n])
        PROVE  Clean(n)'
    <3>1. CASE status = "502"
      BY <1>2, <1>5, <3>1, CountAll
    <3>2. CASE status # "502"
      <4>1. Count(deliveries, "sent") = 0 /\ Count(deliveries, "pending") = 0
        BY <1>6, <2>1, <3>2 DEF Silent, NothingSent
      <4>2. \A m \in Members : deliveries[m].status # "sent" /\ deliveries[m].status # "pending"
        BY <4>1, CountNone
      <4>3. \A m \in Members : deliveries[m].status \in {"sent", "pending", "failed"}
        OBVIOUS
      <4>. QED
        BY <1>5, <4>2, <4>3
    <3>. QED
      BY <3>1, <3>2
  <2>2. Clean(n)' => Cardinality(Held(n)') = 0
    <3>1. Clean(n)' => Held(n)' = {}
      BY DEF Clean, Held
    <3>. QED
      BY <3>1, FS_EmptySet
  <2>3. Reported(call'[n].current) \in Nat
    BY <1>4, <1>6, CountedNat DEF NoticeCall
  <2>4. Reported(call'[n].answer) = Count(deliveries, "sent") + Count(deliveries, "pending")
    BY <1>6 DEF Reported
  <2>5. ~call[n].lost => late'[n] = 0
    BY <1>3 DEF HonestInv, Quiet
  <2>6. /\ Silent(call[n])' = Silent(call'[n])
        /\ Reported(call[n].current)' = Reported(call'[n].current)
        /\ Reported(call[n].answer)' = Reported(call'[n].answer)
        /\ Cardinality(Held(n))' = Cardinality(Held(n)')
    BY DEF Silent, NothingSent, Reported
  <2>7. call'[n].answer.status = status /\ status # "network"
    BY <1>6
  <2>8. 0 <= Reported(call'[n].current)
    BY <2>3
  <2> HIDE DEF Reported
  <2>. QED
    BY <1>5, <1>6, <2>1, <2>2, <2>4, <2>5, <2>6, <2>7, <2>8 DEF Quiet
<1>8. Told(n)'
  <2>1. Count(deliveries, "sent") \in Nat
    BY CountType
  <2>2. PICK key \in Keys : key = call[n].key
    BY <1>3 DEF NotifyInv, KeyInv
  <2>3. Count(StatusFor(call[n].key), "sent")' = Count(StatusFor(key)', "sent")
    BY <1>6, <2>2 DEF Count, StatusFor, Unsent
  <2>. QED
    BY <1>5, <1>6, <2>1, <2>2, <2>3 DEF Told
<1>9. ASSUME NEW d \in Notices, d # n
      PROVE  Quiet(d)' /\ Told(d)'
  <2>1. call'[d] = call[d] /\ late'[d] = late[d]
    BY <1>3, <1>6, <1>9
  <2>. QED
    BY <1>1, <1>3, <1>9, <2>1, HonestOthers
<1>. QED
  BY <1>7, <1>8, <1>9 DEF HonestInv

LEMMA HonestHandlesLate ==
    ASSUME NotifyInv, HonestInv, NEW n \in Notices, PortalHandlesLate(n)
    PROVE  HonestInv'
<1>1. /\ late[n] > 0 /\ UNCHANGED call
      /\ late' = [late EXCEPT ![n] = @ - 1]
  BY DEF PortalHandlesLate
<1>2. PICK deliveries \in [Members -> [status : {"sent", "pending", "failed"},
                                       by : Notices]] :
         Deliver(n, call[n].key, deliveries)
  BY DEF PortalHandlesLate
<1>3. Started(n)
  BY <1>1 DEF NotifyInv, LateInv, Within
<1>4. late[n] # 0 /\ \A d \in Notices \ {n} : late'[d] = late[d]
  BY <1>1 DEF NotifyInv, NotifyTypes
\* The request was given up after a lost answer.
<1>5. Quiet(n)'
  <2>1. call[n].lost
    BY <1>4 DEF HonestInv, Quiet
  <2>. QED
    BY <1>1, <2>1 DEF HonestInv, Quiet
<1>6. \A d \in Notices : Told(d)' /\ (d # n => Quiet(d)')
  BY <1>1, <1>2, <1>3, <1>4, HonestOthers
<1>. QED
  BY <1>5, <1>6 DEF HonestInv

LEMMA HonestRefuses ==
    ASSUME NotifyInv, HonestInv, NEW n \in Notices, PortalRefuses(n)
    PROVE  HonestInv'
<1>1. PICK status \in {"400", "401", "404", "410", "500"} : Answers(n, status, Unsent)
  BY DEF PortalRefuses
<1>2. call[n].step = "waiting" /\ UNCHANGED <<portal, late, got>>
  BY DEF PortalRefuses
<1>3. call[n] \in NoticeCall /\ call \in [Notices -> NoticeCall]
  BY DEF NotifyInv, NotifyTypes
<1>4. /\ \A d \in Notices \ {n} : call'[d] = call[d]
      /\ call'[n].step = "answered" /\ call'[n].answer.status = status
      /\ call'[n].phase = call[n].phase /\ call'[n].lost = call[n].lost
      /\ call'[n].current = call[n].current
  BY <1>1, <1>3 DEF Answers, NoticeCall
<1>5. Clean(n)' = Clean(n) /\ Held(n)' = Held(n)
  BY <1>2 DEF Clean, Held
<1>6. Quiet(n)'
  <2>1. ~call[n].lost =>
           /\ late[n] = 0
           /\ call[n].phase = "base" => Clean(n)
           /\ call[n].phase = "pending" => Cardinality(Held(n)) <= Reported(call[n].current)
    BY <1>2 DEF HonestInv, Quiet, Silent
  \* A refusal does not say that deliveries have failed.
  <2>2. ~Undelivered(call'[n]) /\ Undelivered(call[n])' = Undelivered(call'[n])
    BY <1>4 DEF Undelivered, NothingSent
  <2>3. Reported(call[n].current)' = Reported(call[n].current)
    BY <1>4 DEF Reported
  <2>. QED
    BY <1>2, <1>4, <1>5, <2>1, <2>2, <2>3 DEF Quiet
<1>7. Told(n)'
  BY <1>4 DEF Told
<1>. QED
  BY <1>2, <1>4, <1>6, <1>7, HonestOne

\* What the tool tells the agent is true, after any steps of calls and portal:
\* "delivered" after an answer that says so, which the portal does not take
\* back; a failure, unless an answer was lost, after answers that say nothing
\* was sent for this call, or after one that says how many of it posting again
\* can hide at most.
THEOREM ToldTruth == NotifySpec => []OutcomeHonest
<1>1. NotifyInit => HonestInv
  <2> SUFFICES ASSUME NotifyInit PROVE HonestInv
    OBVIOUS
  <2>1. /\ call = [n \in Notices |-> NewCall] /\ DOMAIN portal = {}
        /\ late = [n \in Notices |-> 0]
    BY DEF NotifyInit
  <2>2. NewCall.step = "new" /\ NewCall.phase = "base"
    BY DEF NewCall
  <2>. QED
    BY <2>1, <2>2 DEF HonestInv, Quiet, Told, Clean
<1>2. NotifyInv /\ HonestInv /\ [NotifyNext]_notifyVars => HonestInv'
  <2> SUFFICES ASSUME NotifyInv, HonestInv, [NotifyNext]_notifyVars PROVE HonestInv'
    OBVIOUS
  <2>1. CASE UNCHANGED notifyVars
    <3>1. call' = call /\ portal' = portal /\ late' = late
      BY <2>1 DEF notifyVars
    <3>2. SUFFICES ASSUME NEW d \in Notices
                   PROVE  Quiet(d)' /\ Told(d)'
      BY DEF HonestInv
    <3>3. /\ Silent(call[d])' = Silent(call[d]) /\ Undelivered(call[d])' = Undelivered(call[d])
          /\ Clean(d)' = Clean(d) /\ Held(d)' = Held(d)
          /\ Count(StatusFor(call[d].key), "sent")' = Count(StatusFor(call[d].key), "sent")
      BY <3>1 DEF Silent, Undelivered, NothingSent, Clean, Held, Count, StatusFor, Unsent
    <3>. QED
      BY <3>1, <3>3 DEF HonestInv, Quiet, Told, Reported
  <2>2. CASE NotifyNext
    <3>1. PICK n \in Notices :
             \/ Send(n) \/ Post(n) \/ NetworkError(n) \/ Retry(n) \/ GiveUp(n)
             \/ Refused(n) \/ PostAgain(n) \/ Succeed(n)
             \/ PortalHandles(n) \/ PortalRefuses(n) \/ PortalHandlesLate(n)
      BY <2>2 DEF NotifyNext
    <3>2. CASE Send(n) \/ Post(n) \/ NetworkError(n) \/ Retry(n) \/ PostAgain(n)
      BY <3>2, HonestClient
    <3>3. CASE GiveUp(n) \/ Refused(n) \/ Succeed(n)
      BY <3>3, HonestEnds
    <3>4. CASE PortalHandles(n)
      BY <3>4, HonestHandles
    <3>5. CASE PortalRefuses(n)
      BY <3>5, HonestRefuses
    <3>6. CASE PortalHandlesLate(n)
      BY <3>6, HonestHandlesLate
    <3>. QED
      BY <3>1, <3>2, <3>3, <3>4, <3>5, <3>6
  <2>. QED
    BY <2>1, <2>2
\* Nothing sent and nothing pending for a call: no member has it.
<1>3. NotifyInv /\ HonestInv => OutcomeHonest
  <2> SUFFICES ASSUME NotifyInv, HonestInv, NEW n \in Notices, call[n].step = "done"
               PROVE  IF call[n].result = "ok"
                      THEN /\ call[n].answer.sent <= Count(StatusFor(call[n].key), "sent")
                           /\ call[n].answer.sent + call[n].answer.pending > 0
                      ELSE \/ call[n].lost
                           \/ Notified(n) = {}
                           \/ /\ call[n].result # "delivery" /\ call[n].phase = "pending"
                              /\ Cardinality(Notified(n))
                                    <= call[n].current.sent + call[n].current.pending
    BY DEF OutcomeHonest
  <2>1. Quiet(n) /\ Told(n) /\ call[n] \in NoticeCall
    BY DEF HonestInv, NotifyInv, NotifyTypes
  <2>2. CASE call[n].result = "ok"
    BY <2>1, <2>2 DEF Told
  \* Whoever has been notified is held.
  <2>3. Notified(n) \subseteq Held(n)
    <3>1. SUFFICES ASSUME NEW m \in Members, got[n][m] > 0
                   PROVE  m \in Held(n)
      BY DEF Notified
    <3> DEFINE k == call[n].key
    <3>2. got[n][m] # 0
      BY <3>1
    <3>3. k \in DOMAIN portal /\ portal[k][m] = [status |-> "sent", by |-> n]
      BY <3>2 DEF NotifyInv, GotInv
    <3>. QED
      BY <3>3 DEF Held
  <2>4. CASE call[n].result # "ok" /\ ~call[n].lost
    <3>1. Silent(call[n])
      BY <2>4 DEF Silent
    <3>2. CASE call[n].phase = "base" \/ call[n].result = "delivery"
      <4>1. Clean(n)
        BY <2>1, <2>4, <3>1, <3>2 DEF Quiet, Undelivered
      <4>2. Held(n) = {}
        BY <4>1 DEF Clean, Held
      <4>. QED
        BY <2>3, <2>4, <4>2
    <3>3. CASE call[n].phase = "pending" /\ call[n].result # "delivery"
      <4>1. Cardinality(Held(n)) <= Reported(call[n].current)
        BY <2>1, <2>4, <3>1, <3>3 DEF Quiet
      <4>2. /\ IsFiniteSet(Held(n)) /\ Cardinality(Held(n)) \in Nat
            /\ Reported(call[n].current) \in Nat
        BY <2>1, HeldFinite, CountedNat DEF NoticeCall
      <4>3. /\ Cardinality(Notified(n)) <= Cardinality(Held(n))
            /\ Cardinality(Notified(n)) \in Nat
        BY <2>3, <4>2, FS_Subset, FS_CardinalityType
      <4>4. Cardinality(Notified(n)) <= Reported(call[n].current)
        BY <4>1, <4>2, <4>3
      <4>. QED
        BY <2>4, <3>3, <4>4 DEF Reported
    <3>4. call[n].phase \in {"base", "pending"}
      BY <2>1 DEF NoticeCall
    <3>. QED
      BY <3>2, <3>3, <3>4
  <2>. QED
    BY <2>2, <2>4
<1>. QED
  BY <1>1, <1>2, <1>3, NotifyInvariant, PTL DEF NotifySpec
=============================================================================
