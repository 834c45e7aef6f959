---------------------------- MODULE RecordProofs ------------------------------
(***************************************************************************)
(* What the office records of the world is so, for every value of the      *)
(* constants: photos and documents in folders, answers of the registry,    *)
(* folders and the cases they belong to.                                   *)
(***************************************************************************)
EXTENDS DecisionProofs, MoneyProofs, PolicyTextProofs

-----------------------------------------------------------------------------
(* Photos on their way                                                     *)

\* What the office does, its part does, or nothing.
LEMMA PhotosRuns == OfficeSpec => Photos!Spec
<1>1. OfficeInit => Photos!Init
  BY DEF OfficeInit
<1>2. [OfficeNext]_officeVars => [Photos!Next]_(Photos!vars)
  BY DEF OfficeNext, officeVars, Only, photoRows, Photos!vars, TextStep, AnalysisStep,
     AiStep, AccountsStep, FeesStep, MailStep, LossStep, RegistryStep, PhotosStep,
     TramerStep, TrackingStep
<1> QED
  BY <1>1, <1>2, PTL DEF OfficeSpec, Photos!Spec

LEMMA PhotosCounts == \A S : Photos!Cardinality(S) = Cardinality(S)
BY DEF Photos!Cardinality, Cardinality

UploadRows == [status : {"absent", "receiving", "queued", "processing", "ready"} \cup Photos!Rejected,
               received : 0..Pieces, out : 0..MaxName, place : Places, ver : 1..(MaxMoves + 1),
               holder : FileAgents \cup {Nobody}, live : BOOLEAN, tries : 0..MaxUploads]
AgentRuns == [pc : {"idle", "claimed", "named", "prepared", "published", "again", "moved",
                    "unsupported"},
              upload : Uploads \cup {Nobody}, asked : 0..MaxName, name : 0..MaxName,
              place : Places, reserved : SUBSET Photos!Names]
FileKinds == {Image[u] : u \in Uploads} \cup {"other", Nobody}

PhotosTyped ==
  /\ upload \in [Uploads -> UploadRows] /\ courier \in [FileAgents -> AgentRuns]
  /\ files \in [Photos!Names -> FileKinds] /\ place \in Places
  /\ target.place \in Places /\ target.ver \in Nat \ {0}
  /\ target = [place |-> target.place, ver |-> target.ver]
  /\ busy \in BOOLEAN /\ moves \in 0..MaxMoves

\* What is acknowledged of an original is on the disk.
PiecesKept ==
  /\ spool = [u \in Uploads |-> spool[u]]
  /\ \A u \in Uploads :
       /\ spool[u] \in Seq({"piece", "torn"})
       /\ Len(spool[u]) >= upload[u].received /\ Len(spool[u]) <= Pieces
       /\ \A i \in 1..upload[u].received : spool[u][i] = "piece"

\* Locations follow the folder; what was written under one version is at one place.
PlacesFit ==
  /\ target.ver <= moves + 1 /\ (place # target.place => target.ver <= moves)
  /\ \A u \in Uploads :
       /\ upload[u].ver <= target.ver
          /\ (upload[u].ver = target.ver => upload[u].place = target.place)
       /\ moves <= 1 /\ upload[u].ver = 1 /\ target.ver # 1 => upload[u].place # target.place
  /\ \A u, v \in Uploads : upload[u].ver = upload[v].ver => upload[u].place = upload[v].place
  /\ moves = 0 =>
       /\ target.place = place
       /\ \A a \in FileAgents : courier[a].pc \in {"claimed", "named", "prepared"} =>
            courier[a].place = place

\* Before the folder moves, names are given once.
NamesDiffer ==
  \A u, v \in Uploads :
    /\ u # v /\ upload[u].out = upload[v].out
    /\ upload[u].ver = 1 /\ upload[v].ver = 1
    => upload[u].out = 0

\* A run works for an upload; the one that holds it knows its name.
RunsFit ==
  \A a \in FileAgents :
    LET u == courier[a].upload
    IN /\ courier[a].pc # "idle" => u \in Uploads
       /\ courier[a].pc \in {"named", "prepared", "published"} => courier[a].name \in Photos!Names
       /\ courier[a].pc = "published" => files[courier[a].name] = Image[u]
       /\ courier[a].pc # "idle" /\ upload[u].holder = a =>
            /\ courier[a].pc = "claimed" => courier[a].asked = upload[u].out
            /\ courier[a].pc \in {"prepared", "published"} => courier[a].name = upload[u].out

ReadyKept ==
  \A u \in Uploads : upload[u].status = "ready" =>
    upload[u].out \in Photos!Names /\ files[upload[u].out] = Image[u]

\* A run may put the photo of u under its name.
Pending(b, u) ==
  /\ courier[b].pc = "prepared" /\ courier[b].upload = u
  /\ Photos!FolderHere(b) /\ files[courier[b].name] = Nobody

\* No file is the photo of u.
Clear(u) == \A n \in Photos!Names : files[n] # Image[u]

\* The photo of u is under the name of u only, and no run will put it elsewhere: the
\* one that holds u has its name, or u has no file and will not get one of others.
OnceFor(u) ==
  /\ \A n \in Photos!Names : files[n] = Image[u] => n = upload[u].out
  /\ \A b \in FileAgents : Pending(b, u) => courier[b].name = upload[u].out
  /\ \A a \in FileAgents : courier[a].upload = u /\ upload[u].holder = a =>
       /\ courier[a].pc = "named" =>
            \/ courier[a].name = courier[a].asked /\ courier[a].asked = upload[u].out
            \/ Clear(u) /\ \A b \in FileAgents : ~Pending(b, u)
       /\ courier[a].pc = "prepared" =>
            \/ courier[a].name = courier[a].asked
            \/ Clear(u) /\ \A b \in FileAgents \ {a} : ~Pending(b, u)

PhotosOnce == \A u \in Uploads : moves <= 1 /\ Photos!OthersStayed(u) => OnceFor(u)

PhotosInv ==
  /\ PhotosTyped /\ PiecesKept /\ PlacesFit /\ NamesDiffer /\ RunsFit /\ ReadyKept /\ PhotosOnce

LEMMA OneAtMost ==
  ASSUME NEW S, IsFiniteSet(S), Cardinality(S) <= 1, NEW x \in S, NEW y \in S
  PROVE  x = y
<1> SUFFICES ASSUME x # y PROVE FALSE
  OBVIOUS
<1>1. IsFiniteSet({x, y}) /\ Cardinality({x, y}) = 2
  <2>1. IsFiniteSet({x}) /\ Cardinality({x}) = 1
    BY FS_Singleton
  <2>2. Cardinality({x} \cup {y}) = Cardinality({x}) + 1 /\ IsFiniteSet({x} \cup {y})
    BY <2>1, FS_AddElement
  <2>3. {x, y} = {x} \cup {y}
    OBVIOUS
  <2> QED
    BY <2>1, <2>2, <2>3
<1>2. Cardinality({x, y}) <= Cardinality(S) /\ Cardinality(S) \in Nat
  BY FS_Subset, FS_CardinalityType
<1> QED
  BY <1>1, <1>2

LEMMA AtMostOne ==
  ASSUME NEW S, NEW x, S \subseteq {x}
  PROVE  Cardinality(S) <= 1
<1>1. IsFiniteSet({x}) /\ Cardinality({x}) = 1
  BY FS_Singleton
<1> QED
  BY <1>1, FS_Subset

LEMMA NoRunTyped == ASSUME place \in Places PROVE Photos!NoRun \in AgentRuns
<1>1. (CHOOSE p \in Places : TRUE) \in Places
  OBVIOUS
<1> QED
  BY <1>1, PhotosAssumption DEF Photos!NoRun, AgentRuns

LEMMA PhotosBegins == Photos!Init => PhotosInv
<1> SUFFICES ASSUME Photos!Init PROVE PhotosInv
  OBVIOUS
<1> USE PhotosAssumption
<1>1. PICK over \in SUBSET Uploads :
        upload = [u \in Uploads |->
          [status |-> IF u \in over THEN "unsupported" ELSE "absent",
           received |-> IF u \in over THEN Pieces ELSE 0, out |-> IF u \in over THEN 1 ELSE 0,
           place |-> place, ver |-> 1, holder |-> Nobody, live |-> FALSE, tries |-> 0]]
  BY DEF Photos!Init
<1>2. upload \in [Uploads -> UploadRows]
      /\ \A u \in Uploads : /\ upload[u].ver = 1 /\ upload[u].place = place
                            /\ upload[u].status # "ready"
                            /\ upload[u].out # 0 <=> u \in Photos!GivenUp
  BY <1>1 DEF Photos!Init, UploadRows, Photos!Rejected, Photos!GivenUp
<1>3. PhotosTyped
  <2>1. courier \in [FileAgents -> AgentRuns]
    BY NoRunTyped DEF Photos!Init
  <2>2. files \in [Photos!Names -> FileKinds] /\ moves \in 0 .. MaxMoves /\ busy \in BOOLEAN
    <3>1. Nobody \in FileKinds
      BY DEF FileKinds
    <3>2. files = [n \in Photos!Names |-> Nobody] /\ moves = 0 /\ busy = FALSE
      BY DEF Photos!Init
    <3>3. files \in [Photos!Names -> FileKinds]
      BY <3>1, <3>2
    <3>4. moves \in 0 .. MaxMoves
      BY <3>2
    <3> QED
      BY <3>2, <3>3, <3>4
  <2>3. target = [place |-> place, ver |-> 1] /\ place \in Places
    BY DEF Photos!Init
  <2> QED
    BY <1>2, <2>1, <2>2, <2>3 DEF PhotosTyped
<1>4. PiecesKept
  <2>1. \A u \in Uploads : upload[u].received \in 0 .. Pieces
    BY <1>2 DEF UploadRows
  <2>2. \A u \in Uploads : spool[u] = [i \in 1..upload[u].received |-> "piece"]
    BY DEF Photos!Init
  <2> QED
    BY <2>1, <2>2 DEF Photos!Init, PiecesKept
<1>5. PlacesFit
  BY <1>2 DEF Photos!Init, PlacesFit, Photos!NoRun
<1>6. NamesDiffer
  <2>1. \A u, v \in Photos!GivenUp : u = v
    <3>1. IsFiniteSet(Photos!GivenUp) /\ Cardinality(Photos!GivenUp) <= 1
      BY FS_Subset, PhotosCounts DEF Photos!GivenUp, Photos!Init
    <3> QED
      BY <3>1, OneAtMost
  <2> QED
    BY <1>2, <2>1 DEF NamesDiffer
<1>7. RunsFit /\ ReadyKept
  BY <1>2 DEF Photos!Init, RunsFit, ReadyKept, Photos!NoRun
<1>8. PhotosOnce
  BY DEF Photos!Init, PhotosOnce, OnceFor, Pending, Photos!NoRun
<1> QED
  BY <1>3, <1>4, <1>5, <1>6, <1>7, <1>8 DEF PhotosInv

\* Nobody who was taken up at the new place goes back.
LEMMA StayedBefore ==
  ASSUME PhotosInv, NEW u \in Uploads, moves' <= 1, Photos!OthersStayed(u)', moves' \in Nat,
    moves <= moves',
         \A v \in Uploads : /\ upload[v].out # 0 => upload'[v].out # 0
                            /\ upload'[v].ver \in Nat /\ upload[v].ver <= upload'[v].ver
  PROVE  moves <= 1 /\ Photos!OthersStayed(u)
<1>1. moves \in Nat /\ \A v \in Uploads : upload[v].ver \in Nat \ {0}
  BY PhotosAssumption DEF PhotosInv, PhotosTyped, UploadRows
<1> QED
  BY <1>1 DEF Photos!OthersStayed

\* The row of an upload is written, but not its name and not who holds it; a run
\* goes on as it was or ends.
LEMMA PhotosRowsKeep ==
  ASSUME PhotosInv, UNCHANGED <<spool, files, place, target, moves>>, busy' \in BOOLEAN,
         upload' \in [Uploads -> UploadRows], courier' \in [FileAgents -> AgentRuns],
         \A u \in Uploads :
           /\ upload'[u].received = upload[u].received /\ upload'[u].out = upload[u].out
           /\ upload'[u].holder = upload[u].holder
           /\ \/ upload'[u].place = upload[u].place /\ upload'[u].ver = upload[u].ver
              \/ upload'[u].place = target.place /\ upload'[u].ver = target.ver
           /\ upload'[u].status = "ready" =>
                \/ upload[u].status = "ready"
                \/ upload[u].out \in Photos!Names /\ files[upload[u].out] = Image[u],
         \A a \in FileAgents :
           \/ courier'[a] = courier[a]
           \/ /\ courier'[a].pc \in {"idle", "again", "moved", "unsupported"}
              /\ courier'[a].pc # "idle" => courier'[a].upload \in Uploads
  PROVE  PhotosInv'
<1>1. PhotosTyped'
  BY DEF PhotosInv, PhotosTyped
<1>2. PiecesKept'
  BY DEF PhotosInv, PiecesKept
<1>3. /\ moves \in Nat /\ target.ver \in Nat \ {0}
      /\ \A u \in Uploads : upload[u].ver \in Nat \ {0} /\ upload'[u].ver \in Nat \ {0}
                            /\ upload[u].ver <= upload'[u].ver /\ upload'[u].ver <= target.ver
  BY PhotosAssumption DEF PhotosInv, PhotosTyped, UploadRows, PlacesFit
<1>4. PlacesFit'
  <2>1. ASSUME NEW u \in Uploads
        PROVE  /\ upload'[u].ver <= target.ver
                  /\ (upload'[u].ver = target.ver => upload'[u].place = target.place)
               /\ moves <= 1 /\ upload'[u].ver = 1
                  /\ target.ver # 1 => upload'[u].place # target.place
    BY <1>3 DEF PhotosInv, PlacesFit
  <2>2. ASSUME NEW u \in Uploads, NEW v \in Uploads, upload'[u].ver = upload'[v].ver
        PROVE  upload'[u].place = upload'[v].place
    BY <1>3, <2>1, <2>2 DEF PhotosInv, PlacesFit
  <2>3. moves = 0 =>
          /\ target.place = place
          /\ \A a \in FileAgents : courier'[a].pc \in {"claimed", "named", "prepared"} =>
               courier'[a].place = place
    BY DEF PhotosInv, PlacesFit
  <2>4. target.ver <= moves + 1 /\ (place # target.place => target.ver <= moves)
    BY DEF PhotosInv, PlacesFit
  <2> QED
    BY <2>1, <2>2, <2>3, <2>4 DEF PlacesFit
<1>5. NamesDiffer'
  <2>1. ASSUME NEW u \in Uploads, upload'[u].ver = 1 PROVE upload[u].ver = 1
    <3>1. upload[u].ver \in Nat \ {0} /\ upload[u].ver <= 1
      BY <1>3, <2>1
    <3> QED
      BY <3>1
  <2> QED
    BY <2>1 DEF PhotosInv, NamesDiffer
<1>6. RunsFit'
  <2>1. \A a \in FileAgents : courier[a].pc # "idle" => courier[a].upload \in Uploads
    BY DEF PhotosInv, RunsFit
  <2> QED
    BY <2>1 DEF PhotosInv, RunsFit
<1>7. ReadyKept'
  BY DEF PhotosInv, ReadyKept
<1>8. PhotosOnce'
  <2>1. ASSUME NEW u \in Uploads, moves' <= 1, Photos!OthersStayed(u)' PROVE OnceFor(u)'
    <3>1. moves <= 1 /\ Photos!OthersStayed(u)
      BY <1>3, <2>1, StayedBefore
    <3>2. OnceFor(u)
      BY <3>1 DEF PhotosInv, PhotosOnce
    <3>3. \A b \in FileAgents : Pending(b, u)' => Pending(b, u) /\ courier'[b] = courier[b]
      BY DEF Pending, Photos!FolderHere
    <3>4. Clear(u) => Clear(u)'
      BY DEF Clear
    <3> QED
      BY <3>2, <3>3, <3>4 DEF OnceFor
  <2> QED
    BY <2>1 DEF PhotosOnce
<1> QED
  BY <1>1, <1>2, <1>4, <1>5, <1>6, <1>7, <1>8 DEF PhotosInv

LEMMA PhotosInvRows ==
  PhotosInv => /\ upload \in [Uploads -> UploadRows] /\ courier \in [FileAgents -> AgentRuns]
               /\ files \in [Photos!Names -> FileKinds] /\ place \in Places
               /\ target.place \in Places /\ target.ver \in 1 .. MaxMoves + 1
                  /\ Photos!NoRun \in AgentRuns
               /\ busy \in BOOLEAN /\ moves \in Nat
<1>1. PhotosInv => target.ver \in 1 .. MaxMoves + 1 /\ moves \in Nat
  BY PhotosAssumption DEF PhotosInv, PhotosTyped, PlacesFit
<1> QED
  BY <1>1, NoRunTyped DEF PhotosInv, PhotosTyped

LEMMA PersonKeeps ==
  ASSUME PhotosInv, NEW u \in Uploads,
         Photos!StartUpload(u) \/ Photos!Finish(u) \/ Photos!Cancel(u) \/ Photos!Retry(u)
           \/ Photos!LeaseExpires(u)
  PROVE  PhotosInv'
<1> USE PhotosInvRows
<1>1. UNCHANGED <<spool, files, place, target, moves, busy, courier>>
  BY DEF Photos!StartUpload, Photos!Finish, Photos!Cancel, Photos!Retry, Photos!LeaseExpires
<1>2. PICK new \in UploadRows :
        /\ upload' = [upload EXCEPT ![u] = new] /\ new.status # "ready"
        /\ new.received = upload[u].received /\ new.out = upload[u].out
        /\ new.holder = upload[u].holder
        /\ \/ new.place = upload[u].place /\ new.ver = upload[u].ver
           \/ new.place = target.place /\ new.ver = target.ver
  <2>1. upload[u] \in UploadRows
    OBVIOUS
  <2> DEFINE here(st) == [[[upload[u] EXCEPT !.status = st] EXCEPT !.place = target.place]
                            EXCEPT !.ver = target.ver]
             as(st) == [upload[u] EXCEPT !.status = st]
             again == [[[[upload[u] EXCEPT !.status = "queued"] EXCEPT !.tries = 0]
                          EXCEPT !.place = target.place] EXCEPT !.ver = target.ver]
             expired == [upload[u] EXCEPT !.live = FALSE]
  <2>2. ASSUME NEW st \in {"receiving", "queued", "cancelled"}
        PROVE  /\ here(st) \in UploadRows /\ here(st).status = st /\ here(st).out = upload[u].out
               /\ here(st).received = upload[u].received /\ here(st).holder = upload[u].holder
               /\ here(st).place = target.place /\ here(st).ver = target.ver
    BY <2>1 DEF UploadRows, Photos!Rejected
  <2>3. ASSUME NEW st \in {"receiving", "queued", "cancelled"}
        PROVE  /\ as(st) \in UploadRows /\ as(st).status = st /\ as(st).out = upload[u].out
               /\ as(st).received = upload[u].received /\ as(st).holder = upload[u].holder
               /\ as(st).place = upload[u].place /\ as(st).ver = upload[u].ver
    BY <2>1 DEF UploadRows, Photos!Rejected
  <2>4. /\ again \in UploadRows /\ again.status = "queued" /\ again.out = upload[u].out
        /\ again.received = upload[u].received /\ again.holder = upload[u].holder
        /\ again.place = target.place /\ again.ver = target.ver
    <3> DEFINE fresh == [[upload[u] EXCEPT !.status = "queued"] EXCEPT !.tries = 0]
    <3>0. 0 \in 0 .. MaxUploads
      BY PhotosAssumption
    <3>1. /\ fresh \in UploadRows /\ fresh.status = "queued" /\ fresh.out = upload[u].out
          /\ fresh.received = upload[u].received /\ fresh.holder = upload[u].holder
      BY <2>1, <3>0 DEF UploadRows
    <3>2. again = [[fresh EXCEPT !.place = target.place] EXCEPT !.ver = target.ver]
      OBVIOUS
    <3> HIDE DEF fresh, again
    <3> QED
      BY <3>1, <3>2 DEF UploadRows
  <2>5. /\ expired \in UploadRows /\ expired.status = upload[u].status
        /\ expired.out = upload[u].out
        /\ expired.received = upload[u].received /\ expired.holder = upload[u].holder
        /\ expired.place = upload[u].place /\ expired.ver = upload[u].ver
    BY <2>1 DEF UploadRows
  <2>6. CASE Photos!StartUpload(u)
    <3>1. \/ upload' = [upload EXCEPT ![u] = here("receiving")]
          \/ upload' = [upload EXCEPT ![u] = as("receiving")]
      BY <2>6 DEF Photos!StartUpload
    <3> HIDE DEF here, as
    <3> QED
      BY <2>2, <2>3, <3>1
  <2>7. CASE Photos!Finish(u) \/ Photos!Cancel(u)
    <3>1. \/ upload' = [upload EXCEPT ![u] = as("queued")]
          \/ upload' = [upload EXCEPT ![u] = as("cancelled")]
      BY <2>7 DEF Photos!Finish, Photos!Cancel
    <3> HIDE DEF as
    <3> QED
      BY <2>3, <3>1
  <2>8. CASE Photos!Retry(u)
    <3>1. upload' = [upload EXCEPT ![u] = again]
      BY <2>8 DEF Photos!Retry
    <3> HIDE DEF again
    <3> QED
      BY <2>4, <3>1
  <2>9. CASE Photos!LeaseExpires(u)
    <3>1. upload' = [upload EXCEPT ![u] = expired] /\ upload[u].status # "ready"
      BY <2>9 DEF Photos!LeaseExpires, Photos!InHand
    <3> HIDE DEF expired
    <3> QED
      BY <2>5, <3>1
  <2> QED
    BY <2>6, <2>7, <2>8, <2>9
<1>3. upload' \in [Uploads -> UploadRows] /\ upload'[u] = new
      /\ \A v \in Uploads : v # u => upload'[v] = upload[v]
  BY <1>2
<1> QED
  BY <1>1, <1>2, <1>3, PhotosRowsKeep

LEMMA PiecesStayKept ==
  ASSUME PiecesKept, NEW u \in Uploads, NEW s \in Seq({"piece", "torn"}),
         spool' = [spool EXCEPT ![u] = s],
         \A v \in Uploads \ {u} : upload'[v] = upload[v],
         Len(s) >= upload'[u].received, Len(s) <= Pieces,
         \A i \in 1 .. upload'[u].received : s[i] = "piece"
  PROVE  PiecesKept'
<1>1. spool' = [v \in Uploads |-> IF v = u THEN s ELSE spool[v]]
  BY DEF PiecesKept
<1>2. spool' = [v \in Uploads |-> spool'[v]]
  BY <1>1
<1>3. \A v \in Uploads : spool'[v] = IF v = u THEN s ELSE spool[v]
  BY <1>1
<1> QED
  BY <1>2, <1>3 DEF PiecesKept

\* Only the disk of the server and what it has acknowledged change.
LEMMA ChunksKeep == ASSUME PhotosInv, NEW u \in Uploads, Photos!Chunk(u)
  \/ Photos!ChunkDies(u) PROVE PhotosInv'
<1> USE PhotosInvRows
<1>1. UNCHANGED <<files, place, target, moves, busy, courier>>
  BY DEF Photos!Chunk, Photos!ChunkDies
<1>2. /\ upload[u].received \in Nat /\ upload[u].received < Pieces /\ Pieces \in Nat
      /\ upload[u].status = "receiving"
  BY PhotosAssumption DEF Photos!Chunk, Photos!ChunkDies, UploadRows
<1>3. /\ Photos!Committed(u) \in Seq({"piece", "torn"})
        /\ Len(Photos!Committed(u)) = upload[u].received
      /\ \A i \in 1 .. upload[u].received : Photos!Committed(u)[i] = "piece"
  BY <1>2 DEF Photos!Committed, PhotosInv, PiecesKept
<1>4. /\ upload' \in [Uploads -> UploadRows]
      /\ \A v \in Uploads :
           /\ upload'[v].out = upload[v].out /\ upload'[v].holder = upload[v].holder
           /\ upload'[v].place = upload[v].place /\ upload'[v].ver = upload[v].ver
           /\ upload'[v].status = upload[v].status
           /\ v # u => upload'[v] = upload[v]
  <2>1. CASE Photos!Chunk(u)
    <3> DEFINE more == [upload[u] EXCEPT !.received = @ + 1]
    <3>1. upload[u].received + 1 \in 0 .. Pieces
      BY <1>2
    <3>2. /\ more \in UploadRows /\ more.out = upload[u].out /\ more.holder = upload[u].holder
          /\ more.place = upload[u].place /\ more.ver = upload[u].ver
          /\ more.status = upload[u].status
      BY <3>1 DEF UploadRows
    <3>3. upload' = [upload EXCEPT ![u] = more]
      BY <2>1 DEF Photos!Chunk
    <3> HIDE DEF more
    <3> QED
      BY <3>2, <3>3
  <2>2. CASE Photos!ChunkDies(u)
    BY <2>2 DEF Photos!ChunkDies
  <2> QED
    BY <2>1, <2>2
<1>5. PiecesKept'
  <2>1. CASE Photos!Chunk(u)
    <3>1. /\ upload'[u].received = upload[u].received + 1
          /\ spool' = [spool EXCEPT ![u] = Append(Photos!Committed(u), "piece")]
      BY <2>1 DEF Photos!Chunk, UploadRows
    <3>2. /\ Append(Photos!Committed(u), "piece") \in Seq({"piece", "torn"})
          /\ Len(Append(Photos!Committed(u), "piece")) = upload[u].received + 1
          /\ \A i \in 1 .. upload[u].received + 1 : Append(Photos!Committed(u), "piece")[i] = "piece"
      BY <1>2, <1>3
    <3>3. upload[u].received + 1 <= Pieces
      BY <1>2
    <3> DEFINE s == Append(Photos!Committed(u), "piece")
    <3>4. /\ s \in Seq({"piece", "torn"}) /\ spool' = [spool EXCEPT ![u] = s]
          /\ Len(s) >= upload'[u].received /\ Len(s) <= Pieces
          /\ \A i \in 1 .. upload'[u].received : s[i] = "piece"
      BY <1>2, <3>1, <3>2, <3>3
    <3>5. PiecesKept /\ \A v \in Uploads \ {u} : upload'[v] = upload[v]
      BY <1>4 DEF PhotosInv
    <3> HIDE DEF s
    <3> QED
      BY <3>4, <3>5, PiecesStayKept
  <2>2. CASE Photos!ChunkDies(u)
    <3>1. PICK rest \in {<<>>, <<"torn">>, <<"piece">>} :
            spool' = [spool EXCEPT ![u] = Photos!Committed(u) \o rest]
      BY <2>2 DEF Photos!ChunkDies
    <3>2. /\ rest \in Seq({"piece", "torn"}) /\ Len(rest) \in 0 .. 1
      <4>1. \/ rest = <<>> \/ rest = <<"torn">> \/ rest = <<"piece">>
        OBVIOUS
      <4>2. <<>> \in Seq({"piece", "torn"}) /\ Len(<<>>) = 0
        OBVIOUS
      <4>3. <<"torn">> \in Seq({"piece", "torn"}) /\ Len(<<"torn">>) = 1
        OBVIOUS
      <4>4. <<"piece">> \in Seq({"piece", "torn"}) /\ Len(<<"piece">>) = 1
        OBVIOUS
      <4>5. CASE rest = <<>>
        BY <4>2, <4>5
      <4>6. CASE rest = <<"torn">>
        BY <4>3, <4>6
      <4>7. CASE rest = <<"piece">>
        BY <4>4, <4>7
      <4> QED
        BY <4>1, <4>5, <4>6, <4>7
    <3> DEFINE both == Photos!Committed(u) \o rest
    <3>3. /\ both \in Seq({"piece", "torn"})
          /\ Len(both) = upload[u].received + Len(rest)
          /\ \A i \in 1 .. upload[u].received : both[i] = "piece"
      BY <1>2, <1>3, <3>2
    <3> HIDE DEF both
    <3>4. spool' = [spool EXCEPT ![u] = both] /\ upload' = upload
      BY <2>2, <3>1 DEF both, Photos!ChunkDies
    <3>5. Len(both) >= upload[u].received /\ Len(both) <= Pieces
      <4> DEFINE n == upload[u].received
                 m == Len(rest)
      <4>1. n \in Nat /\ n < Pieces /\ Pieces \in Nat /\ m \in 0 .. 1 /\ Len(both) = n + m
        BY <1>2, <3>2, <3>3
      <4> HIDE DEF n, m
      <4>2. Len(both) >= n /\ Len(both) <= Pieces
        BY <4>1
      <4> QED
        BY <4>2 DEF n
    <3>6. PiecesKept
      BY DEF PhotosInv
    <3> QED
      BY <3>3, <3>4, <3>5, <3>6, PiecesStayKept
  <2> QED
    BY <2>1, <2>2
<1>6. PhotosTyped'
  BY <1>1, <1>4 DEF PhotosInv, PhotosTyped
<1>7. PlacesFit'
  BY <1>1, <1>4 DEF PhotosInv, PlacesFit
<1>8. NamesDiffer' /\ ReadyKept'
  BY <1>1, <1>4 DEF PhotosInv, NamesDiffer, ReadyKept
<1>9. RunsFit'
  BY <1>1, <1>4 DEF PhotosInv, RunsFit
<1>10. PhotosOnce'
  <2>1. \A v \in Uploads : Photos!OthersStayed(v)' => Photos!OthersStayed(v)
    BY <1>4 DEF Photos!OthersStayed
  <2>2. \A v \in Uploads : OnceFor(v) => OnceFor(v)'
    BY <1>1, <1>4 DEF OnceFor, Pending, Photos!FolderHere, Clear
  <2> QED
    BY <1>1, <2>1, <2>2 DEF PhotosInv, PhotosOnce
<1> QED
  BY <1>5, <1>6, <1>7, <1>8, <1>9, <1>10 DEF PhotosInv

\* A run ends, or gives up.
LEMMA RunsEnd ==
  ASSUME PhotosInv, NEW a \in FileAgents,
         \/ courier' = [courier EXCEPT ![a] = Photos!NoRun]
         \/ \E why \in {"again", "moved", "unsupported"} : Photos!Stops(a, why)
            /\ courier[a].pc # "idle"
  PROVE  /\ courier' \in [FileAgents -> AgentRuns]
         /\ courier'[a].pc \in {"idle", "again", "moved", "unsupported"}
         /\ courier'[a].pc # "idle" => courier'[a].upload \in Uploads
         /\ \A b \in FileAgents : b # a => courier'[b] = courier[b]
<1> USE PhotosInvRows
<1>1. CASE courier' = [courier EXCEPT ![a] = Photos!NoRun]
  BY <1>1 DEF Photos!NoRun
<1>2. ASSUME NEW why \in {"again", "moved", "unsupported"}, Photos!Stops(a, why),
        courier[a].pc # "idle"
      PROVE  /\ courier' \in [FileAgents -> AgentRuns] /\ courier'[a].pc = why
             /\ courier'[a].upload \in Uploads
                /\ \A b \in FileAgents : b # a => courier'[b] = courier[b]
  <2> DEFINE why1 == [Photos!NoRun EXCEPT !.pc = why]
             end == [why1 EXCEPT !.upload = courier[a].upload]
  <2>1. courier[a].upload \in Uploads
    BY <1>2 DEF PhotosInv, RunsFit
  <2>2. end \in AgentRuns /\ end.pc = why /\ end.upload = courier[a].upload
    BY <2>1 DEF AgentRuns
  <2>3. courier' = [courier EXCEPT ![a] = end]
    BY <1>2 DEF Photos!Stops
  <2> HIDE DEF end
  <2> QED
    BY <2>1, <2>2, <2>3
<1> QED
  BY <1>1, <1>2

LEMMA EndsKeep ==
  ASSUME PhotosInv, NEW a \in FileAgents,
         \/ courier' = [courier EXCEPT ![a] = Photos!NoRun]
         \/ \E why \in {"again", "moved", "unsupported"} : Photos!Stops(a, why)
            /\ courier[a].pc # "idle",
         UNCHANGED <<upload, spool, files, place, target, busy, moves>>
  PROVE  PhotosInv'
BY PhotosInvRows, RunsEnd, PhotosRowsKeep

LEMMA OperationsKeep == ASSUME PhotosInv, Photos!StartOperation \/ Photos!EndOperation
  PROVE PhotosInv'
BY PhotosInvRows, PhotosRowsKeep DEF Photos!StartOperation, Photos!EndOperation

LEMMA CompleteKeeps == ASSUME PhotosInv, NEW a \in FileAgents, Photos!Complete(a) PROVE PhotosInv'
<1> USE PhotosInvRows
<1>1. CASE Photos!Stops(a, "moved") /\ UNCHANGED upload
  BY <1>1, EndsKeep DEF Photos!Complete
<1>2. CASE /\ Photos!Leased(a)
           /\ upload' = [upload EXCEPT ![courier[a].upload] =
                          [@ EXCEPT !.status = "ready", !.live = FALSE]]
           /\ courier' = [courier EXCEPT ![a] = Photos!NoRun] \/ Photos!Stops(a, "again")
  <2> DEFINE u == courier[a].upload
             done == [[upload[u] EXCEPT !.status = "ready"] EXCEPT !.live = FALSE]
  <2>1. /\ u \in Uploads /\ upload[u].out \in Photos!Names /\ files[upload[u].out] = Image[u]
    BY <1>2 DEF Photos!Complete, Photos!Leased, PhotosInv, RunsFit
  <2>2. /\ done \in UploadRows /\ done.received = upload[u].received /\ done.out = upload[u].out
        /\ done.holder = upload[u].holder /\ done.place = upload[u].place
        /\ done.ver = upload[u].ver
    BY <2>1 DEF UploadRows
  <2>3. upload' = [upload EXCEPT ![u] = done]
    BY <1>2, <2>1
  <2> HIDE DEF u, done
  <2>4. /\ courier' \in [FileAgents -> AgentRuns]
        /\ courier'[a].pc \in {"idle", "again", "moved", "unsupported"}
        /\ courier'[a].pc # "idle" => courier'[a].upload \in Uploads
        /\ \A b \in FileAgents : b # a => courier'[b] = courier[b]
    BY <1>2, RunsEnd DEF Photos!Complete
  <2>5. upload' \in [Uploads -> UploadRows] /\ upload'[u] = done
        /\ \A v \in Uploads : v # u => upload'[v] = upload[v]
    BY <2>1, <2>2, <2>3
  <2> QED
    BY <2>1, <2>2, <2>4, <2>5, PhotosRowsKeep DEF Photos!Complete
<1> QED
  BY <1>1, <1>2 DEF Photos!Complete

LEMMA ReportKeeps == ASSUME PhotosInv, NEW a \in FileAgents, Photos!Report(a) PROVE PhotosInv'
<1> USE PhotosInvRows
<1> DEFINE u == courier[a].upload
<1>1. u \in Uploads
  BY DEF Photos!Report, PhotosInv, RunsFit
<1>2. PICK to \in {"queued", "unsupported", "failed"} :
        \/ upload' = [upload EXCEPT ![u] = [[upload[u] EXCEPT !.status = to] EXCEPT !.live = FALSE]]
        \/ upload' = upload
  BY <1>1 DEF Photos!Report
<1> DEFINE reported == [[upload[u] EXCEPT !.status = to] EXCEPT !.live = FALSE]
<1>3. /\ reported \in UploadRows /\ reported.received = upload[u].received
        /\ reported.out = upload[u].out
      /\ reported.holder = upload[u].holder /\ reported.place = upload[u].place
      /\ reported.ver = upload[u].ver /\ reported.status # "ready"
  <2> DEFINE st == [upload[u] EXCEPT !.status = to]
  <2>1. /\ st \in UploadRows /\ st.received = upload[u].received /\ st.out = upload[u].out
        /\ st.holder = upload[u].holder /\ st.place = upload[u].place
        /\ st.ver = upload[u].ver /\ st.status # "ready"
    BY <1>1 DEF UploadRows, Photos!Rejected
  <2>2. reported = [st EXCEPT !.live = FALSE]
    OBVIOUS
  <2> HIDE DEF st, reported
  <2> QED
    BY <2>1, <2>2 DEF UploadRows
<1>4. upload' = [upload EXCEPT ![u] = reported] \/ upload' = upload
  BY <1>2
<1> HIDE DEF u, reported
<1>5. /\ courier' \in [FileAgents -> AgentRuns] /\ courier'[a].pc = "idle"
      /\ \A b \in FileAgents : b # a => courier'[b] = courier[b]
  BY DEF Photos!Report, Photos!NoRun
<1>6. CASE upload' = upload
  BY <1>5, <1>6, PhotosRowsKeep DEF Photos!Report
<1>7. CASE upload' = [upload EXCEPT ![u] = reported]
  <2>1. upload' \in [Uploads -> UploadRows] /\ upload'[u] = reported
        /\ \A v \in Uploads : v # u => upload'[v] = upload[v]
    BY <1>1, <1>3, <1>7
  <2> QED
    BY <1>3, <1>5, <2>1, PhotosRowsKeep DEF Photos!Report
<1> QED
  BY <1>4, <1>6, <1>7

\* A run gets a name that it has not reserved yet.
LEMMA NameGiven ==
  ASSUME PhotosInv, NEW a \in FileAgents, courier[a].pc \in {"claimed", "named", "prepared"},
         NEW n \in Photos!Names, NEW reserved \in SUBSET Photos!Names,
         courier' = [courier EXCEPT ![a] = [[[courier[a] EXCEPT !.pc = "named"] EXCEPT !.name = n]
                                              EXCEPT !.reserved = reserved]],
         UNCHANGED <<upload, spool, files, place, target, busy, moves>>,
         moves <= 1 /\ Photos!OthersStayed(courier[a].upload)
           /\ upload[courier[a].upload].holder = a =>
           \/ n = courier[a].asked /\ n = upload[courier[a].upload].out
           \/ /\ Clear(courier[a].upload)
              /\ \A b \in FileAgents \ {a} : ~Pending(b, courier[a].upload)
  PROVE  PhotosInv'
<1> USE PhotosInvRows
<1> DEFINE new == [[[courier[a] EXCEPT !.pc = "named"] EXCEPT !.name = n]
                     EXCEPT !.reserved = reserved]
           u == courier[a].upload
<1>1. u \in Uploads
  BY DEF PhotosInv, RunsFit
<1>2. /\ new \in AgentRuns /\ new.pc = "named" /\ new.upload = u
      /\ new.name = n /\ new.asked = courier[a].asked /\ new.place = courier[a].place
  <2> DEFINE on == [courier[a] EXCEPT !.pc = "named"]
             as == [on EXCEPT !.name = n]
  <2>1. n \in 0 .. MaxName
    BY PhotosAssumption DEF Photos!Names
  <2>2. /\ on \in AgentRuns /\ on.pc = "named" /\ on.upload = u
        /\ on.asked = courier[a].asked /\ on.place = courier[a].place
    BY DEF AgentRuns
  <2> HIDE DEF on
  <2>3. /\ as \in AgentRuns /\ as.pc = "named" /\ as.upload = u /\ as.name = n
        /\ as.asked = courier[a].asked /\ as.place = courier[a].place
    BY <2>1, <2>2 DEF AgentRuns
  <2>4. new = [as EXCEPT !.reserved = reserved]
    BY DEF on
  <2> HIDE DEF as, new
  <2> QED
    BY <2>3, <2>4 DEF AgentRuns
<1>3. courier' = [courier EXCEPT ![a] = new]
  OBVIOUS
<1> HIDE DEF new
<1>4. courier' \in [FileAgents -> AgentRuns] /\ courier'[a] = new
      /\ \A b \in FileAgents : b # a => courier'[b] = courier[b]
  BY <1>2, <1>3
<1>5. PhotosTyped' /\ PiecesKept' /\ NamesDiffer' /\ ReadyKept'
  BY <1>4 DEF PhotosInv, PhotosTyped, PiecesKept, NamesDiffer, ReadyKept
<1>6. PlacesFit'
  <2>1. moves = 0 => \A b \in FileAgents :
          courier'[b].pc \in {"claimed", "named", "prepared"} => courier'[b].place = place
    BY <1>2, <1>4 DEF PhotosInv, PlacesFit
  <2> QED
    BY <2>1 DEF PhotosInv, PlacesFit
<1>7. RunsFit'
  <2> HIDE DEF u
  <2>1. \A b \in FileAgents : b # a => courier'[b] = courier[b]
    BY <1>4
  <2> QED
    BY <1>1, <1>2, <1>4, <2>1 DEF PhotosInv, RunsFit
<1>8. PhotosOnce'
  <2>1. ASSUME NEW v \in Uploads, moves <= 1, Photos!OthersStayed(v) PROVE OnceFor(v)'
    <3>1. OnceFor(v)
      BY <2>1 DEF PhotosInv, PhotosOnce
    <3>2. \A b \in FileAgents : Pending(b, v)' => b # a /\ Pending(b, v)
      BY <1>2, <1>4 DEF Pending, Photos!FolderHere
    <3>3. \A w : Clear(w) => Clear(w)'
      BY DEF Clear
    <3>4. \A b \in FileAgents : Pending(b, v)' => courier'[b].name = upload[v].out
      BY <1>4, <3>1, <3>2 DEF OnceFor
    <3>5. ASSUME NEW c \in FileAgents, courier'[c].upload = v, upload[v].holder = c
          PROVE  /\ courier'[c].pc = "named" =>
                      \/ courier'[c].name = courier'[c].asked /\ courier'[c].asked = upload[v].out
                      \/ Clear(v)' /\ \A b \in FileAgents : ~Pending(b, v)'
                 /\ courier'[c].pc = "prepared" =>
                      \/ courier'[c].name = courier'[c].asked
                      \/ Clear(v)' /\ \A b \in FileAgents \ {c} : ~Pending(b, v)'
      <4>1. CASE c = a
        <5>1. v = u
          BY <1>2, <1>4, <3>5, <4>1
        <5> HIDE DEF u
        <5>2. \/ n = courier[a].asked /\ n = upload[v].out
              \/ Clear(v) /\ \A b \in FileAgents \ {a} : ~Pending(b, v)
          BY <2>1, <3>5, <4>1, <5>1 DEF u
        <5> QED
          BY <1>2, <1>4, <3>2, <3>3, <4>1, <5>2
      <4>2. CASE c # a
        <5>1. courier'[c] = courier[c]
          BY <1>4, <4>2
        <5> QED
          BY <3>1, <3>2, <3>3, <3>5, <5>1 DEF OnceFor
      <4> QED
        BY <4>1, <4>2
    <3> QED
      BY <3>1, <3>4, <3>5 DEF OnceFor
  <2>2. moves' = moves /\ \A v \in Uploads : Photos!OthersStayed(v)' => Photos!OthersStayed(v)
    BY DEF Photos!OthersStayed
  <2> QED
    BY <2>1, <2>2 DEF PhotosOnce
<1> QED
  BY <1>5, <1>6, <1>7, <1>8 DEF PhotosInv

\* An upload is taken up, where its case is now.
LEMMA ClaimKeeps == ASSUME PhotosInv, NEW a \in FileAgents, NEW u \in Uploads,
  Photos!Claim(a, u) PROVE PhotosInv'
<1> USE PhotosInvRows
<1>1. /\ courier[a].pc = "idle" /\ UNCHANGED <<spool, files, place, target, busy, moves>>
      /\ upload[u].status # "ready"
  BY DEF Photos!Claim, Photos!Claimable
<1>2. CASE upload' = [upload EXCEPT ![u].status = "failed"] /\ UNCHANGED courier
  <2> DEFINE new == [upload[u] EXCEPT !.status = "failed"]
  <2>1. /\ new \in UploadRows /\ new.received = upload[u].received /\ new.out = upload[u].out
        /\ new.holder = upload[u].holder /\ new.place = upload[u].place
        /\ new.ver = upload[u].ver /\ new.status # "ready"
    BY DEF UploadRows, Photos!Rejected
  <2>2. upload' = [upload EXCEPT ![u] = new]
    BY <1>2
  <2> HIDE DEF new
  <2>3. upload' \in [Uploads -> UploadRows] /\ upload'[u] = new
        /\ \A v \in Uploads : v # u => upload'[v] = upload[v]
    BY <2>1, <2>2
  <2> QED
    BY <1>1, <1>2, <2>1, <2>3, PhotosRowsKeep
<1>3. CASE ~(busy \/ (upload[u].out # 0 /\ ~Photos!Unmoved(u)))
  <2> DEFINE one == [[upload[u] EXCEPT !.status = "processing"] EXCEPT !.holder = a]
             two == [one EXCEPT !.live = TRUE]
             three == [two EXCEPT !.tries = Photos!Tried(u)]
             new == [[three EXCEPT !.place = target.place] EXCEPT !.ver = target.ver]
             begun == [[Photos!NoRun EXCEPT !.pc = "claimed"] EXCEPT !.upload = u]
             goes == [[begun EXCEPT !.asked = upload[u].out] EXCEPT !.place = target.place]
  <2>1. /\ one \in UploadRows /\ one.received = upload[u].received /\ one.out = upload[u].out
        /\ one.holder = a /\ one.status = "processing" /\ one.tries = upload[u].tries
    BY DEF UploadRows
  <2>2. /\ two \in UploadRows /\ two.received = upload[u].received /\ two.out = upload[u].out
        /\ two.holder = a /\ two.status = "processing" /\ two.tries = upload[u].tries
    <3> HIDE DEF one
    <3> QED
      BY <2>1 DEF UploadRows
  <2>3. /\ three \in UploadRows /\ three.received = upload[u].received
        /\ three.out = upload[u].out /\ three.holder = a /\ three.status = "processing"
    <3> HIDE DEF two
    <3>1. upload[u].tries \in 0 .. MaxUploads
      BY DEF UploadRows
    <3>2. Photos!Tried(u) \in 0 .. MaxUploads
      BY <3>1, PhotosAssumption DEF Photos!Tried
    <3> QED
      BY <2>2, <3>2 DEF UploadRows
  <2>4. /\ new \in UploadRows /\ new.received = upload[u].received /\ new.out = upload[u].out
        /\ new.holder = a /\ new.status = "processing" /\ new.place = target.place
        /\ new.ver = target.ver
    <3> HIDE DEF three
    <3> QED
      BY <2>3 DEF UploadRows
  <2>5. begun \in AgentRuns /\ begun.pc = "claimed" /\ begun.upload = u
    BY DEF AgentRuns
  <2>6. /\ goes \in AgentRuns /\ goes.pc = "claimed" /\ goes.upload = u
        /\ goes.asked = upload[u].out /\ goes.place = target.place
    <3>1. upload[u].out \in 0 .. MaxName
      BY DEF UploadRows
    <3> DEFINE asks == [begun EXCEPT !.asked = upload[u].out]
    <3> HIDE DEF begun
    <3>2. /\ asks \in AgentRuns /\ asks.pc = "claimed" /\ asks.upload = u
          /\ asks.asked = upload[u].out
      BY <2>5, <3>1 DEF AgentRuns
    <3>3. goes = [asks EXCEPT !.place = target.place]
      OBVIOUS
    <3>4. target.place \in Places
      OBVIOUS
    <3> HIDE DEF asks, goes
    <3>5. [asks EXCEPT !.place = target.place] \in AgentRuns
      BY <3>2, <3>4 DEF AgentRuns
    <3>6. /\ [asks EXCEPT !.place = target.place].pc = asks.pc
          /\ [asks EXCEPT !.place = target.place].upload = asks.upload
          /\ [asks EXCEPT !.place = target.place].asked = asks.asked
          /\ [asks EXCEPT !.place = target.place].place = target.place
      BY <3>2 DEF AgentRuns
    <3> QED
      BY <3>2, <3>3, <3>5, <3>6
  <2>7. upload' = [upload EXCEPT ![u] = new]
    BY <1>3 DEF Photos!Claim
  <2>8. courier' = [courier EXCEPT ![a] = goes]
    BY <1>3 DEF Photos!Claim
  <2> HIDE DEF new, goes
  <2>9. /\ upload' \in [Uploads -> UploadRows] /\ upload'[u] = new
        /\ \A v \in Uploads : v # u => upload'[v] = upload[v]
        /\ courier' \in [FileAgents -> AgentRuns] /\ courier'[a] = goes
        /\ \A b \in FileAgents : b # a => courier'[b] = courier[b]
    BY <2>4, <2>6, <2>7, <2>8
  <2>10. /\ moves \in Nat /\ target.ver \in Nat \ {0}
         /\ \A v \in Uploads : upload[v].ver \in Nat \ {0} /\ upload'[v].ver \in Nat \ {0}
                               /\ upload[v].ver <= upload'[v].ver /\ upload'[v].ver <= target.ver
    <3>1. moves \in Nat /\ target.ver \in Nat \ {0}
      BY PhotosAssumption DEF PhotosInv, PhotosTyped
    <3>2. ASSUME NEW v \in Uploads
            PROVE upload[v].ver \in Nat \ {0} /\ upload'[v].ver \in Nat \ {0}
      BY <2>9, PhotosAssumption DEF UploadRows
    <3>3. ASSUME NEW v \in Uploads PROVE upload[v].ver <= target.ver
      BY DEF PhotosInv, PlacesFit
    <3>4. ASSUME NEW v \in Uploads
            PROVE upload'[v].ver = upload[v].ver \/ upload'[v].ver = target.ver
      BY <2>4, <2>9
    <3>5. ASSUME NEW v \in Uploads
          PROVE  upload[v].ver <= upload'[v].ver /\ upload'[v].ver <= target.ver
      <4>1. CASE upload'[v].ver = upload[v].ver
        BY <3>2, <3>3, <4>1
      <4>2. CASE upload'[v].ver = target.ver
        BY <3>1, <3>3, <4>2
      <4> QED
        BY <3>4, <4>1, <4>2
    <3> QED
      BY <3>1, <3>2, <3>5
  <2>11. PhotosTyped'
    BY <1>1, <2>9 DEF PhotosInv, PhotosTyped
  <2>12. PiecesKept'
    <3>1. \A v \in Uploads : upload'[v].received = upload[v].received
      BY <2>4, <2>9
    <3>2. spool' = spool
      BY <1>1
    <3> QED
      BY <3>1, <3>2 DEF PhotosInv, PiecesKept
  <2>13. PlacesFit'
    <3>1. target.ver <= moves + 1 /\ (place # target.place => target.ver <= moves)
      BY DEF PhotosInv, PlacesFit
    <3>2. ASSUME NEW v \in Uploads
          PROVE  /\ upload'[v].ver <= target.ver
                 /\ upload'[v].ver = target.ver => upload'[v].place = target.place
                 /\ moves <= 1 /\ upload'[v].ver = 1
                    /\ target.ver # 1 => upload'[v].place # target.place
      BY <2>4, <2>9, <2>10 DEF PhotosInv, PlacesFit
    <3>3. ASSUME NEW v \in Uploads, NEW w \in Uploads, upload'[v].ver = upload'[w].ver
          PROVE  upload'[v].place = upload'[w].place
      BY <2>4, <2>9, <2>10, <3>2, <3>3 DEF PhotosInv, PlacesFit
    <3>4. moves = 0 =>
            /\ target.place = place
            /\ \A b \in FileAgents : courier'[b].pc \in {"claimed", "named", "prepared"} =>
                 courier'[b].place = place
      BY <2>6, <2>9 DEF PhotosInv, PlacesFit
    <3> QED
      BY <1>1, <3>1, <3>2, <3>3, <3>4 DEF PlacesFit
  <2>14. NamesDiffer'
    <3>1. \A v \in Uploads : upload'[v].out = upload[v].out
                             /\ (upload'[v].ver = 1 => upload[v].ver = 1)
      BY <2>4, <2>9, <2>10
    <3> QED
      BY <3>1 DEF PhotosInv, NamesDiffer
  <2>15. RunsFit'
    <3>1. ASSUME NEW b \in FileAgents, b # a
          PROVE  LET v == courier'[b].upload
                 IN /\ courier'[b].pc # "idle" => v \in Uploads
                    /\ courier'[b].pc \in {"named", "prepared", "published"} =>
                         courier'[b].name \in Photos!Names
                    /\ courier'[b].pc = "published" => files[courier'[b].name] = Image[v]
                    /\ courier'[b].pc # "idle" /\ upload'[v].holder = b =>
                         /\ courier'[b].pc = "claimed" => courier'[b].asked = upload'[v].out
                         /\ courier'[b].pc \in {"prepared", "published"} =>
                              courier'[b].name = upload'[v].out
      <4>1. courier'[b] = courier[b]
        BY <2>9, <3>1
      <4> DEFINE v == courier[b].upload
      <4>2. courier[b].pc # "idle" => v \in Uploads
        BY DEF PhotosInv, RunsFit
      <4>3. v \in Uploads => upload'[v].out = upload[v].out
                             /\ (upload'[v].holder = b => upload[v].holder = b)
        BY <2>4, <2>9, <3>1
      <4> QED
        BY <4>1, <4>2, <4>3 DEF PhotosInv, RunsFit
    <3>2. upload'[u].out = upload[u].out
      BY <2>4, <2>9
    <3> QED
      BY <1>1, <2>6, <2>9, <3>1, <3>2 DEF RunsFit
  <2>16. ReadyKept'
    BY <1>1, <2>4, <2>9 DEF PhotosInv, ReadyKept
  <2>17. PhotosOnce'
    <3>1. ASSUME NEW v \in Uploads, moves' <= 1, Photos!OthersStayed(v)' PROVE OnceFor(v)'
      <4>1. moves <= 1 /\ Photos!OthersStayed(v)
        BY <1>1, <2>4, <2>9, <2>10, <3>1, StayedBefore
      <4>2. OnceFor(v)
        BY <4>1 DEF PhotosInv, PhotosOnce
      <4>3. \A b \in FileAgents : Pending(b, v)' => Pending(b, v) /\ courier'[b] = courier[b]
        BY <1>1, <2>6, <2>9 DEF Pending, Photos!FolderHere
      <4>4. Clear(v) => Clear(v)'
        BY <1>1 DEF Clear
      <4>5. upload'[v].out = upload[v].out
        BY <2>4, <2>9
      <4>6. \A c \in FileAgents : upload'[v].holder = c /\ courier'[c].upload = v
                                  /\ courier'[c].pc \in {"named", "prepared"} =>
              courier'[c] = courier[c] /\ upload[v].holder = c
        BY <2>4, <2>6, <2>9
      <4> QED
        BY <1>1, <4>2, <4>3, <4>4, <4>5, <4>6 DEF OnceFor
    <3> QED
      BY <3>1 DEF PhotosOnce
  <2> QED
    BY <2>11, <2>12, <2>13, <2>14, <2>15, <2>16, <2>17 DEF PhotosInv
<1> QED
  BY <1>2, <1>3 DEF Photos!Claim

\* The name after the highest one is a new one for a photo without file and name.
LEMMA ConvertKeeps == ASSUME PhotosInv, NEW a \in FileAgents, Photos!Convert(a) PROVE PhotosInv'
<1> USE PhotosInvRows
<1> DEFINE u == courier[a].upload
<1>1. /\ courier[a].pc = "claimed" /\ u \in Uploads
      /\ UNCHANGED <<upload, spool, files, place, target, busy, moves>>
  BY DEF Photos!Convert, PhotosInv, RunsFit
<1>2. CASE \E why \in {"again", "moved", "unsupported"} : Photos!Stops(a, why)
  BY <1>1, <1>2, EndsKeep
<1>3. CASE /\ Photos!Leased(a) /\ courier[a].asked # 0
           /\ courier' = [courier EXCEPT ![a] = [@ EXCEPT !.pc = "named", !.name = courier[a].asked]]
  <2>1. courier[a].asked \in Photos!Names
    <3>1. courier[a].asked \in 0 .. MaxName
      BY DEF AgentRuns
    <3> QED
      BY <1>3, <3>1, PhotosAssumption DEF Photos!Names
  <2>2. upload[u].holder = a => courier[a].asked = upload[u].out
    BY <1>1 DEF PhotosInv, RunsFit
  <2> DEFINE named == [[courier[a] EXCEPT !.pc = "named"] EXCEPT !.name = courier[a].asked]
  <2>3. named = [named EXCEPT !.reserved = courier[a].reserved]
    BY DEF AgentRuns
  <2>4. courier' = [courier EXCEPT ![a] = named]
    BY <1>3
  <2>5. courier' = [courier EXCEPT ![a] = [[[courier[a] EXCEPT !.pc = "named"]
                                          EXCEPT !.name = courier[a].asked]
                                          EXCEPT !.reserved = courier[a].reserved]]
    BY <2>3, <2>4
  <2>6. courier[a].reserved \in SUBSET Photos!Names
    BY DEF AgentRuns
  <2> HIDE DEF named
  <2> QED
    BY <1>1, <2>1, <2>2, <2>5, <2>6, NameGiven
<1>4. CASE Photos!Leased(a) /\ courier[a].asked = 0 /\ Photos!Named(a, Photos!Taken(a), {})
  <2> DEFINE n == Photos!NextName(Photos!Taken(a))
  <2>1. n \in Photos!Names /\ courier' = [courier EXCEPT ![a] = [[[courier[a] EXCEPT !.pc = "named"]
                                          EXCEPT !.name = n] EXCEPT !.reserved = {}]]
    BY <1>4 DEF Photos!Named
  <2>2. ASSUME moves <= 1 /\ Photos!OthersStayed(u)
          PROVE Clear(u) /\ \A b \in FileAgents : ~Pending(b, u)
    <3>1. upload[u].out = 0
      BY <1>1, <1>4 DEF PhotosInv, RunsFit, Photos!Leased
    <3>2. OnceFor(u)
      BY <1>1, <2>2 DEF PhotosInv, PhotosOnce
    <3>3. 0 \notin Photos!Names
      BY DEF Photos!Names
    <3>4. \A b \in FileAgents : courier[b].pc = "prepared" => courier[b].name \in Photos!Names
      BY DEF PhotosInv, RunsFit
    <3> QED
      BY <3>1, <3>2, <3>3, <3>4 DEF OnceFor, Clear, Pending
  <2>3. {} \in SUBSET Photos!Names
    OBVIOUS
  <2> HIDE DEF n, u
  <2> QED
    BY <1>1, <2>1, <2>2, <2>3, NameGiven DEF u
<1> QED
  BY <1>2, <1>3, <1>4 DEF Photos!Convert

\* Reserving a name.
LEMMA NameReserved ==
  ASSUME PhotosInv, NEW a \in FileAgents, courier[a].pc = "named", Photos!Leased(a),
    ~Photos!Collides(a),
         upload' = [upload EXCEPT ![courier[a].upload].out = courier[a].name],
         Photos!Goes(a, "prepared") \/ Photos!Stops(a, "again"),
         UNCHANGED <<spool, files, place, target, busy, moves>>
  PROVE  PhotosInv'
<1> USE PhotosInvRows
<1> DEFINE u == courier[a].upload
           n == courier[a].name
           new == [upload[u] EXCEPT !.out = n]
<1>1. u \in Uploads /\ n \in Photos!Names /\ n # 0 /\ n \in 0 .. MaxName
  BY PhotosAssumption DEF PhotosInv, RunsFit, Photos!Names
<1>2. /\ new \in UploadRows /\ new.out = n /\ new.received = upload[u].received
      /\ new.place = upload[u].place /\ new.ver = upload[u].ver /\ new.holder = a
      /\ new.status = "processing"
  BY <1>1 DEF UploadRows, Photos!Leased, Photos!InHand
<1>3. upload' = [upload EXCEPT ![u] = new]
  BY <1>1
<1>4. /\ courier' \in [FileAgents -> AgentRuns]
        /\ \A b \in FileAgents : b # a => courier'[b] = courier[b]
      /\ \/ /\ courier'[a].pc = "prepared" /\ courier'[a].upload = u /\ courier'[a].name = n
            /\ courier'[a].asked = courier[a].asked /\ courier'[a].place = courier[a].place
         \/ courier'[a].pc = "again" /\ courier'[a].upload \in Uploads
  <2>1. CASE Photos!Goes(a, "prepared")
    <3> DEFINE on == [courier[a] EXCEPT !.pc = "prepared"]
    <3>1. /\ on \in AgentRuns /\ on.pc = "prepared" /\ on.upload = u /\ on.name = n
          /\ on.asked = courier[a].asked /\ on.place = courier[a].place
      BY DEF AgentRuns
    <3>2. courier' = [courier EXCEPT ![a] = on]
      BY <2>1 DEF Photos!Goes
    <3> HIDE DEF on, u, n
    <3> QED
      BY <3>1, <3>2
  <2>2. CASE Photos!Stops(a, "again")
    <3>1. courier'[a].pc = "again"
      BY <2>2 DEF Photos!Stops, Photos!NoRun
    <3> QED
      BY <2>2, <3>1, RunsEnd
  <2> QED
    BY <2>1, <2>2
<1> HIDE DEF new
<1>5. /\ upload' \in [Uploads -> UploadRows] /\ upload'[u] = new
      /\ \A v \in Uploads : v # u => upload'[v] = upload[v]
  BY <1>1, <1>2, <1>3
<1>6. upload[u].holder = a /\ upload[u].status = "processing"
  BY DEF Photos!Leased, Photos!InHand
<1>7. \A v \in Uploads \ {u} : upload[v].out = n => upload[v].place # upload[u].place
  BY DEF Photos!Collides
<1> HIDE DEF u, n
<1>8. PhotosTyped'
  BY <1>4, <1>5 DEF PhotosInv, PhotosTyped
<1>9. PiecesKept'
  <2>1. spool' = spool /\ \A v \in Uploads : upload'[v].received = upload[v].received
    BY <1>2, <1>5
  <2> QED
    BY <2>1 DEF PhotosInv, PiecesKept
<1>10. PlacesFit'
  <2>1. \A v \in Uploads : upload'[v].ver = upload[v].ver /\ upload'[v].place = upload[v].place
    BY <1>2, <1>5
  <2>2. moves = 0 => \A b \in FileAgents :
          courier'[b].pc \in {"claimed", "named", "prepared"} => courier'[b].place = place
    BY <1>4 DEF PhotosInv, PlacesFit
  <2> QED
    BY <2>1, <2>2 DEF PhotosInv, PlacesFit
<1>11. NamesDiffer'
  <2>1. \A v \in Uploads : upload'[v].ver = upload[v].ver
    BY <1>2, <1>5
  <2>2. ASSUME NEW v \in Uploads, v # u, upload[v].ver = 1, upload[u].ver = 1
        PROVE  upload[v].out # n
    <3>1. upload[v].place = upload[u].place
      BY <1>1, <2>2 DEF PhotosInv, PlacesFit
    <3> QED
      BY <1>7, <2>2, <3>1
  <2> QED
    <3>1. ASSUME NEW v \in Uploads, NEW w \in Uploads, v # w, upload'[v].out = upload'[w].out,
                 upload'[v].ver = 1, upload'[w].ver = 1
          PROVE  upload'[v].out = 0
      <4>1. upload[v].ver = 1 /\ upload[w].ver = 1
        BY <2>1, <3>1
      <4>2. CASE v = u
        BY <1>2, <1>5, <2>2, <3>1, <4>1, <4>2
      <4>3. CASE w = u
        BY <1>2, <1>5, <2>2, <3>1, <4>1, <4>3
      <4>4. CASE v # u /\ w # u
        <5>1. upload'[v] = upload[v] /\ upload'[w] = upload[w]
          BY <1>5, <4>4
        <5>2. v # w /\ upload[v].out = upload[w].out => upload[v].out = 0
          BY <4>1 DEF PhotosInv, NamesDiffer
        <5> QED
          BY <3>1, <5>1, <5>2
      <4> QED
        BY <4>2, <4>3, <4>4
    <3> QED
      BY <3>1 DEF NamesDiffer
<1>12. RunsFit'
  <2>1. ASSUME NEW b \in FileAgents
        PROVE  LET v == courier'[b].upload
               IN /\ courier'[b].pc # "idle" => v \in Uploads
                  /\ courier'[b].pc \in {"named", "prepared", "published"} =>
                       courier'[b].name \in Photos!Names
                  /\ courier'[b].pc = "published" => files[courier'[b].name] = Image[v]
                  /\ courier'[b].pc # "idle" /\ upload'[v].holder = b =>
                       /\ courier'[b].pc = "claimed" => courier'[b].asked = upload'[v].out
                       /\ courier'[b].pc \in {"prepared", "published"} =>
                            courier'[b].name = upload'[v].out
    <3>1. CASE b = a
      BY <1>1, <1>2, <1>4, <1>5, <3>1
    <3>2. CASE b # a
      <4>1. courier'[b] = courier[b]
        BY <1>4, <3>2
      <4> DEFINE v == courier[b].upload
      <4>2. courier[b].pc # "idle" => v \in Uploads
        BY DEF PhotosInv, RunsFit
      <4>3. v \in Uploads => upload'[v].holder = upload[v].holder
                             /\ (upload'[v].holder = b => upload'[v].out = upload[v].out)
        BY <1>2, <1>5, <1>6, <3>2
      <4> QED
        BY <4>1, <4>2, <4>3 DEF PhotosInv, RunsFit
    <3> QED
      BY <3>1, <3>2
  <2>2. files' = files
    OBVIOUS
  <2> QED
    BY <2>1, <2>2 DEF RunsFit
<1>13. ReadyKept'
  <2>1. files' = files
    OBVIOUS
  <2> QED
    BY <1>2, <1>5, <2>1 DEF PhotosInv, ReadyKept
<1>14. PhotosOnce'
  <2>1. ASSUME NEW v \in Uploads, moves <= 1, Photos!OthersStayed(v)' PROVE OnceFor(v)'
    <3>1. Photos!OthersStayed(v)
      BY <1>1, <1>2, <1>5, <2>1 DEF Photos!OthersStayed
    <3>2. OnceFor(v)
      BY <2>1, <3>1 DEF PhotosInv, PhotosOnce
    <3>3. \A b \in FileAgents : b # a => (Pending(b, v)' <=> Pending(b, v))
      BY <1>4 DEF Pending, Photos!FolderHere
    <3>4. Pending(a, v)' => v = u /\ courier'[a].name = n
      BY <1>4 DEF Pending
    <3>5. Clear(v) => Clear(v)'
      BY DEF Clear
    <3>6. files' = files
      OBVIOUS
    <3>7. CASE v # u
      <4>1. upload'[v] = upload[v]
        BY <1>5, <3>7
      <4>2. \A b \in FileAgents : Pending(b, v)' => Pending(b, v) /\ courier'[b] = courier[b]
        BY <1>4, <3>3, <3>4, <3>7
      <4>3. \A c \in FileAgents : courier'[c].upload = v
              /\ courier'[c].pc \in {"named", "prepared"} =>
              courier'[c] = courier[c]
        BY <1>4, <3>7
      <4> QED
        BY <3>2, <3>5, <3>6, <4>1, <4>2, <4>3 DEF OnceFor
    <3>8. CASE v = u
      <4>1. \/ n = courier[a].asked /\ n = upload[v].out
            \/ Clear(v) /\ \A b \in FileAgents : ~Pending(b, v)
        BY <1>6, <3>2, <3>8 DEF OnceFor, u, n
      <4>2. upload'[v].out = n /\ upload'[v].holder = a
        BY <1>2, <1>5, <3>8
      <4>3. \A m \in Photos!Names : files[m] = Image[v] => m = n
        BY <3>2, <4>1 DEF OnceFor, Clear
      <4>4. \A b \in FileAgents : Pending(b, v)' => courier'[b].name = n
        BY <1>4, <3>2, <3>3, <3>4, <3>8, <4>1 DEF OnceFor
      <4>5. courier'[a].pc = "prepared" =>
              \/ courier'[a].name = courier'[a].asked
              \/ Clear(v)' /\ \A b \in FileAgents \ {a} : ~Pending(b, v)'
        BY <1>4, <3>3, <3>5, <3>8, <4>1
      <4>6. courier'[a].pc # "named"
        BY <1>4
      <4> QED
        BY <3>6, <3>8, <4>2, <4>3, <4>4, <4>5, <4>6 DEF OnceFor
    <3> QED
      BY <3>7, <3>8
  <2>2. moves' = moves
    OBVIOUS
  <2> QED
    BY <2>1, <2>2 DEF PhotosOnce
<1> QED
  BY <1>8, <1>9, <1>10, <1>11, <1>12, <1>13, <1>14 DEF PhotosInv

LEMMA PrepareKeeps == ASSUME PhotosInv, NEW a \in FileAgents, Photos!Prepare(a) PROVE PhotosInv'
<1> USE PhotosInvRows
<1> DEFINE u == courier[a].upload
<1>1. /\ courier[a].pc = "named" /\ u \in Uploads /\ courier[a].name \in Photos!Names
      /\ UNCHANGED <<spool, files, place, target, busy, moves>>
  BY DEF Photos!Prepare, PhotosInv, RunsFit
<1>2. CASE UNCHANGED upload /\ \E why \in {"again", "moved", "unsupported"} : Photos!Stops(a, why)
  BY <1>1, <1>2, EndsKeep
<1>3. CASE /\ Photos!Leased(a) /\ Photos!Collides(a) /\ UNCHANGED upload
           /\ Photos!Named(a, Photos!Taken(a) \cup {courier[a].name}, courier[a].reserved \cup {courier[a].name})
  <2> DEFINE n == Photos!NextName(Photos!Taken(a) \cup {courier[a].name})
             reserved == courier[a].reserved \cup {courier[a].name}
  <2>1. n \in Photos!Names /\ courier' = [courier EXCEPT ![a] = [[[courier[a] EXCEPT !.pc = "named"]
                                          EXCEPT !.name = n] EXCEPT !.reserved = reserved]]
    BY <1>3 DEF Photos!Named
  <2>2. reserved \in SUBSET Photos!Names
    BY <1>1 DEF AgentRuns
  <2>3. ASSUME moves <= 1 /\ Photos!OthersStayed(u)
          PROVE Clear(u) /\ \A b \in FileAgents : ~Pending(b, u)
    <3>1. OnceFor(u) /\ upload[u].holder = a
      BY <1>1, <1>3, <2>3 DEF PhotosInv, PhotosOnce, Photos!Leased
    <3>2. ASSUME courier[a].name = upload[u].out PROVE FALSE
      <4>1. PICK v \in Uploads \ {u} :
              upload[v].out = courier[a].name /\ upload[v].place = upload[u].place
        BY <1>3 DEF Photos!Collides
      <4>2. upload[v].ver = 1 /\ upload[u].out # 0
        BY <1>1, <2>3, <3>2, <4>1 DEF Photos!OthersStayed, Photos!Names
      <4>3. upload[u].ver # 1
        BY <1>1, <3>2, <4>1, <4>2 DEF PhotosInv, NamesDiffer
      <4>4. upload[u].ver = target.ver /\ upload[u].place = target.place
        BY <1>3 DEF Photos!Leased, Photos!Unmoved
      <4> QED
        BY <2>3, <4>1, <4>2, <4>3, <4>4 DEF PhotosInv, PlacesFit
    <3> QED
      BY <1>1, <3>1, <3>2 DEF OnceFor
  <2> HIDE DEF n, reserved, u
  <2> QED
    BY <1>1, <1>3, <2>1, <2>2, <2>3, NameGiven DEF u
<1>4. CASE /\ Photos!Leased(a) /\ ~Photos!Collides(a)
           /\ upload' = [upload EXCEPT ![courier[a].upload].out = courier[a].name]
           /\ Photos!Goes(a, "prepared") \/ Photos!Stops(a, "again")
  BY <1>1, <1>4, NameReserved
<1> QED
  BY <1>2, <1>3, <1>4 DEF Photos!Prepare

\* A file is written where none was; the run that writes a photo is done with it.
LEMMA FileKeeps ==
  ASSUME PhotosInv, NEW n \in Photos!Names, files[n] = Nobody, NEW new \in FileKinds,
    new # Nobody,
         files' = [files EXCEPT ![n] = new],
         UNCHANGED <<upload, spool, place, target, busy, moves>>,
         \/ new = "other" /\ UNCHANGED courier
         \/ \E a \in FileAgents :
              /\ new = Image[courier[a].upload] /\ courier[a].pc = "prepared"
                 /\ courier[a].name = n
              /\ Photos!FolderHere(a) /\ Photos!Goes(a, "published")
  PROVE  PhotosInv'
<1> USE PhotosInvRows, PhotosAssumption
<1>1. /\ files' \in [Photos!Names -> FileKinds] /\ files'[n] = new
      /\ \A m \in Photos!Names : m # n => files'[m] = files[m]
  OBVIOUS
<1>2. \A u \in Uploads, m \in Photos!Names : files[m] = Image[u] => files'[m] = Image[u]
  BY <1>1
<1>3. /\ courier' \in [FileAgents -> AgentRuns]
      /\ \A b \in FileAgents :
           \/ courier'[b] = courier[b]
           \/ /\ courier[b].pc = "prepared" /\ courier'[b].pc = "published"
              /\ courier'[b].upload = courier[b].upload /\ courier'[b].name = n
              /\ courier[b].name = n /\ new = Image[courier[b].upload]
  <2>1. CASE UNCHANGED courier
    BY <2>1
  <2>2. ASSUME NEW a \in FileAgents, new = Image[courier[a].upload], courier[a].pc = "prepared",
               courier[a].name = n, Photos!Goes(a, "published")
        PROVE  /\ courier' \in [FileAgents -> AgentRuns]
                  /\ \A b \in FileAgents : b # a => courier'[b] = courier[b]
               /\ courier'[a].pc = "published" /\ courier'[a].upload = courier[a].upload
               /\ courier'[a].name = n
    <3> DEFINE done == [courier[a] EXCEPT !.pc = "published"]
    <3>1. /\ done \in AgentRuns /\ done.pc = "published" /\ done.upload = courier[a].upload
          /\ done.name = n
      BY <2>2 DEF AgentRuns
    <3>2. courier' = [courier EXCEPT ![a] = done]
      BY <2>2 DEF Photos!Goes
    <3> HIDE DEF done
    <3> QED
      BY <2>2, <3>1, <3>2
  <2> QED
    BY <2>1, <2>2
<1>4. PhotosTyped' /\ PiecesKept' /\ NamesDiffer'
  BY <1>1, <1>3 DEF PhotosInv, PhotosTyped, PiecesKept, NamesDiffer
<1>5. PlacesFit'
  <2>1. moves = 0 => \A b \in FileAgents :
          courier'[b].pc \in {"claimed", "named", "prepared"} => courier'[b].place = place
    BY <1>3 DEF PhotosInv, PlacesFit
  <2> QED
    BY <2>1 DEF PhotosInv, PlacesFit
<1>6. RunsFit'
  <2>1. ASSUME NEW b \in FileAgents
        PROVE  LET v == courier'[b].upload
               IN /\ courier'[b].pc # "idle" => v \in Uploads
                  /\ courier'[b].pc \in {"named", "prepared", "published"} =>
                       courier'[b].name \in Photos!Names
                  /\ courier'[b].pc = "published" => files'[courier'[b].name] = Image[v]
                  /\ courier'[b].pc # "idle" /\ upload[v].holder = b =>
                       /\ courier'[b].pc = "claimed" => courier'[b].asked = upload[v].out
                       /\ courier'[b].pc \in {"prepared", "published"} =>
                            courier'[b].name = upload[v].out
    <3>1. /\ courier[b].pc # "idle" => courier[b].upload \in Uploads
          /\ courier[b].pc \in {"named", "prepared", "published"}
             => courier[b].name \in Photos!Names
          /\ courier[b].pc = "published" => files[courier[b].name] = Image[courier[b].upload]
          /\ courier[b].pc # "idle" /\ upload[courier[b].upload].holder = b =>
               /\ courier[b].pc = "claimed" => courier[b].asked = upload[courier[b].upload].out
               /\ courier[b].pc \in {"prepared", "published"} =>
                    courier[b].name = upload[courier[b].upload].out
      BY DEF PhotosInv, RunsFit
    <3>2. CASE courier'[b] = courier[b]
      BY <1>2, <3>1, <3>2
    <3>3. CASE courier'[b] # courier[b]
      BY <1>1, <1>3, <3>1, <3>3
    <3> QED
      BY <3>2, <3>3
  <2> QED
    BY <2>1 DEF RunsFit
<1>7. ReadyKept'
  BY <1>2 DEF PhotosInv, ReadyKept
<1>8. PhotosOnce'
  <2>1. ASSUME NEW v \in Uploads, moves <= 1, Photos!OthersStayed(v) PROVE OnceFor(v)'
    <3>1. OnceFor(v)
      BY <2>1 DEF PhotosInv, PhotosOnce
    <3>2. \A b \in FileAgents : Pending(b, v)' => Pending(b, v) /\ courier'[b] = courier[b]
      BY <1>1, <1>3 DEF Pending, Photos!FolderHere
    <3>3. CASE new # Image[v]
      <4>1. \A m \in Photos!Names : files'[m] = Image[v] => files[m] = Image[v]
        BY <1>1, <3>3
      <4>2. Clear(v) => Clear(v)'
        BY <4>1 DEF Clear
      <4>3. \A c \in FileAgents : courier'[c].pc \in {"named", "prepared"}
              => courier'[c] = courier[c]
        BY <1>3
      <4> QED
        BY <3>1, <3>2, <4>1, <4>2, <4>3 DEF OnceFor
    <3>4. CASE new = Image[v]
      <4>1. PICK a \in FileAgents :
              /\ new = Image[courier[a].upload] /\ courier[a].pc = "prepared"
              /\ courier[a].name = n /\ Photos!FolderHere(a) /\ Photos!Goes(a, "published")
        BY <3>4
      <4>2. courier[a].upload = v
        BY <3>4, <4>1 DEF PhotosInv, RunsFit
      <4>3. Pending(a, v)
        BY <4>1, <4>2 DEF Pending
      <4>4. n = upload[v].out
        BY <3>1, <4>1, <4>3 DEF OnceFor
      <4>5. \A m \in Photos!Names : files'[m] = Image[v] => m = upload[v].out
        BY <1>1, <3>1, <4>4 DEF OnceFor
      <4>6. courier'[a].pc = "published"
        BY <4>1 DEF Photos!Goes, AgentRuns
      <4>7. ASSUME NEW c \in FileAgents, courier'[c].upload = v, upload[v].holder = c
            PROVE  /\ courier'[c].pc = "named" =>
                        courier'[c].name = courier'[c].asked /\ courier'[c].asked = upload[v].out
                   /\ courier'[c].pc = "prepared" => courier'[c].name = courier'[c].asked
        <5>1. CASE c = a
          BY <4>6, <5>1
        <5>2. CASE c # a /\ courier'[c].pc \in {"named", "prepared"}
          <6>1. courier'[c] = courier[c]
            BY <1>3, <5>2
          <6> QED
            BY <3>1, <4>3, <4>7, <5>2, <6>1 DEF OnceFor
        <5> QED
          BY <5>1, <5>2
      <4> QED
        BY <3>1, <3>2, <4>5, <4>7 DEF OnceFor
    <3> QED
      BY <3>3, <3>4
  <2>2. moves' = moves /\ \A v \in Uploads : Photos!OthersStayed(v)' => Photos!OthersStayed(v)
    BY DEF Photos!OthersStayed
  <2> QED
    BY <2>1, <2>2 DEF PhotosOnce
<1> QED
  BY <1>4, <1>5, <1>6, <1>7, <1>8 DEF PhotosInv

LEMMA PhotosPublishKeeps == ASSUME PhotosInv, NEW a \in FileAgents, Photos!Publish(a)
  PROVE PhotosInv'
<1> USE PhotosInvRows
<1> DEFINE u == courier[a].upload
<1>1. /\ courier[a].pc = "prepared" /\ u \in Uploads /\ courier[a].name \in Photos!Names
      /\ UNCHANGED <<upload, spool, place, target, busy, moves>>
  BY DEF Photos!Publish, PhotosInv, RunsFit
<1>2. CASE UNCHANGED files /\ Photos!Stops(a, "again")
  BY <1>1, <1>2, EndsKeep
<1>3. CASE /\ Photos!FolderHere(a) /\ files[courier[a].name] = Nobody
        /\ Photos!Goes(a, "published")
           /\ files' = [files EXCEPT ![courier[a].name] = Image[courier[a].upload]]
  <2>1. Image[u] \in FileKinds /\ Image[u] # Nobody
    BY <1>1, PhotosAssumption DEF FileKinds
  <2> QED
    BY <1>1, <1>3, <2>1, FileKeeps
<1>4. CASE Photos!FolderHere(a) /\ Photos!OwnFile(a) /\ Photos!Goes(a, "published")
        /\ UNCHANGED files
  <2> DEFINE done == [courier[a] EXCEPT !.pc = "published"]
  <2>1. /\ done \in AgentRuns /\ done.pc = "published" /\ done.upload = u
        /\ done.name = courier[a].name
    BY DEF AgentRuns
  <2>2. courier' = [courier EXCEPT ![a] = done]
    BY <1>4 DEF Photos!Goes
  <2> HIDE DEF done
  <2>3. /\ courier' \in [FileAgents -> AgentRuns] /\ courier'[a] = done
        /\ \A b \in FileAgents : b # a => courier'[b] = courier[b]
    BY <2>1, <2>2
  <2>4. files[courier[a].name] = Image[u]
    BY <1>4 DEF Photos!OwnFile
  <2> HIDE DEF u
  <2>5. PhotosTyped' /\ PiecesKept' /\ NamesDiffer' /\ ReadyKept'
    BY <1>1, <1>4, <2>3 DEF PhotosInv, PhotosTyped, PiecesKept, NamesDiffer, ReadyKept
  <2>6. PlacesFit'
    <3>1. moves = 0 => \A b \in FileAgents :
            courier'[b].pc \in {"claimed", "named", "prepared"} => courier'[b].place = place
      BY <2>1, <2>3 DEF PhotosInv, PlacesFit
    <3> QED
      BY <1>1, <3>1 DEF PhotosInv, PlacesFit
  <2>7. RunsFit'
    <3>1. /\ courier[a].upload = u
          /\ upload[u].holder = a => courier[a].name = upload[u].out
      BY <1>1 DEF PhotosInv, RunsFit, u
    <3>2. ASSUME NEW b \in FileAgents, b # a
          PROVE  LET v == courier'[b].upload
                 IN /\ courier'[b].pc # "idle" => v \in Uploads
                    /\ courier'[b].pc \in {"named", "prepared", "published"} =>
                         courier'[b].name \in Photos!Names
                    /\ courier'[b].pc = "published" => files[courier'[b].name] = Image[v]
                    /\ courier'[b].pc # "idle" /\ upload[v].holder = b =>
                         /\ courier'[b].pc = "claimed" => courier'[b].asked = upload[v].out
                         /\ courier'[b].pc \in {"prepared", "published"} =>
                              courier'[b].name = upload[v].out
      <4>1. courier'[b] = courier[b]
        BY <2>3, <3>2
      <4> QED
        BY <4>1 DEF PhotosInv, RunsFit
    <3>3. files' = files /\ upload' = upload
      BY <1>1, <1>4
    <3> QED
      BY <1>1, <2>1, <2>3, <2>4, <3>1, <3>2, <3>3 DEF RunsFit
  <2>8. PhotosOnce'
    <3>1. ASSUME NEW v \in Uploads, moves <= 1, Photos!OthersStayed(v) PROVE OnceFor(v)'
      <4>1. OnceFor(v)
        BY <3>1 DEF PhotosInv, PhotosOnce
      <4>2. \A b \in FileAgents : Pending(b, v)' => Pending(b, v) /\ courier'[b] = courier[b]
        BY <1>1, <1>4, <2>1, <2>3 DEF Pending, Photos!FolderHere
      <4>3. files' = files /\ upload' = upload
        BY <1>1, <1>4
      <4>4. Clear(v) => Clear(v)'
        BY <4>3 DEF Clear
      <4>5. \A c \in FileAgents : courier'[c].pc \in {"named", "prepared"}
              => courier'[c] = courier[c]
        BY <2>1, <2>3
      <4> QED
        BY <4>1, <4>2, <4>3, <4>4, <4>5 DEF OnceFor
    <3>2. moves' = moves /\ \A v \in Uploads : Photos!OthersStayed(v)' => Photos!OthersStayed(v)
      BY <1>1 DEF Photos!OthersStayed
    <3> QED
      BY <3>1, <3>2 DEF PhotosOnce
  <2> QED
    BY <2>5, <2>6, <2>7, <2>8 DEF PhotosInv
<1>5. CASE /\ Photos!FolderHere(a) /\ files[courier[a].name] # Nobody /\ ~Photos!OwnFile(a)
           /\ Photos!Named(a, Photos!Taken(a) \cup {courier[a].name}, courier[a].reserved)
              /\ UNCHANGED files
  <2> DEFINE n == Photos!NextName(Photos!Taken(a) \cup {courier[a].name})
  <2>1. /\ n \in Photos!Names /\ courier[a].reserved \in SUBSET Photos!Names
        /\ courier' = [courier EXCEPT ![a] = [[[courier[a] EXCEPT !.pc = "named"]
                                              EXCEPT !.name = n] EXCEPT !.reserved = courier[a].reserved]]
    BY <1>5 DEF Photos!Named, AgentRuns
  <2>2. ASSUME moves <= 1 /\ Photos!OthersStayed(u), upload[u].holder = a
        PROVE  Clear(u) /\ \A b \in FileAgents \ {a} : ~Pending(b, u)
    <3>1. OnceFor(u)
      BY <1>1, <2>2 DEF PhotosInv, PhotosOnce
    <3>2. ASSUME courier[a].name = courier[a].asked
          PROVE  Clear(u) /\ \A b \in FileAgents : ~Pending(b, u)
      <4>1. /\ courier[a].name = upload[u].out /\ files[courier[a].name] # Nobody
            /\ files[courier[a].name] # Image[u]
        BY <1>1, <1>5, <2>2, <3>2 DEF PhotosInv, RunsFit, Photos!OwnFile
      <4> QED
        BY <3>1, <4>1 DEF OnceFor, Clear, Pending
    <3> QED
      BY <1>1, <2>2, <3>1, <3>2 DEF OnceFor
  <2> HIDE DEF n, u
  <2> QED
    BY <1>1, <1>5, <2>1, <2>2, NameGiven DEF u
<1> QED
  BY <1>2, <1>3, <1>4, <1>5 DEF Photos!Publish

LEMMA SaveKeeps == ASSUME PhotosInv, Photos!SaveFile PROVE PhotosInv'
<1>1. PICK n \in Photos!Names : files[n] = Nobody /\ files' = [files EXCEPT ![n] = "other"]
  BY DEF Photos!SaveFile
<1>2. "other" \in FileKinds
  BY DEF FileKinds
<1>3. CASE Nobody # "other"
  BY <1>1, <1>2, <1>3, FileKeeps DEF Photos!SaveFile
<1>4. CASE Nobody = "other"
  <2>1. files' = files
    BY <1>1, <1>4, PhotosInvRows
  <2> QED
    BY <2>1, PhotosInvRows, PhotosRowsKeep DEF Photos!SaveFile
<1> QED
  BY <1>3, <1>4

\* A run that began before the folder moved does not find it any more.
LEMMA MoveKeeps == ASSUME PhotosInv, Photos!MoveFolder PROVE PhotosInv'
<1> USE PhotosInvRows
<1>1. /\ moves' = moves + 1 /\ moves' \in 0 .. MaxMoves /\ place' \in Places /\ place' # place
      /\ UNCHANGED <<upload, spool, files, target, busy, courier>>
  BY PhotosAssumption DEF Photos!MoveFolder
<1>2. PhotosTyped' /\ PiecesKept' /\ NamesDiffer' /\ RunsFit' /\ ReadyKept'
  BY <1>1 DEF PhotosInv, PhotosTyped, PiecesKept, NamesDiffer, RunsFit, ReadyKept
<1>3. PlacesFit'
  <2>1. moves' <= 1 => \A u \in Uploads : ~(upload[u].ver = 1 /\ target.ver # 1)
    <3>1. target.ver <= moves + 1 /\ target.ver \in Nat \ {0} /\ moves \in Nat
      BY DEF PhotosInv, PhotosTyped, PlacesFit
    <3> QED
      BY <1>1, <3>1
  <2>2. target.ver <= moves' + 1 /\ target.ver <= moves' /\ moves' # 0
    BY <1>1 DEF PhotosInv, PhotosTyped, PlacesFit
  <2> QED
    BY <1>1, <2>1, <2>2 DEF PhotosInv, PlacesFit
<1>4. PhotosOnce'
  <2>1. ASSUME NEW u \in Uploads, moves' <= 1, Photos!OthersStayed(u) PROVE OnceFor(u)'
    <3>1. moves = 0
      BY <1>1, <2>1
    <3>2. OnceFor(u)
      BY <2>1, <3>1 DEF PhotosInv, PhotosOnce
    <3>3. \A b \in FileAgents : ~Pending(b, u)'
      BY <1>1, <3>1 DEF Pending, Photos!FolderHere, PhotosInv, PlacesFit
    <3>4. Clear(u) => Clear(u)'
      BY <1>1 DEF Clear
    <3> QED
      BY <1>1, <3>2, <3>3, <3>4 DEF OnceFor
  <2>2. \A u \in Uploads : Photos!OthersStayed(u)' => Photos!OthersStayed(u)
    BY <1>1 DEF Photos!OthersStayed
  <2> QED
    BY <2>1, <2>2 DEF PhotosOnce
<1> QED
  BY <1>2, <1>3, <1>4 DEF PhotosInv

LEMMA PhotosFollowKeeps == ASSUME PhotosInv, Photos!FollowFolder PROVE PhotosInv'
<1> USE PhotosInvRows
<1>1. /\ target' = [place |-> place, ver |-> target.ver + 1] /\ target.place # place
      /\ UNCHANGED <<upload, spool, files, place, busy, courier, moves>>
  BY DEF Photos!FollowFolder
<1>2. /\ target'.place = place /\ target'.ver = target.ver + 1 /\ target'.ver \in Nat \ {0}
      /\ target.ver \in Nat \ {0} /\ target.ver <= moves /\ moves \in Nat
      /\ target' = [place |-> target'.place, ver |-> target'.ver]
  BY <1>1 DEF PhotosInv, PhotosTyped, PlacesFit
<1>3. PhotosTyped'
  BY <1>1, <1>2 DEF PhotosInv, PhotosTyped
<1>4. PiecesKept' /\ NamesDiffer' /\ RunsFit' /\ ReadyKept'
  BY <1>1 DEF PhotosInv, PiecesKept, NamesDiffer, RunsFit, ReadyKept
<1>5. PlacesFit'
  <2>1. ASSUME NEW u \in Uploads
        PROVE  /\ upload[u].ver <= target'.ver /\ upload[u].ver # target'.ver
               /\ moves <= 1 /\ upload[u].ver = 1 => upload[u].place # place
    <3>1. upload[u].ver \in Nat /\ upload[u].ver <= target.ver
      BY PhotosAssumption DEF UploadRows, PhotosInv, PlacesFit
    <3>2. moves <= 1 => target.ver = 1
      BY <1>2
    <3>3. upload[u].ver = target.ver => upload[u].place = target.place
      BY DEF PhotosInv, PlacesFit
    <3> QED
      BY <1>1, <1>2, <3>1, <3>2, <3>3
  <2>2. target'.ver <= moves + 1 /\ moves # 0
    BY <1>2
  <2> QED
    BY <1>1, <1>2, <2>1, <2>2 DEF PhotosInv, PlacesFit
<1>6. PhotosOnce'
  <2>1. ASSUME NEW u \in Uploads, OnceFor(u) PROVE OnceFor(u)'
    BY <1>1, <2>1 DEF OnceFor, Pending, Photos!FolderHere, Clear
  <2>2. \A u \in Uploads : Photos!OthersStayed(u)' => Photos!OthersStayed(u)
    BY <1>1 DEF Photos!OthersStayed
  <2> QED
    BY <1>1, <2>1, <2>2 DEF PhotosInv, PhotosOnce
<1> QED
  BY <1>3, <1>4, <1>5, <1>6 DEF PhotosInv

LEMMA PhotosKeeps == PhotosInv /\ [Photos!Next]_(Photos!vars) => PhotosInv'
<1> SUFFICES ASSUME PhotosInv, [Photos!Next]_(Photos!vars) PROVE PhotosInv'
  OBVIOUS
<1>1. CASE UNCHANGED Photos!vars
  <2>1. UNCHANGED <<upload, spool, files, place, target, busy, courier, moves>>
    BY <1>1 DEF Photos!vars
  <2> QED
    BY <2>1, PhotosInvRows, PhotosRowsKeep
<1>2. ASSUME NEW u \in Uploads,
             Photos!StartUpload(u) \/ Photos!Finish(u) \/ Photos!Cancel(u) \/ Photos!Retry(u)
               \/ Photos!LeaseExpires(u)
      PROVE  PhotosInv'
  BY <1>2, PersonKeeps
<1>3. ASSUME NEW u \in Uploads, Photos!Chunk(u) \/ Photos!ChunkDies(u) PROVE PhotosInv'
  BY <1>3, ChunksKeep
<1>4. ASSUME NEW a \in FileAgents, NEW u \in Uploads, Photos!Claim(a, u) PROVE PhotosInv'
  BY <1>4, ClaimKeeps
<1>5. ASSUME NEW a \in FileAgents, Photos!Convert(a) PROVE PhotosInv'
  BY <1>5, ConvertKeeps
<1>6. ASSUME NEW a \in FileAgents, Photos!Prepare(a) PROVE PhotosInv'
  BY <1>6, PrepareKeeps
<1>7. ASSUME NEW a \in FileAgents, Photos!Publish(a) PROVE PhotosInv'
  BY <1>7, PhotosPublishKeeps
<1>8. ASSUME NEW a \in FileAgents, Photos!Complete(a) PROVE PhotosInv'
  BY <1>8, CompleteKeeps
<1>9. ASSUME NEW a \in FileAgents, Photos!Report(a) PROVE PhotosInv'
  BY <1>9, ReportKeeps
<1>10. ASSUME NEW a \in FileAgents, Photos!Dies(a) PROVE PhotosInv'
  BY <1>10, EndsKeep DEF Photos!Dies
<1>11. CASE Photos!StartOperation \/ Photos!EndOperation
  BY <1>11, OperationsKeep
<1>12. CASE Photos!MoveFolder
  BY <1>12, MoveKeeps
<1>13. CASE Photos!FollowFolder
  BY <1>13, PhotosFollowKeeps
<1>14. CASE Photos!SaveFile
  BY <1>14, SaveKeeps
<1> QED
  BY <1>1, <1>2, <1>3, <1>4, <1>5, <1>6, <1>7, <1>8, <1>9, <1>10, <1>11, <1>12, <1>13, <1>14
  DEF Photos!Next

LEMMA PhotosHolds == Photos!Spec => []PhotosInv
BY PhotosBegins, PhotosKeeps, PTL DEF Photos!Spec

LEMMA PhotosInvTypes == PhotosInv => Photos!TypeOK
<1> SUFFICES ASSUME PhotosInv PROVE Photos!TypeOK
  OBVIOUS
<1>1. target \in [place : Places, ver : 1..(MaxMoves + 1)]
  <2>1. target.ver \in 1 .. MaxMoves + 1 /\ target.place \in Places
    BY PhotosInvRows
  <2>2. target = [place |-> target.place, ver |-> target.ver]
    BY DEF PhotosInv, PhotosTyped
  <2> QED
    BY <2>1, <2>2
<1>2. \A u \in Uploads : spool[u] \in Seq({"piece", "torn"}) /\ Len(spool[u]) <= Pieces
  BY DEF PhotosInv, PiecesKept
<1> QED
  BY <1>1, <1>2 DEF PhotosInv, PhotosTyped, Photos!TypeOK, UploadRows, AgentRuns, FileKinds

LEMMA InvKept == PhotosInv => Photos!PhotosAreKept
<1> SUFFICES ASSUME PhotosInv, NEW u \in Uploads
             PROVE  /\ moves <= 1 /\ Photos!OthersStayed(u) =>
                         Cardinality({n \in Photos!Names : files[n] = Image[u]}) <= 1
                    /\ upload[u].status = "ready" => files[upload[u].out] = Image[u]
                    /\ Len(spool[u]) >= upload[u].received
                    /\ \A i \in 1..upload[u].received : spool[u][i] = "piece"
  BY PhotosCounts DEF Photos!PhotosAreKept
<1>1. ASSUME moves <= 1, Photos!OthersStayed(u)
      PROVE  Cardinality({n \in Photos!Names : files[n] = Image[u]}) <= 1
  <2>1. {n \in Photos!Names : files[n] = Image[u]} \subseteq {upload[u].out}
    BY <1>1 DEF PhotosInv, PhotosOnce, OnceFor
  <2> QED
    BY <2>1, AtMostOne
<1> QED
  BY <1>1 DEF PhotosInv, ReadyKept, PiecesKept

-----------------------------------------------------------------------------
(***************************************************************************)
(* Answers of the accident registry: each finds its request, and a request *)
(* has at most one.  The advisory lock of a number carries the first half, *)
(* the second look at the request under its lock the second.               *)
(***************************************************************************)

\* What the office does, its part does, or nothing.
LEMMA TramerRuns == OfficeSpec => Tramer!Spec
<1>1. OfficeInit => Tramer!Init
  BY DEF OfficeInit
<1>2. [OfficeNext]_officeVars => [Tramer!Next]_(Tramer!vars)
  BY DEF OfficeNext, officeVars, Only, tramerRows, Tramer!vars, TextStep, AnalysisStep,
     AiStep, AccountsStep, FeesStep, MailStep, LossStep, RegistryStep, PhotosStep,
     TramerStep, TrackingStep
<1> QED
  BY <1>1, <1>2, PTL DEF OfficeSpec, Tramer!Spec

LEMMA TramerCounts == \A S : Tramer!Cardinality(S) = Cardinality(S)
BY DEF Tramer!Cardinality, Cardinality

Results == [status : {"completed", "cancelled"}, from : {"mail", "person"}]

Said == {"completed", "cancelled", "unclear"}

RequestRow ==
  [status : {"absent", "completed", "cancelled"} \cup Tramer!Active, case : Cases \cup {Nothing},
   number : Numbers \cup {Nothing}, older : SUBSET Messages, result : Results \cup {Nothing}]

MessageRow ==
  [status : {"absent", "unread", "review", "applied", "duplicate", "dismissed"},
   number : Numbers \cup {Nothing}, says : Said \cup {Nothing},
   request : Inquiries \cup {Nothing}]

TxRow ==
  [kind : {"none", "ingest", "dismiss", "apply"},
   number : Numbers \cup {Nothing}, found : Inquiries \cup {Nothing}]

\* What the constants stand for.
LEMMA Sensible ==
  /\ Nothing \notin Inquiries \cup Numbers \cup Results \cup Said
  /\ Contents \subseteq [number : Numbers \cup {Nothing}, status : Said]
BY TramerAssumption DEF Results, Said

\* A number belongs to one request, which keeps it, and which has none before it waits.
NumbersFit ==
  /\ \A r \in Inquiries : entry[r].status \in {"absent", "entry_pending"}
     => entry[r].number = Nothing
  /\ \A r, s \in Inquiries :
       entry[r].number = entry[s].number /\ entry[r].number # Nothing => r = s

\* f is the request that has number n, or Nothing.
IsHolder(f, n) ==
  \/ f \in Inquiries /\ n # Nothing /\ entry[f].number = n
  \/ f = Nothing /\ \A r \in Inquiries : n # Nothing => entry[r].number # n

\* A transaction that has begun goes on where it began: nobody saves its number meanwhile.
UnderWay(m) ==
  /\ answering[m].kind = "ingest" =>
              /\ mailbox[m].status = "unread" /\ answering[m].number = mailbox[m].number
              /\ IsHolder(answering[m].found, answering[m].number)
  /\ answering[m].kind \in {"dismiss", "apply"} => mailbox[m].status = "review"

\* A message in review shows the request with its number, or none.
Shown(m) ==
  mailbox[m].status = "review" /\ mailbox[m].request # Nothing =>
    /\ mailbox[m].request \in Inquiries /\ mailbox[m].number # Nothing
    /\ entry[mailbox[m].request].number = mailbox[m].number

\* A message in review misses no request but by way of `missed'.
Found(m) ==
  mailbox[m].status = "review" /\ m \notin missed =>
    \A r \in Inquiries :
      entry[r].number = mailbox[m].number /\ entry[r].number # Nothing => mailbox[m].request = r

Answered(r) == \E m \in Messages : mailbox[m].status = "applied" /\ mailbox[m].request = r

AnswersFit(r) ==
  /\ \A m, p \in Messages :
       /\ mailbox[m].status = "applied" /\ mailbox[m].request = r
       /\ mailbox[p].status = "applied" /\ mailbox[p].request = r
       => m = p
  /\ entry[r].result # Nothing <=> Answered(r)
  /\ entry[r].result # Nothing => entry[r].status = entry[r].result.status
  /\ entry[r].status = "completed" => Answered(r)

\* A mail that has come says something.
Says(m) == mailbox[m].status # "absent" => mailbox[m].says # Nothing

TramerInv ==
  /\ Tramer!TypeOK /\ NumbersFit
  /\ \A m \in Messages : UnderWay(m) /\ Shown(m) /\ Found(m) /\ Says(m)
  /\ \A r \in Inquiries : AnswersFit(r)

LEMMA HolderIs ==
  ASSUME NEW n
  PROVE  IsHolder(Tramer!Holder(n), n)
<1>1. CASE \E r \in Inquiries : n # Nothing /\ entry[r].number = n
  BY <1>1 DEF Tramer!Holder, IsHolder
<1>2. CASE ~\E r \in Inquiries : n # Nothing /\ entry[r].number = n
  BY <1>2 DEF Tramer!Holder, IsHolder
<1> QED
  BY <1>1, <1>2

LEMMA TramerBegins == Tramer!Init => TramerInv
<1> SUFFICES ASSUME Tramer!Init PROVE TramerInv
  OBVIOUS
<1>1. Tramer!TypeOK
  BY DEF Tramer!Init, Tramer!TypeOK, Tramer!Active, Tramer!NoTx
<1>2. /\ \A m \in Messages : mailbox[m].status = "absent" /\ answering[m].kind = "none"
      /\ \A r \in Inquiries :
           entry[r].status = "absent" /\ entry[r].number = Nothing /\ entry[r].result = Nothing
  BY DEF Tramer!Init, Tramer!NoTx
<1> QED
  BY <1>1, <1>2 DEF TramerInv, NumbersFit, UnderWay, Shown, Found, Says, AnswersFit, Answered

------------------------------------------------------------------------------
(* The steps of people                                                        *)

\* A request that waits has no answer yet.
LEMMA WaitingUnanswered ==
  ASSUME TramerInv, NEW r \in Inquiries, entry[r].status \in Tramer!Active \cup {"absent"}
  PROVE  entry[r].result = Nothing /\ ~Answered(r)
<1>1. entry[r].result \in Results \cup {Nothing}
  BY DEF TramerInv, Tramer!TypeOK, Results
<1>2. entry[r].result # Nothing => entry[r].result.status \in {"completed", "cancelled"}
  BY <1>1 DEF Results
<1> QED
  BY <1>2 DEF TramerInv, AnswersFit, Tramer!Active

\* A step that changes the status of a request that waits, and not its number.
LEMMA StatusKeeps ==
  ASSUME TramerInv, NEW r \in Inquiries, entry[r].status \in Tramer!Active \cup {"absent"},
         NEW s \in {"entry_pending", "cancelled"}, NEW c \in Cases, NEW o \in SUBSET Messages,
         s = "entry_pending" => entry[r].status = "absent",
         entry' = [entry EXCEPT ![r] = [@ EXCEPT !.status = s, !.case = c, !.older = o]],
         UNCHANGED <<mailbox, hidden, answering, missed>>
  PROVE  TramerInv'
<1>1. entry[r].result = Nothing /\ ~Answered(r)
  BY WaitingUnanswered
<1>2. Tramer!TypeOK'
  <2>1. entry \in [Inquiries -> RequestRow]
    BY DEF TramerInv, Tramer!TypeOK, RequestRow, Results
  <2>2. [entry[r] EXCEPT !.status = s, !.case = c, !.older = o] \in RequestRow
    BY <2>1 DEF RequestRow, Tramer!Active
  <2>3. entry' \in [Inquiries -> RequestRow]
    BY <2>1, <2>2
  <2> QED
    BY <2>3 DEF TramerInv, Tramer!TypeOK, RequestRow, Results
<1>3. \A p \in Inquiries :
        /\ entry'[p].number = entry[p].number /\ entry'[p].result = entry[p].result
        /\ p # r => entry'[p] = entry[p]
  BY DEF TramerInv, Tramer!TypeOK
<1>4. entry'[r].status = s
  BY DEF TramerInv, Tramer!TypeOK
<1>5. NumbersFit'
  BY <1>3, <1>4 DEF TramerInv, NumbersFit
<1>6. ASSUME NEW m \in Messages PROVE (UnderWay(m) /\ Shown(m) /\ Found(m) /\ Says(m))'
  BY <1>3 DEF TramerInv, UnderWay, IsHolder, Shown, Found, Says
<1>7. ASSUME NEW p \in Inquiries PROVE AnswersFit(p)'
  BY <1>1, <1>3, <1>4 DEF TramerInv, AnswersFit, Answered
<1> QED
  BY <1>2, <1>5, <1>6, <1>7 DEF TramerInv

LEMMA AssignKeeps ==
  ASSUME TramerInv, NEW r \in Inquiries, NEW c \in Cases, Tramer!Assign(r, c)
  PROVE  TramerInv'
<1> DEFINE o == {m \in Messages : mailbox[m].status # "absent"}
<1>1. o \in SUBSET Messages
  OBVIOUS
<1>2. entry' = [entry EXCEPT ![r] = [@ EXCEPT !.status = "entry_pending", !.case = c, !.older = o]]
  BY DEF Tramer!Assign
<1> HIDE DEF o
<1> QED
  BY <1>1, <1>2, StatusKeeps DEF Tramer!Assign

LEMMA CancelKeeps ==
  ASSUME TramerInv, NEW r \in Inquiries, Tramer!CancelRequest(r)
  PROVE  TramerInv'
<1>1. entry[r].case \in Cases \cup {Nothing} /\ entry[r].older \in SUBSET Messages
  BY DEF TramerInv, Tramer!TypeOK
<1>2. entry[r].result = Nothing /\ ~Answered(r)
  BY WaitingUnanswered DEF Tramer!CancelRequest
<1>3. Tramer!TypeOK'
  <2>1. entry \in [Inquiries -> RequestRow]
    BY DEF TramerInv, Tramer!TypeOK, RequestRow, Results
  <2>2. [entry[r] EXCEPT !.status = "cancelled"] \in RequestRow
    BY <2>1 DEF RequestRow
  <2>3. entry' = [entry EXCEPT ![r] = [entry[r] EXCEPT !.status = "cancelled"]]
    BY <2>1 DEF Tramer!CancelRequest
  <2>4. entry' \in [Inquiries -> RequestRow]
    BY <2>1, <2>2, <2>3
  <2> QED
    BY <2>4 DEF Tramer!CancelRequest, TramerInv, Tramer!TypeOK, RequestRow, Results
<1>4. /\ \A p \in Inquiries :
           /\ entry'[p].number = entry[p].number /\ entry'[p].result = entry[p].result
           /\ p # r => entry'[p] = entry[p]
      /\ entry'[r].status = "cancelled"
  BY DEF Tramer!CancelRequest, TramerInv, Tramer!TypeOK
<1>5. UNCHANGED <<mailbox, hidden, answering, missed>>
  BY DEF Tramer!CancelRequest
<1>6. NumbersFit'
  BY <1>4 DEF TramerInv, NumbersFit
<1>7. ASSUME NEW m \in Messages PROVE (UnderWay(m) /\ Shown(m) /\ Found(m) /\ Says(m))'
  BY <1>4, <1>5 DEF TramerInv, UnderWay, IsHolder, Shown, Found, Says
<1>8. ASSUME NEW p \in Inquiries PROVE AnswersFit(p)'
  BY <1>2, <1>4, <1>5 DEF TramerInv, AnswersFit, Answered
<1> QED
  BY <1>3, <1>6, <1>7, <1>8 DEF TramerInv

LEMMA SaveNumberKeeps ==
  ASSUME TramerInv, NEW r \in Inquiries, NEW n \in Numbers, Tramer!SaveNumber(r, n)
  PROVE  TramerInv'
<1>1. n # Nothing /\ \A p \in Inquiries : entry[p].number # n
  BY HolderIs, Sensible DEF Tramer!SaveNumber, IsHolder
<1>2. entry[r].result = Nothing /\ ~Answered(r)
  BY WaitingUnanswered DEF Tramer!SaveNumber, Tramer!Active
<1>3. entry[r].number = Nothing
  BY DEF Tramer!SaveNumber, TramerInv, NumbersFit
<1>4. /\ \A p \in Inquiries : p # r => entry'[p] = entry[p]
      /\ entry'[r].number = n /\ entry'[r].status = "result_pending"
      /\ entry'[r].result = entry[r].result
  BY DEF Tramer!SaveNumber, TramerInv, Tramer!TypeOK
<1>5. ASSUME NEW m \in Messages
      PROVE  /\ mailbox'[m].status = mailbox[m].status /\ mailbox'[m].number = mailbox[m].number
             /\ mailbox'[m].says = mailbox[m].says
             /\ m \notin Tramer!Receipts(n)
                \/ answering[m].kind # "none" => mailbox'[m] = mailbox[m]
             /\ m \in Tramer!Receipts(n) /\ answering[m].kind = "none" => mailbox'[m].request = r
             /\ m \in Tramer!Receipts(n) /\ answering[m].kind # "none" => m \in missed'
             /\ m \in missed => m \in missed'
  BY DEF Tramer!SaveNumber, TramerInv, Tramer!TypeOK
<1>6. Tramer!TypeOK'
  <2>1. entry' \in [Inquiries -> RequestRow]
    <3>1. entry \in [Inquiries -> RequestRow]
      BY DEF TramerInv, Tramer!TypeOK, RequestRow, Results
    <3>2. [entry[r] EXCEPT !.status = "result_pending", !.number = n] \in RequestRow
      BY <3>1 DEF RequestRow, Tramer!Active
    <3> QED
      BY <3>1, <3>2 DEF Tramer!SaveNumber
  <2>2. mailbox' \in [Messages -> [
       status : {"absent", "unread", "review", "applied", "duplicate", "dismissed"},
       number : Numbers \cup {Nothing}, says : {"completed", "cancelled", "unclear", Nothing},
       request : Inquiries \cup {Nothing}]]
    BY DEF Tramer!SaveNumber, TramerInv, Tramer!TypeOK
  <2>3. missed' \subseteq Messages /\ UNCHANGED <<hidden, answering>>
    BY DEF Tramer!SaveNumber, TramerInv, Tramer!TypeOK, Tramer!Receipts
  <2> QED
    BY <2>1, <2>2, <2>3 DEF TramerInv, Tramer!TypeOK, RequestRow, Results
<1>7. NumbersFit'
  BY <1>1, <1>4 DEF TramerInv, NumbersFit
<1>8. ASSUME NEW m \in Messages PROVE UnderWay(m)'
  <2>1. UNCHANGED answering
    BY DEF Tramer!SaveNumber
  <2>2. answering[m].number # n
    BY <1>1 DEF Tramer!SaveNumber, Tramer!Locked
  <2>3. answering[m].kind = "ingest" => IsHolder(answering[m].found, answering[m].number)'
    BY <1>3, <1>4, <2>1, <2>2 DEF TramerInv, UnderWay, IsHolder
  <2> QED
    BY <1>5, <2>1, <2>3 DEF TramerInv, UnderWay
<1>9. ASSUME NEW m \in Messages PROVE (Shown(m) /\ Found(m) /\ Says(m))'
  <2>1. CASE m \in Tramer!Receipts(n)
    BY <1>1, <1>3, <1>4, <1>5, <2>1, Sensible DEF TramerInv, Shown, Found, Says, Tramer!Receipts
  <2>2. CASE m \notin Tramer!Receipts(n)
    <3>1. mailbox'[m] = mailbox[m]
      BY <1>5, <2>2
    <3>2. mailbox[m].status = "review" => mailbox[m].number # n
      BY <1>1, <2>2 DEF TramerInv, Shown, Tramer!Receipts
    <3> QED
      BY <1>3, <1>4, <1>5, <3>1, <3>2 DEF TramerInv, Shown, Found, Says
  <2> QED
    BY <2>1, <2>2
<1>10. ASSUME NEW p \in Inquiries PROVE AnswersFit(p)'
  <2>1. \A m \in Messages :
          mailbox[m].status = "applied" => mailbox'[m] = mailbox[m]
    BY <1>5 DEF Tramer!Receipts
  <2> QED
    BY <1>2, <1>4, <1>5, <2>1 DEF TramerInv, AnswersFit, Answered
<1> QED
  BY <1>6, <1>7, <1>8, <1>9, <1>10 DEF TramerInv

------------------------------------------------------------------------------
(* The steps of the worker and of reviews                                     *)

\* A step that changes transactions only, each to one that is under way as it should.
LEMMA BeginKeeps ==
  ASSUME TramerInv, UNCHANGED <<entry, mailbox, hidden, missed>>,
         NEW m \in Messages,
         NEW t \in TxRow,
         answering' = [answering EXCEPT ![m] = t], UnderWay(m)'
  PROVE  TramerInv'
<1>1. Tramer!TypeOK'
  BY DEF TramerInv, Tramer!TypeOK, TxRow
<1>2. \A p \in Messages : UnderWay(p)'
  BY DEF TramerInv, Tramer!TypeOK, UnderWay, IsHolder
<1>3. NumbersFit' /\ \A p \in Messages : (Shown(p) /\ Found(p) /\ Says(p))'
  BY DEF TramerInv, NumbersFit, Shown, Found, Says
<1>4. \A r \in Inquiries : AnswersFit(r)'
  BY DEF TramerInv, AnswersFit, Answered
<1> QED
  BY <1>1, <1>2, <1>3, <1>4 DEF TramerInv

LEMMA StartIngestKeeps ==
  ASSUME TramerInv, NEW m \in Messages, Tramer!StartIngest(m)
  PROVE  TramerInv'
<1> DEFINE t == [kind |-> "ingest", number |-> mailbox[m].number,
                 found |-> Tramer!Holder(mailbox[m].number)]
<1>1. IsHolder(t.found, t.number)
  BY HolderIs
<1>2. t \in TxRow
  BY <1>1 DEF IsHolder, TramerInv, Tramer!TypeOK, TxRow
<1>3. answering' = [answering EXCEPT ![m] = t] /\ UNCHANGED <<entry, mailbox, hidden, missed>>
  BY DEF Tramer!StartIngest
<1>4. answering'[m] = t
  BY <1>3 DEF TramerInv, Tramer!TypeOK
<1>5. UnderWay(m)'
  BY <1>1, <1>3, <1>4 DEF Tramer!StartIngest, UnderWay, IsHolder
<1> HIDE DEF t
<1> QED
  BY <1>2, <1>3, <1>5, BeginKeeps

LEMMA StartReviewKeeps ==
  ASSUME TramerInv, NEW m \in Messages, Tramer!StartReview(m)
  PROVE  TramerInv'
<1>1. PICK t \in TxRow : answering' = [answering EXCEPT ![m] = t]
        /\ t.kind \in {"dismiss", "apply"}
  <2>1. answering[m] \in TxRow
    BY DEF TramerInv, Tramer!TypeOK, TxRow
  <2>2. CASE answering' = [answering EXCEPT ![m].kind = "dismiss"]
    <3> DEFINE d == [answering[m] EXCEPT !.kind = "dismiss"]
    <3>1. d \in TxRow /\ d.kind = "dismiss"
      BY <2>1 DEF TxRow
    <3>2. answering' = [answering EXCEPT ![m] = d]
      BY <2>1, <2>2
    <3> HIDE DEF d
    <3> QED
      BY <3>1, <3>2
  <2>3. CASE \E n \in Numbers : answering' = [answering EXCEPT ![m] = [kind |-> "apply", number |-> n, found |-> Nothing]]
    <3>1. PICK n \in Numbers : answering' = [answering EXCEPT ![m] = [kind |-> "apply", number |-> n, found |-> Nothing]]
      BY <2>3
    <3>2. [kind |-> "apply", number |-> n, found |-> Nothing] \in TxRow
      BY DEF TxRow
    <3> QED
      BY <3>1, <3>2
  <2> QED
    BY <2>2, <2>3 DEF Tramer!StartReview
<1>2. answering'[m] = t
  BY <1>1 DEF TramerInv, Tramer!TypeOK
<1>3. UnderWay(m)'
  BY <1>1, <1>2 DEF Tramer!StartReview, UnderWay
<1> QED
  BY <1>1, <1>3, BeginKeeps DEF Tramer!StartReview

LEMMA RollBackKeeps ==
  ASSUME TramerInv, NEW m \in Messages, Tramer!RollBack(m)
  PROVE  TramerInv'
<1>1. Tramer!NoTx.kind = "none" /\ Tramer!NoTx \in TxRow
  BY DEF Tramer!NoTx, TxRow
<1>2. answering'[m] = Tramer!NoTx
  BY DEF Tramer!RollBack, TramerInv, Tramer!TypeOK
<1>3. UnderWay(m)'
  BY <1>1, <1>2 DEF UnderWay
<1> QED
  BY <1>1, <1>3, BeginKeeps DEF Tramer!RollBack

\* A step of the transaction on a message, or its arrival, that answers nothing.
LEMMA MessageKeeps ==
  ASSUME TramerInv, NEW m \in Messages, mailbox[m].status \notin {"applied"},
         NEW entered \in MessageRow, mailbox' = [mailbox EXCEPT ![m] = entered],
         entered.status \in {"unread", "duplicate", "dismissed", "review"},
           entered.says # Nothing,
         entered.status = "review" =>
           entered.number = mailbox[m].number /\ IsHolder(entered.request, entered.number),
         NEW t \in TxRow, t.kind = "none", answering' = [answering EXCEPT ![m] = t],
         UNCHANGED <<entry, hidden, missed>>
  PROVE  TramerInv'
<1>1. answering \in [Messages -> TxRow]
  BY DEF TramerInv, Tramer!TypeOK, TxRow
<1>2. mailbox \in [Messages -> MessageRow]
  BY DEF TramerInv, Tramer!TypeOK, MessageRow, Said
<1>3. /\ mailbox'[m] = entered /\ answering'[m].kind = "none"
      /\ \A p \in Messages : p # m => mailbox'[p] = mailbox[p] /\ answering'[p] = answering[p]
  BY <1>1, <1>2
<1>4. Tramer!TypeOK'
  <2>1. mailbox' \in [Messages -> MessageRow] /\ answering' \in [Messages -> TxRow]
    BY <1>1, <1>2
  <2> QED
    BY <2>1 DEF TramerInv, Tramer!TypeOK, MessageRow, TxRow, Said
<1>5. NumbersFit'
  BY DEF TramerInv, NumbersFit
<1>6. ASSUME NEW p \in Messages PROVE UnderWay(p)'
  BY <1>3 DEF TramerInv, UnderWay, IsHolder
<1>7. ASSUME NEW p \in Messages PROVE (Shown(p) /\ Says(p))'
  BY <1>3 DEF TramerInv, Shown, Says, IsHolder
<1>8. ASSUME NEW p \in Messages PROVE Found(p)'
  <2>1. CASE p = m
    BY <1>3, <2>1 DEF TramerInv, Found, IsHolder, NumbersFit
  <2>2. CASE p # m
    BY <1>3, <2>2 DEF TramerInv, Found
  <2> QED
    BY <2>1, <2>2
<1>9. ASSUME NEW r \in Inquiries PROVE AnswersFit(r)'
  <2>1. \A p \in Messages :
          /\ mailbox'[p].status = "applied" <=> mailbox[p].status = "applied"
          /\ mailbox[p].status = "applied" => mailbox'[p] = mailbox[p]
    BY <1>3
  <2> QED
    BY <2>1 DEF TramerInv, AnswersFit, Answered
<1> QED
  BY <1>4, <1>5, <1>6, <1>7, <1>8, <1>9 DEF TramerInv

\* An answer is written to a request that waits for it.
LEMMA ApplyKeeps ==
  ASSUME TramerInv, NEW m \in Messages, NEW r \in Inquiries,
         mailbox[m].status \in {"unread", "review"}, entry[r].status = "result_pending",
         NEW status \in {"completed", "cancelled"}, NEW from \in {"mail", "person"},
         Tramer!Apply(m, r, status, from), answering' = [answering EXCEPT ![m] = Tramer!NoTx],
           UNCHANGED <<hidden, missed>>
  PROVE  TramerInv'
<1> DEFINE result == [status |-> status, from |-> from]
           answer == [entry[r] EXCEPT !.status = status, !.result = result]
           said == [mailbox[m] EXCEPT !.status = "applied", !.number = entry[r].number, !.request = r]
<1>1. Tramer!NoTx.kind = "none" /\ Tramer!NoTx \in TxRow
  BY DEF Tramer!NoTx, TxRow
<1>2. entry \in [Inquiries -> RequestRow] /\ mailbox \in [Messages -> MessageRow]
  BY DEF TramerInv, Tramer!TypeOK, RequestRow, MessageRow, Results, Said
<1>3. result \in Results /\ result # Nothing /\ result.status = status
  BY Sensible DEF Results
<1>4. /\ answer \in RequestRow /\ answer.status = status /\ answer.result = result
      /\ answer.number = entry[r].number
  BY <1>2, <1>3 DEF RequestRow
<1>5. /\ said \in MessageRow /\ said.status = "applied" /\ said.request = r
      /\ said.says = mailbox[m].says
  BY <1>2 DEF MessageRow, RequestRow
<1>6. entry' = [entry EXCEPT ![r] = answer] /\ mailbox' = [mailbox EXCEPT ![m] = said]
  BY <1>2 DEF Tramer!Apply
<1>7. entry[r].result = Nothing /\ ~Answered(r)
  BY WaitingUnanswered DEF Tramer!Active
<1> HIDE DEF result, answer, said
<1>8. /\ mailbox'[m] = said /\ answering'[m].kind = "none" /\ entry'[r] = answer
      /\ \A p \in Messages : p # m => mailbox'[p] = mailbox[p] /\ answering'[p] = answering[p]
      /\ \A s \in Inquiries : s # r => entry'[s] = entry[s]
      /\ \A s \in Inquiries : entry'[s].number = entry[s].number
  BY <1>1, <1>2, <1>4, <1>6 DEF TramerInv, Tramer!TypeOK
<1>9. Tramer!TypeOK'
  <2>1. mailbox' \in [Messages -> MessageRow] /\ entry' \in [Inquiries -> RequestRow]
    BY <1>2, <1>4, <1>5, <1>6
  <2> QED
    BY <1>1, <2>1 DEF TramerInv, Tramer!TypeOK, MessageRow, RequestRow, Results, Said, TxRow
<1>10. NumbersFit'
  BY <1>4, <1>8 DEF TramerInv, NumbersFit
<1>11. ASSUME NEW p \in Messages PROVE UnderWay(p)'
  BY <1>8 DEF TramerInv, UnderWay, IsHolder
<1>12. ASSUME NEW p \in Messages PROVE (Shown(p) /\ Found(p) /\ Says(p))'
  BY <1>5, <1>8 DEF TramerInv, Shown, Found, Says
<1>13. ASSUME NEW s \in Inquiries PROVE AnswersFit(s)'
  <2>1. \A p \in Messages : p # m => mailbox'[p] = mailbox[p]
    BY <1>8
  <2>2. CASE s = r
    <3>1. /\ \A p \in Messages : p # m
            => ~(mailbox'[p].status = "applied" /\ mailbox'[p].request = r)
          /\ mailbox'[m].status = "applied" /\ mailbox'[m].request = r
      BY <1>5, <1>7, <1>8 DEF Answered
    <3>2. entry'[r].result # Nothing /\ entry'[r].status = entry'[r].result.status
      BY <1>3, <1>4, <1>8
    <3> QED
      BY <2>2, <3>1, <3>2 DEF AnswersFit, Answered
  <2>3. CASE s # r
    <3>1. \A p \in Messages :
            mailbox'[p].status = "applied" /\ mailbox'[p].request = s
              <=> mailbox[p].status = "applied" /\ mailbox[p].request = s
      BY <1>5, <1>8, <2>3
    <3> QED
      BY <1>8, <2>3, <3>1 DEF TramerInv, AnswersFit, Answered
  <2> QED
    BY <2>2, <2>3
<1> QED
  BY <1>9, <1>10, <1>11, <1>12, <1>13 DEF TramerInv

LEMMA ArriveKeeps ==
  ASSUME TramerInv, NEW m \in Messages, Tramer!Arrive(m)
  PROVE  TramerInv'
<1>1. PICK s \in Contents :
        mailbox' = [mailbox EXCEPT ![m] = [@ EXCEPT !.status = "unread", !.number = s.number,
                                                    !.says = s.status]]
  BY DEF Tramer!Arrive
<1> DEFINE entered == [mailbox[m] EXCEPT !.status = "unread", !.number = s.number, !.says = s.status]
<1>2. mailbox \in [Messages -> MessageRow] /\ answering \in [Messages -> TxRow]
  BY DEF TramerInv, Tramer!TypeOK, MessageRow, TxRow, Said
<1>3. s.number \in Numbers \cup {Nothing} /\ s.status \in Said /\ s.status # Nothing
  BY Sensible
<1>4. entered \in MessageRow /\ entered.status = "unread" /\ entered.says # Nothing
  BY <1>2, <1>3 DEF MessageRow
<1>5. mailbox' = [mailbox EXCEPT ![m] = entered]
  BY <1>1, <1>2
<1>6. answering[m] \in TxRow /\ answering[m].kind = "none"
        /\ answering' = [answering EXCEPT ![m] = answering[m]]
  BY <1>2 DEF Tramer!Arrive, TramerInv, UnderWay, TxRow
<1>7. mailbox[m].status \notin {"applied"}
  BY DEF Tramer!Arrive
<1> HIDE DEF entered
<1> QED
  BY <1>4, <1>5, <1>6, <1>7, MessageKeeps DEF Tramer!Arrive

LEMMA FinishIngestKeeps ==
  ASSUME TramerInv, NEW m \in Messages, Tramer!FinishIngest(m)
  PROVE  TramerInv'
<1> DEFINE r == answering[m].found
<1>1. /\ mailbox[m].status = "unread" /\ answering[m].number = mailbox[m].number
      /\ IsHolder(r, mailbox[m].number) /\ mailbox[m].says # Nothing
  BY DEF Tramer!FinishIngest, TramerInv, UnderWay, Says
<1>2. Tramer!NoTx \in TxRow /\ Tramer!NoTx.kind = "none" /\ r \in Inquiries \cup {Nothing}
  BY <1>1 DEF Tramer!NoTx, TxRow, IsHolder
<1>3. mailbox \in [Messages -> MessageRow]
  BY DEF TramerInv, Tramer!TypeOK, MessageRow, Said
<1>4. ASSUME NEW s \in {"duplicate", "review"},
             mailbox' = [mailbox EXCEPT ![m] = [@ EXCEPT !.status = s, !.request = r]],
             UNCHANGED entry
      PROVE  TramerInv'
  <2> DEFINE entered == [mailbox[m] EXCEPT !.status = s, !.request = r]
  <2>1. /\ entered \in MessageRow /\ entered.status = s /\ entered.says = mailbox[m].says
        /\ entered.number = mailbox[m].number /\ entered.request = r
    BY <1>2, <1>3 DEF MessageRow
  <2>2. mailbox' = [mailbox EXCEPT ![m] = entered]
    BY <1>3, <1>4
  <2> HIDE DEF entered
  <2> QED
    BY <1>1, <1>2, <1>4, <2>1, <2>2, MessageKeeps DEF Tramer!FinishIngest
<1>5. ASSUME r # Nothing, Tramer!Waits(r), mailbox[m].says # "unclear",
        Tramer!Apply(m, r, mailbox[m].says, "mail")
      PROVE  TramerInv'
  <2>1. mailbox[m].says \in {"completed", "cancelled"}
    BY <1>1, <1>3, <1>5 DEF MessageRow, Said
  <2>2. r \in Inquiries /\ entry[r].status = "result_pending"
    BY <1>2, <1>5 DEF Tramer!Waits
  <2> HIDE DEF r
  <2> QED
    BY <1>1, <1>5, <2>1, <2>2, ApplyKeeps DEF Tramer!FinishIngest
<1> QED
  BY <1>4, <1>5 DEF Tramer!FinishIngest

LEMMA FinishReviewKeeps ==
  ASSUME TramerInv, NEW m \in Messages, Tramer!FinishReview(m)
  PROVE  TramerInv'
<1> DEFINE r == Tramer!Holder(answering[m].number)
<1>1. mailbox[m].status = "review"
  BY DEF Tramer!FinishReview, TramerInv, UnderWay
<1>2. Tramer!NoTx \in TxRow /\ Tramer!NoTx.kind = "none"
  BY DEF Tramer!NoTx, TxRow
<1>3. mailbox \in [Messages -> MessageRow] /\ mailbox[m].says # Nothing
  BY <1>1 DEF TramerInv, Tramer!TypeOK, MessageRow, Said, Says
<1>4. CASE mailbox' = [mailbox EXCEPT ![m].status = "dismissed"] /\ UNCHANGED entry
  <2> DEFINE entered == [mailbox[m] EXCEPT !.status = "dismissed"]
  <2>1. entered \in MessageRow /\ entered.status = "dismissed" /\ entered.says = mailbox[m].says
    BY <1>3 DEF MessageRow
  <2>2. mailbox' = [mailbox EXCEPT ![m] = entered]
    BY <1>3, <1>4
  <2> HIDE DEF entered
  <2> QED
    BY <1>1, <1>2, <1>3, <1>4, <2>1, <2>2, MessageKeeps DEF Tramer!FinishReview
<1>5. ASSUME Tramer!Waits(r), NEW status \in {"completed", "cancelled"},
        Tramer!Apply(m, r, status, "person")
      PROVE  TramerInv'
  <2>1. r \in Inquiries /\ entry[r].status = "result_pending"
    BY <1>5, HolderIs DEF Tramer!Waits, IsHolder
  <2> HIDE DEF r
  <2> QED
    BY <1>1, <1>5, <2>1, ApplyKeeps DEF Tramer!FinishReview
<1> QED
  BY <1>4, <1>5 DEF Tramer!FinishReview

LEMMA ArchiveKeeps ==
  ASSUME TramerInv, NEW c \in Cases, Tramer!ArchiveOrShow(c)
  PROVE  TramerInv'
<1>1. Tramer!TypeOK'
  BY DEF Tramer!ArchiveOrShow, TramerInv, Tramer!TypeOK
<1> QED
  BY <1>1 DEF Tramer!ArchiveOrShow, TramerInv, NumbersFit, UnderWay, IsHolder, Shown, Found, Says,
              AnswersFit, Answered

LEMMA TramerKeeps ==
  ASSUME TramerInv, [Tramer!Next]_(Tramer!vars)
  PROVE  TramerInv'
<1>1. ASSUME NEW r \in Inquiries, NEW c \in Cases, Tramer!Assign(r, c) PROVE TramerInv'
  BY <1>1, AssignKeeps
<1>2. ASSUME NEW r \in Inquiries, NEW n \in Numbers, Tramer!SaveNumber(r, n) PROVE TramerInv'
  BY <1>2, SaveNumberKeeps
<1>3. ASSUME NEW r \in Inquiries, Tramer!CancelRequest(r) PROVE TramerInv'
  BY <1>3, CancelKeeps
<1>4. ASSUME NEW c \in Cases, Tramer!ArchiveOrShow(c) PROVE TramerInv'
  BY <1>4, ArchiveKeeps
<1>5. ASSUME NEW m \in Messages, Tramer!Arrive(m) \/ Tramer!StartIngest(m)
        \/ Tramer!FinishIngest(m) PROVE TramerInv'
  BY <1>5, ArriveKeeps, StartIngestKeeps, FinishIngestKeeps
<1>6. ASSUME NEW m \in Messages, Tramer!StartReview(m) \/ Tramer!FinishReview(m)
        \/ Tramer!RollBack(m) PROVE TramerInv'
  BY <1>6, StartReviewKeeps, FinishReviewKeeps, RollBackKeeps
<1>7. CASE UNCHANGED Tramer!vars
  BY <1>7 DEF Tramer!vars, TramerInv, Tramer!TypeOK, NumbersFit, UnderWay, IsHolder, Shown,
     Found, Says,
              AnswersFit, Answered
<1> QED
  BY <1>1, <1>2, <1>3, <1>4, <1>5, <1>6, <1>7 DEF Tramer!Next

LEMMA TramerHolds == Tramer!Spec => []TramerInv
BY TramerBegins, TramerKeeps, PTL DEF Tramer!Spec

LEMMA InvFindsRequests == TramerInv => Tramer!AnswersFindRequests
<1> SUFFICES ASSUME TramerInv PROVE Tramer!AnswersFindRequests
  OBVIOUS
<1>1. ASSUME NEW r \in Inquiries
      PROVE  LET answers == {m \in Messages : mailbox[m].status = "applied" /\ mailbox[m].request = r}
             IN /\ Tramer!Cardinality(answers) <= 1
                /\ entry[r].result # Nothing <=> answers # {}
                /\ entry[r].result # Nothing => entry[r].status = entry[r].result.status
                /\ entry[r].status = "completed" => answers # {}
  <2> DEFINE answers == {m \in Messages : mailbox[m].status = "applied" /\ mailbox[m].request = r}
  <2>1. answers # {} <=> Answered(r)
    BY DEF Answered
  <2>2. Cardinality(answers) <= 1
    <3>1. CASE answers = {}
      BY <3>1, FS_EmptySet
    <3>2. CASE answers # {}
      <4>1. PICK m : m \in answers
        BY <3>2
      <4>2. answers = {m}
        BY <4>1 DEF TramerInv, AnswersFit
      <4> HIDE DEF answers
      <4> QED
        BY <4>2, FS_Singleton, 1 <= 1
    <3> QED
      BY <3>1, <3>2
  <2> QED
    BY <2>1, <2>2, TramerCounts DEF TramerInv, AnswersFit
<1> QED
  BY <1>1 DEF Tramer!AnswersFindRequests, TramerInv, Found

-----------------------------------------------------------------------------
(* The rows of files                                                       *)

\* What the office does, its part does, or nothing.
LEMMA TrackingRuns == OfficeSpec => Tracking!Spec
<1>1. OfficeInit => Tracking!Init
  BY DEF OfficeInit
<1>2. [OfficeNext]_officeVars => [Tracking!Next]_(Tracking!vars)
  BY DEF OfficeNext, officeVars, Only, trackingRows, Tracking!vars, TextStep, AnalysisStep,
     AiStep, AccountsStep, FeesStep, MailStep, LossStep, RegistryStep, PhotosStep,
     TramerStep, TrackingStep
<1> QED
  BY <1>1, <1>2, PTL DEF OfficeSpec, Tracking!Spec

FileRows == [place : Places \cup {Nothing}, hash : Hashes \cup {Nothing}, rev : 0..MaxRev,
             available : BOOLEAN, status : {"pending", "approved", "rejected"},
             approved : Hashes \cup {Nothing}, seen : 0..MaxMoves]
Scans == [pc : {"idle", "walk", "report", "reconcile"}, place : Places \cup {Nothing},
          ver : 0..(MaxMoves + 1), listed : BOOLEAN, hash : Hashes \cup {Nothing},
          fresh : SUBSET Rows]
TripRows == [from : Places, to : Places, system : BOOLEAN]

TrackingTyped ==
  /\ paper \in Hashes \cup {Nothing} /\ told \in Hashes \cup {Nothing} /\ stands \in Places
  /\ edits \in 0..MaxFileEdits /\ away \subseteq Rows
  /\ trips \in Seq(TripRows) /\ Len(trips) <= MaxMoves
  /\ listed.place \in Places /\ listed = [place |-> listed.place, ver |-> Len(trips) + 1]
  /\ stands # listed.place => Len(trips) < MaxMoves
  /\ traced \in [Rows -> FileRows] /\ sweep \in [FileAgents -> Scans]

\* A scan of the version of now is of the place of now, and reports what it has listed.
ScansFit ==
  \A a \in FileAgents :
    /\ sweep[a].ver <= listed.ver /\ (sweep[a].ver = listed.ver => sweep[a].place = listed.place)
    /\ sweep[a].pc = "report" => sweep[a].listed

\* A row whose file was always there was observed after the last move, where the
\* case is; and a scan that has not listed the file knows only rows that were away.
AwayFits ==
  /\ Tracking!Missed \subseteq away
  /\ \A r \in Tracking!Tracked : r \notin away => traced[r].seen = Len(trips)
     /\ traced[r].place = listed.place
  /\ \A a \in FileAgents : sweep[a].pc = "reconcile" /\ ~sweep[a].listed =>
       \A r \in Tracking!Tracked : r \in sweep[a].fresh \/ r \in away

\* Before the folder comes back to a place, one row at most is at the place of
\* the case, and it holds what was told last.
RowsAgree ==
  /\ Len(trips) = 0 => \A r \in Tracking!Tracked : traced[r].place = listed.place
  /\ Len(trips) <= 1 =>
       \A r, s \in Rows : traced[r].place = listed.place /\ traced[s].place = listed.place =>
         r = s /\ traced[r].hash = told
  /\ \A r \in Rows : traced[r].status = "approved" => traced[r].approved = traced[r].hash

TrackingInv == TrackingTyped /\ ScansFit /\ AwayFits /\ RowsAgree

LEMMA TrackingBegins == Tracking!Init => TrackingInv
<1> SUFFICES ASSUME Tracking!Init PROVE TrackingInv
  OBVIOUS
<1> USE TrackingAssumption
<1>1. Tracking!Tracked = {}
  BY DEF Tracking!Init, Tracking!Tracked, Tracking!NoRow
<1>2. TrackingTyped
  BY DEF Tracking!Init, TrackingTyped, Tracking!NoRow, Tracking!NoScan, FileRows, Scans
<1>3. ScansFit
  BY DEF Tracking!Init, ScansFit, Tracking!NoScan
<1>4. AwayFits
  BY <1>1 DEF Tracking!Init, AwayFits, Tracking!Missed, Tracking!NoScan
<1>5. RowsAgree
  BY <1>1 DEF Tracking!Init, RowsAgree, Tracking!NoRow
<1> QED
  BY <1>2, <1>3, <1>4, <1>5 DEF TrackingInv

\* Where no move follows, a place is what it was.
LEMMA NoMoves == ASSUME NEW p PROVE Tracking!FoldLeft(Tracking!Follow, p, <<>>) = p
<1> DEFINE Trail(g) == [s \in SUBSET {} |->
             IF s = {} THEN p ELSE Tracking!Follow(g[s \ {Tracking!Max(s)}], <<>>[Tracking!Max(s)])]
<1>1. Tracking!FoldLeft(Tracking!Follow, p, <<>>) = (CHOOSE g : g = Trail(g))[{}]
  BY DEF Tracking!FoldLeft, Tracking!MapThenFoldSet
<1>2. \E g : g = Trail(g)
  <2> DEFINE g == [s \in SUBSET {} |-> p]
  <2>1. g = Trail(g)
    OBVIOUS
  <2> QED
    BY <2>1
<1> DEFINE h == CHOOSE g : g = Trail(g)
<1>3. h = Trail(h)
  BY <1>2
<1>4. h[{}] = p
  <2> HIDE DEF h
  <2> QED
    BY <1>3
<1> QED
  BY <1>1, <1>4

LEMMA SeenLast ==
  ASSUME trips \in Seq(TripRows), NEW r \in Rows, traced[r].seen = Len(trips)
  PROVE  Tracking!Resolved(r) = traced[r].place
<1>1. SubSeq(trips, traced[r].seen + 1, Len(trips)) = <<>>
  OBVIOUS
<1> QED
  BY <1>1, NoMoves DEF Tracking!Resolved

LEMMA StaysHere ==
  ASSUME TrackingInv, NEW r \in Tracking!Tracked, r \notin away
  PROVE  Tracking!Resolved(r) = listed.place /\ stands = listed.place
<1>1. r \in Rows /\ traced[r].seen = Len(trips) /\ traced[r].place = listed.place
  BY DEF TrackingInv, AwayFits, Tracking!Tracked
<1>2. Tracking!Resolved(r) = listed.place
  BY <1>1, SeenLast DEF TrackingInv, TrackingTyped
<1>3. Tracking!FileThere(r)
  BY DEF TrackingInv, AwayFits, Tracking!Missed
<1> QED
  BY <1>2, <1>3 DEF Tracking!FileThere

\* The rows stay: what was away still is.
LEMMA AwayStays ==
  ASSUME TrackingInv, traced' = traced, Tracking!Away
  PROVE  away \subseteq away' /\ Tracking!Missed' \subseteq away' /\ away' \subseteq Rows
    /\ Tracking!Tracked' = Tracking!Tracked
BY DEF Tracking!Away, Tracking!Observed, TrackingInv, TrackingTyped, Tracking!Missed,
   Tracking!Tracked

LEMMA DiskKeeps == ASSUME TrackingInv, Tracking!Edit \/ Tracking!MoveFolder, Tracking!Away
  PROVE TrackingInv'
<1>1. UNCHANGED <<listed, trips, traced, sweep, told>>
  BY DEF Tracking!Edit, Tracking!MoveFolder
<1>2. TrackingTyped'
  BY <1>1, AwayStays, TrackingAssumption DEF TrackingInv, TrackingTyped, Tracking!Edit,
     Tracking!MoveFolder
<1>3. ScansFit' /\ RowsAgree'
  BY <1>1 DEF TrackingInv, ScansFit, RowsAgree, Tracking!Tracked
<1>4. AwayFits'
  BY <1>1, AwayStays DEF TrackingInv, AwayFits
<1> QED
  BY <1>2, <1>3, <1>4 DEF TrackingInv

LEMMA TrackingPublishKeeps == ASSUME TrackingInv, Tracking!PublishMove, Tracking!Away
  PROVE TrackingInv'
<1>1. PICK system \in BOOLEAN :
        trips' = Append(trips, [from |-> listed.place, to |-> stands, system |-> system])
  BY DEF Tracking!PublishMove
<1>2. /\ stands # listed.place /\ listed' = [place |-> stands, ver |-> listed.ver + 1]
      /\ UNCHANGED <<paper, stands, traced, sweep, told, edits>>
  BY DEF Tracking!PublishMove
<1>3. /\ stands \in Places /\ listed.place \in Places /\ listed.ver = Len(trips) + 1
      /\ Len(trips) \in Nat /\ Len(trips) < MaxMoves /\ MaxMoves \in Nat
  BY <1>2, TrackingAssumption DEF TrackingInv, TrackingTyped
<1>4. /\ trips' \in Seq(TripRows) /\ Len(trips') = Len(trips) + 1
  BY <1>1, <1>3 DEF TrackingInv, TrackingTyped, TripRows
<1>5. TrackingTyped'
  BY <1>2, <1>3, <1>4, AwayStays DEF TrackingInv, TrackingTyped
<1>6. ScansFit'
  <2>1. \A a \in FileAgents : sweep[a].ver \in Nat
    BY <1>3 DEF TrackingInv, TrackingTyped, Scans
  <2> QED
    BY <1>2, <1>3, <2>1 DEF TrackingInv, ScansFit
<1>7. AwayFits'
  <2>1. Tracking!Tracked \subseteq away
    BY <1>2, StaysHere
  <2> QED
    BY <1>2, <2>1, AwayStays DEF AwayFits
<1>8. RowsAgree'
  <2>1. Len(trips') <= 1 => Len(trips) = 0
    BY <1>3, <1>4
  <2>2. Len(trips) = 0 => \A r \in Rows : traced[r].place # stands
    BY <1>2, <1>3, TrackingAssumption DEF TrackingInv, RowsAgree, Tracking!Tracked
  <2> QED
    BY <1>2, <1>3, <1>4, <2>1, <2>2 DEF TrackingInv, RowsAgree
<1> QED
  BY <1>5, <1>6, <1>7, <1>8 DEF TrackingInv

LEMMA TrackingScanKeeps ==
  ASSUME TrackingInv, NEW a \in FileAgents, Tracking!StartScan(a) \/ Tracking!Walk(a)
    \/ Tracking!EndScan(a), Tracking!Away
  PROVE  TrackingInv'
<1>1. UNCHANGED <<paper, stands, listed, trips, traced, told, edits>>
  BY DEF Tracking!StartScan, Tracking!Walk, Tracking!EndScan
<1>2. /\ \A b \in FileAgents : b # a => sweep'[b] = sweep[b]
      /\ sweep' \in [FileAgents -> Scans]
      /\ sweep'[a].ver <= listed.ver
         /\ (sweep'[a].ver = listed.ver => sweep'[a].place = listed.place)
      /\ sweep'[a].pc = "report" => sweep'[a].listed
      /\ sweep'[a].pc = "reconcile" /\ ~sweep'[a].listed => paper = Nothing
  <2>1. /\ listed.place \in Places /\ listed.ver \in 1 .. MaxMoves + 1
          /\ sweep \in [FileAgents -> Scans]
        /\ paper \in Hashes \cup {Nothing}
    BY TrackingAssumption DEF TrackingInv, TrackingTyped
  <2>2. CASE Tracking!StartScan(a)
    <3> DEFINE new == [[[Tracking!NoScan EXCEPT !.pc = "walk"] EXCEPT !.place = listed.place]
                         EXCEPT !.ver = listed.ver]
    <3>1. new \in Scans /\ new.ver = listed.ver /\ new.place = listed.place /\ new.pc = "walk"
      <4> DEFINE walks == [Tracking!NoScan EXCEPT !.pc = "walk"]
                 there == [walks EXCEPT !.place = listed.place]
      <4>1. walks \in Scans /\ walks.pc = "walk"
        <5>1. Tracking!NoScan \in Scans
          BY TrackingAssumption DEF Tracking!NoScan, Scans
        <5> QED
          BY <5>1 DEF Scans
      <4> HIDE DEF walks
      <4>2. there \in Scans /\ there.pc = "walk" /\ there.place = listed.place
        BY <2>1, <4>1 DEF Scans
      <4> HIDE DEF there
      <4>3. listed.ver \in 0 .. MaxMoves + 1
        BY <2>1, TrackingAssumption
      <4>4. new = [there EXCEPT !.ver = listed.ver]
        BY DEF there, walks
      <4> HIDE DEF new
      <4> QED
        BY <4>2, <4>3, <4>4 DEF Scans
    <3>2. sweep' = [sweep EXCEPT ![a] = new]
      BY <2>2 DEF Tracking!StartScan
    <3> HIDE DEF new
    <3> QED
      BY <2>1, <3>1, <3>2
  <2>3. CASE Tracking!Walk(a)
    <3>1. sweep[a].ver <= listed.ver
            /\ (sweep[a].ver = listed.ver => sweep[a].place = listed.place)
      BY DEF TrackingInv, ScansFit
    <3> DEFINE read == [[[sweep[a] EXCEPT !.pc = "report"] EXCEPT !.listed = TRUE]
                         EXCEPT !.hash = paper]
               passed == [[sweep[a] EXCEPT !.pc = "reconcile"] EXCEPT !.listed = (paper # Nothing)]
    <3>2. /\ read \in Scans /\ read.ver = sweep[a].ver /\ read.place = sweep[a].place
          /\ read.pc = "report" /\ read.listed
      BY <2>1 DEF Scans
    <3>3. /\ passed \in Scans /\ passed.ver = sweep[a].ver /\ passed.place = sweep[a].place
          /\ passed.pc = "reconcile" /\ passed.listed = (paper # Nothing)
      BY <2>1 DEF Scans
    <3>4. sweep' = [sweep EXCEPT ![a] = read] \/ sweep' = [sweep EXCEPT ![a] = passed]
      BY <2>1, <2>3 DEF Tracking!Walk
    <3> HIDE DEF read, passed
    <3> QED
      BY <2>1, <3>1, <3>2, <3>3, <3>4
  <2>4. CASE Tracking!EndScan(a)
    BY <2>1, <2>4, TrackingAssumption DEF Tracking!EndScan, Tracking!NoScan, Scans
  <2> QED
    BY <2>2, <2>3, <2>4
<1>3. TrackingTyped'
  BY <1>1, <1>2, AwayStays DEF TrackingInv, TrackingTyped
<1>4. ScansFit'
  BY <1>1, <1>2 DEF TrackingInv, ScansFit
<1>5. RowsAgree'
  BY <1>1 DEF TrackingInv, RowsAgree, Tracking!Tracked
<1>6. paper = Nothing => Tracking!Tracked \subseteq away
  BY DEF TrackingInv, AwayFits, Tracking!Missed, Tracking!FileThere
<1>7. AwayFits'
  BY <1>1, <1>2, <1>6, AwayStays DEF TrackingInv, AwayFits
<1> QED
  BY <1>3, <1>4, <1>5, <1>7 DEF TrackingInv

\* Only what a row says of its file and of its approval changes.
LEMMA MarksKeep ==
  ASSUME TrackingInv, Tracking!Away, traced' \in [Rows -> FileRows],
    sweep' \in [FileAgents -> Scans],
         UNCHANGED <<paper, stands, listed, trips, told, edits>>,
         \A r \in Rows : /\ traced'[r].place = traced[r].place /\ traced'[r].hash = traced[r].hash
                         /\ traced'[r].rev = traced[r].rev /\ traced'[r].seen = traced[r].seen
                         /\ traced'[r].status = "approved"
                            => traced'[r].approved = traced'[r].hash,
         \A b \in FileAgents : sweep'[b] = sweep[b] \/ sweep'[b] = Tracking!NoScan
  PROVE  TrackingInv'
<1>1. Tracking!Tracked' = Tracking!Tracked /\ away \subseteq away'
        /\ Tracking!Missed' \subseteq away' /\ away' \subseteq Rows
  BY DEF Tracking!Away, Tracking!Observed, Tracking!Tracked, Tracking!Missed, TrackingInv,
     TrackingTyped
<1>2. TrackingTyped'
  BY <1>1 DEF TrackingInv, TrackingTyped
<1>3. ScansFit'
  BY TrackingAssumption DEF TrackingInv, ScansFit, Tracking!NoScan, TrackingTyped
<1>4. AwayFits'
  BY <1>1 DEF TrackingInv, AwayFits, Tracking!NoScan, Tracking!Tracked
<1>5. RowsAgree'
  BY <1>1 DEF TrackingInv, RowsAgree, Tracking!Tracked
<1> QED
  BY <1>2, <1>3, <1>4, <1>5 DEF TrackingInv

LEMMA ReconcileKeeps == ASSUME TrackingInv, NEW a \in FileAgents, Tracking!Reconcile(a),
  Tracking!Away PROVE TrackingInv'
<1>1. traced \in [Rows -> FileRows] /\ sweep \in [FileAgents -> Scans]
  BY DEF TrackingInv, TrackingTyped
<1>2. \A r \in Rows : [traced[r] EXCEPT !.available = FALSE] \in FileRows
  BY <1>1 DEF FileRows
<1>3. traced' \in [Rows -> FileRows]
  BY <1>1, <1>2 DEF Tracking!Reconcile
<1>4. sweep' \in [FileAgents -> Scans] /\ \A b \in FileAgents : sweep'[b] = sweep[b]
        \/ sweep'[b] = Tracking!NoScan
  BY <1>1, TrackingAssumption DEF Tracking!Reconcile, Tracking!NoScan, Scans
<1>5. \A r \in Rows : /\ traced'[r].place = traced[r].place /\ traced'[r].hash = traced[r].hash
                      /\ traced'[r].rev = traced[r].rev /\ traced'[r].seen = traced[r].seen
                      /\ traced'[r].status = traced[r].status
                         /\ traced'[r].approved = traced[r].approved
  BY <1>1 DEF Tracking!Reconcile, FileRows
<1> QED
  BY <1>3, <1>4, <1>5, MarksKeep DEF Tracking!Reconcile, TrackingInv, RowsAgree

LEMMA TrackingReviewKeeps == ASSUME TrackingInv, NEW r \in Rows, Tracking!Review(r),
  Tracking!Away PROVE TrackingInv'
<1>1. traced \in [Rows -> FileRows] /\ sweep \in [FileAgents -> Scans]
  BY DEF TrackingInv, TrackingTyped
<1> DEFINE yes == [[traced[r] EXCEPT !.status = "approved"] EXCEPT !.approved = traced[r].hash]
           no == [traced[r] EXCEPT !.status = "rejected"]
<1>2. /\ yes \in FileRows /\ yes.approved = yes.hash /\ yes.place = traced[r].place
      /\ yes.hash = traced[r].hash /\ yes.rev = traced[r].rev /\ yes.seen = traced[r].seen
  BY <1>1 DEF FileRows
<1>3. /\ no \in FileRows /\ no.status = "rejected" /\ no.place = traced[r].place
      /\ no.hash = traced[r].hash /\ no.rev = traced[r].rev /\ no.seen = traced[r].seen
  BY <1>1 DEF FileRows
<1>4. traced' = [traced EXCEPT ![r] = yes] \/ traced' = [traced EXCEPT ![r] = no]
  BY <1>1 DEF Tracking!Review
<1> HIDE DEF yes, no
<1>5. traced' \in [Rows -> FileRows]
  BY <1>1, <1>2, <1>3, <1>4
<1>6. \A s \in Rows : /\ traced'[s].place = traced[s].place /\ traced'[s].hash = traced[s].hash
                      /\ traced'[s].rev = traced[s].rev /\ traced'[s].seen = traced[s].seen
                      /\ traced'[s].status = "approved" => traced'[s].approved = traced'[s].hash
  BY <1>1, <1>2, <1>3, <1>4 DEF TrackingInv, RowsAgree
<1> QED
  BY <1>1, <1>5, <1>6, MarksKeep DEF Tracking!Review

\* A report is of the place of the case, and is about the row there, if any.
LEMMA ReportIsHere ==
  ASSUME TrackingInv, NEW a \in FileAgents, NEW r \in Rows, Tracking!Observe(r, a)
  PROVE  /\ sweep[a].place = listed.place /\ sweep[a].listed
         /\ \A s \in Rows : traced[s].place = listed.place => s = r
<1>1. sweep[a].place = listed.place /\ sweep[a].listed
  BY DEF Tracking!Observe, Tracking!AsKnown, TrackingInv, ScansFit
<1>2. listed.place # Nothing
  BY TrackingAssumption DEF TrackingInv, TrackingTyped
<1>3. ASSUME NEW s \in Rows, traced[s].place = listed.place PROVE s = r
  <2>1. s \in Tracking!Here(a)
    BY <1>1, <1>2, <1>3 DEF Tracking!Here, Tracking!Tracked
  <2>2. Tracking!About(a) = Tracking!Here(a)
    BY <2>1 DEF Tracking!About
  <2> QED
    BY <2>1, <2>2 DEF Tracking!Observe
<1> QED
  BY <1>1, <1>3

LEMMA SeenAgainKeeps ==
  ASSUME TrackingInv, NEW a \in FileAgents, NEW r \in Tracking!Tracked, Tracking!Observe(r, a),
    Tracking!Unchanged(r, a), Tracking!Away
  PROVE  TrackingInv'
<1>1. /\ traced \in [Rows -> FileRows] /\ sweep \in [FileAgents -> Scans] /\ r \in Rows
      /\ listed.place \in Places /\ listed.place # Nothing
  BY TrackingAssumption DEF TrackingInv, TrackingTyped, Tracking!Tracked
<1>2. /\ sweep[a].place = listed.place /\ sweep[a].listed /\ traced[r].hash = sweep[a].hash
      /\ \A s \in Rows : traced[s].place = listed.place => s = r
  BY <1>1, ReportIsHere DEF Tracking!Unchanged
<1> DEFINE new == [[traced[r] EXCEPT !.place = sweep[a].place] EXCEPT !.available = TRUE]
<1>3. /\ new \in FileRows /\ new.place = listed.place /\ new.hash = traced[r].hash
      /\ new.rev = traced[r].rev /\ new.seen = traced[r].seen
      /\ new.status = traced[r].status /\ new.approved = traced[r].approved
  BY <1>1, <1>2 DEF FileRows
<1>4. /\ traced' = [traced EXCEPT ![r] = new] /\ sweep' = [sweep EXCEPT ![a].pc = "reconcile"]
      /\ told' = sweep[a].hash /\ UNCHANGED <<paper, stands, listed, trips, edits>>
  BY <1>1 DEF Tracking!Observe
<1> HIDE DEF new
<1>5. /\ traced' \in [Rows -> FileRows] /\ traced'[r] = new
        /\ \A s \in Rows : s # r => traced'[s] = traced[s]
  BY <1>1, <1>3, <1>4
<1>6. /\ sweep' \in [FileAgents -> Scans] /\ sweep'[a].pc = "reconcile" /\ sweep'[a].listed
      /\ sweep'[a].ver = sweep[a].ver /\ sweep'[a].place = sweep[a].place
      /\ \A b \in FileAgents : b # a => sweep'[b] = sweep[b]
  BY <1>1, <1>2, <1>4 DEF Scans
<1>7. Tracking!Tracked' = Tracking!Tracked
  BY <1>1, <1>3, <1>5 DEF Tracking!Tracked
<1>8. away \subseteq away' /\ Tracking!Missed' \subseteq away' /\ away' \subseteq Rows
  BY <1>3, <1>5 DEF Tracking!Away, Tracking!Observed, Tracking!Missed, Tracking!Tracked,
     TrackingInv, TrackingTyped
<1>9. TrackingTyped'
  BY <1>1, <1>4, <1>5, <1>6, <1>8 DEF TrackingInv, TrackingTyped, Scans
<1>10. ScansFit'
  BY <1>2, <1>4, <1>6 DEF TrackingInv, ScansFit
<1>11. AwayFits'
  <2>1. \A s \in Tracking!Tracked : s \notin away' => traced'[s].seen = Len(trips)
          /\ traced'[s].place = listed.place
    BY <1>3, <1>5, <1>8 DEF TrackingInv, AwayFits, Tracking!Tracked
  <2>2. \A b \in FileAgents : sweep'[b].pc = "reconcile" /\ ~sweep'[b].listed =>
          \A s \in Tracking!Tracked : s \in sweep'[b].fresh \/ s \in away'
    BY <1>6, <1>8 DEF TrackingInv, AwayFits
  <2> QED
    BY <1>4, <1>7, <1>8, <2>1, <2>2 DEF AwayFits
<1>12. RowsAgree'
  <2>1. Len(trips) = 0 => \A s \in Tracking!Tracked : traced'[s].place = listed.place
    BY <1>3, <1>5 DEF TrackingInv, RowsAgree, Tracking!Tracked
  <2>2. \A s \in Rows : traced'[s].place = listed.place => s = r
          /\ traced'[s].hash = sweep[a].hash
    BY <1>2, <1>3, <1>5
  <2>3. \A s \in Rows : traced'[s].status = "approved" => traced'[s].approved = traced'[s].hash
    BY <1>1, <1>3, <1>5 DEF TrackingInv, RowsAgree
  <2> QED
    BY <1>4, <1>7, <2>1, <2>2, <2>3 DEF RowsAgree
<1> QED
  BY <1>9, <1>10, <1>11, <1>12 DEF TrackingInv

LEMMA RenewKeeps ==
  ASSUME TrackingInv, NEW a \in FileAgents, NEW r \in Rows, Tracking!Observe(r, a),
         ~(r \in Tracking!Tracked /\ Tracking!Unchanged(r, a)), Tracking!Away
  PROVE  TrackingInv'
<1>1. /\ traced \in [Rows -> FileRows] /\ sweep \in [FileAgents -> Scans]
      /\ listed.place \in Places /\ listed.place # Nothing
  BY TrackingAssumption DEF TrackingInv, TrackingTyped
<1>2. /\ sweep[a].place = listed.place /\ sweep[a].listed
      /\ \A s \in Rows : traced[s].place = listed.place => s = r
  BY ReportIsHere
<1> DEFINE new == Tracking!Renewed(r, a)
<1>3. /\ traced[r].rev < MaxRev /\ traced' = [traced EXCEPT ![r] = new]
      /\ sweep' = [b \in FileAgents |->
           IF b = a THEN [[sweep[b] EXCEPT !.pc = "reconcile"]
                            EXCEPT !.fresh = sweep[b].fresh \cup {r}]
           ELSE IF sweep[b].pc = "idle" THEN sweep[b]
           ELSE [sweep[b] EXCEPT !.fresh = sweep[b].fresh \cup {r}]]
      /\ told' = sweep[a].hash /\ UNCHANGED <<paper, stands, listed, trips, edits>>
  BY <1>1 DEF Tracking!Observe
<1>4. /\ new \in FileRows /\ new.place = listed.place /\ new.hash = sweep[a].hash
      /\ new.rev = traced[r].rev + 1 /\ new.seen = Len(trips) /\ new.status = "pending"
  <2>1. traced[r].rev + 1 \in 0 .. MaxRev
    <3>1. traced[r].rev \in 0 .. MaxRev
      BY <1>1 DEF FileRows
    <3>2. traced[r].rev < MaxRev
      BY <1>3
    <3> QED
      BY <3>1, <3>2, TrackingAssumption
  <2>2. Len(trips) \in 0 .. MaxMoves
    BY TrackingAssumption DEF TrackingInv, TrackingTyped
  <2>3. sweep[a].hash \in Hashes \cup {Nothing}
    BY <1>1 DEF Scans
  <2> QED
    BY <1>1, <1>2, <2>1, <2>2, <2>3 DEF Tracking!Renewed, FileRows
<1> HIDE DEF new
<1>5. /\ traced' \in [Rows -> FileRows] /\ traced'[r] = new
        /\ \A s \in Rows : s # r => traced'[s] = traced[s]
  BY <1>1, <1>3, <1>4
<1>6. \A b \in FileAgents :
        /\ sweep'[b] \in Scans /\ sweep'[b].ver = sweep[b].ver /\ sweep'[b].place = sweep[b].place
        /\ sweep'[b].listed = sweep[b].listed
        /\ sweep'[b].pc # "idle" => sweep'[b].fresh = sweep[b].fresh \cup {r}
        /\ b # a => sweep'[b].pc = sweep[b].pc
        /\ sweep'[a].pc = "reconcile"
  BY <1>1, <1>3 DEF Scans
<1>7. sweep' \in [FileAgents -> Scans]
  BY <1>3, <1>6
<1>8. Tracking!Tracked' = Tracking!Tracked \cup {r}
  BY <1>1, <1>4, <1>5 DEF Tracking!Tracked
<1>9. Tracking!Observed = {r}
  BY <1>1, <1>4, <1>5 DEF Tracking!Observed, FileRows
<1>10. /\ away' = (away \ {r}) \cup Tracking!Missed'
       /\ Tracking!Missed' \subseteq away' /\ away' \subseteq Rows
  BY <1>8, <1>9 DEF Tracking!Away, Tracking!Missed, Tracking!Tracked, TrackingInv, TrackingTyped
<1>11. TrackingTyped'
  <2>1. told' \in Hashes \cup {Nothing} /\ UNCHANGED <<paper, stands, listed, trips, edits>>
    BY <1>1, <1>3 DEF Scans
  <2>2. traced' \in [Rows -> FileRows]
    BY <1>5
  <2>3. /\ paper \in Hashes \cup {Nothing} /\ stands \in Places /\ edits \in 0..MaxFileEdits
        /\ trips \in Seq(TripRows) /\ Len(trips) <= MaxMoves
        /\ listed.place \in Places /\ listed = [place |-> listed.place, ver |-> Len(trips) + 1]
        /\ stands # listed.place => Len(trips) < MaxMoves
    BY DEF TrackingInv, TrackingTyped
  <2>4. sweep' \in [FileAgents -> Scans] /\ away' \subseteq Rows
    BY <1>7, <1>10
  <2> QED
    BY <2>1, <2>2, <2>3, <2>4 DEF TrackingTyped
<1>12. ScansFit'
  <2>1. listed' = listed /\ \A b \in FileAgents : sweep'[b].pc = "report" => b # a
    BY <1>3, <1>6
  <2> QED
    BY <1>6, <2>1 DEF TrackingInv, ScansFit
<1>13. AwayFits'
  <2>1. \A s \in Tracking!Tracked' : s \notin away' =>
          traced'[s].seen = Len(trips) /\ traced'[s].place = listed.place
    <3>1. \A s \in Tracking!Tracked : s \notin away => traced[s].seen = Len(trips)
            /\ traced[s].place = listed.place
      BY DEF TrackingInv, AwayFits
    <3>2. Tracking!Tracked \subseteq Rows
      BY DEF Tracking!Tracked
    <3> QED
      BY <1>4, <1>5, <1>8, <1>10, <3>1, <3>2
  <2>2. ASSUME NEW b \in FileAgents, sweep'[b].pc = "reconcile", ~sweep'[b].listed,
               NEW s \in Tracking!Tracked', s \notin sweep'[b].fresh
        PROVE  s \in away'
    <3>1. b # a /\ sweep[b].pc = "reconcile" /\ ~sweep[b].listed
      BY <1>2, <1>6, <2>2
    <3>2. s # r /\ s \in Tracking!Tracked /\ s \notin sweep[b].fresh
      BY <1>6, <1>8, <2>2
    <3> QED
      BY <1>10, <3>1, <3>2 DEF TrackingInv, AwayFits
  <2> QED
    BY <1>3, <1>10, <2>1, <2>2 DEF AwayFits
<1>14. RowsAgree'
  <2>1. Len(trips) = 0 => \A s \in Tracking!Tracked' : traced'[s].place = listed.place
    <3>1. Tracking!Tracked \subseteq Rows
            /\ (Len(trips) = 0 => \A s \in Tracking!Tracked : traced[s].place = listed.place)
      BY DEF TrackingInv, RowsAgree, Tracking!Tracked
    <3> QED
      BY <1>4, <1>5, <1>8, <3>1
  <2>2. \A s \in Rows : traced'[s].place = listed.place => s = r
          /\ traced'[s].hash = sweep[a].hash
    BY <1>2, <1>4, <1>5
  <2>3. \A s \in Rows : traced'[s].status = "approved" => traced'[s].approved = traced'[s].hash
    BY <1>1, <1>4, <1>5 DEF TrackingInv, RowsAgree
  <2> QED
    BY <1>3, <2>1, <2>2, <2>3 DEF RowsAgree
<1> QED
  BY <1>11, <1>12, <1>13, <1>14 DEF TrackingInv

LEMMA TrackingKeeps == ASSUME TrackingInv, [Tracking!Next]_(Tracking!vars) PROVE TrackingInv'
<1>1. CASE Tracking!Next
  BY <1>1, DiskKeeps, TrackingPublishKeeps, TrackingScanKeeps, ReconcileKeeps,
     TrackingReviewKeeps, SeenAgainKeeps, RenewKeeps
  DEF Tracking!Next
<1>2. CASE UNCHANGED Tracking!vars
  <2>1. UNCHANGED Tracking!vars
    BY <1>2
  <2> QED
    BY <2>1 DEF Tracking!vars, TrackingInv, TrackingTyped, ScansFit, AwayFits, RowsAgree,
       Tracking!Missed, Tracking!Tracked, Tracking!FileThere, Tracking!Resolved
<1> QED
  BY <1>1, <1>2

LEMMA TrackingHolds == Tracking!Spec => []TrackingInv
BY TrackingBegins, TrackingKeeps, PTL DEF Tracking!Spec

LEMMA TrackingInvTypes == TrackingInv => Tracking!TypeOK
<1> SUFFICES ASSUME TrackingInv PROVE Tracking!TypeOK
  OBVIOUS
<1>1. listed \in [place : Places, ver : 1..(MaxMoves + 1)]
  BY TrackingAssumption DEF TrackingInv, TrackingTyped
<1> QED
  BY <1>1 DEF TrackingInv, TrackingTyped, Tracking!TypeOK, FileRows, Scans, TripRows

LEMMA InvReady == TrackingInv => Tracking!ReadyWasApproved
<1> SUFFICES ASSUME TrackingInv PROVE Tracking!ReadyWasApproved
  OBVIOUS
<1> QED
  BY DEF TrackingInv, RowsAgree, Tracking!ReadyWasApproved, Tracking!CountsAsReady, TrackingTyped

\* Only the end of a scan calls a file missing, and one that was away.
LEMMA MissingIsAway ==
  ASSUME TrackingInv, [Tracking!Next]_(Tracking!vars), NEW r \in Rows, traced[r].available,
    ~traced'[r].available
  PROVE  r \in away
<1>1. traced \in [Rows -> FileRows]
  BY DEF TrackingInv, TrackingTyped
<1>2. ASSUME NEW a \in FileAgents, Tracking!Reconcile(a) PROVE r \in away
  <2>1. r \in Tracking!Tracked /\ r \notin sweep[a].fresh
          /\ (Tracking!Resolved(r) # listed.place \/ ~sweep[a].listed)
    BY <1>2 DEF Tracking!Reconcile, Tracking!Unobserved
  <2> QED
    BY <1>2, <2>1, StaysHere DEF Tracking!Reconcile, TrackingInv, AwayFits
<1>3. ASSUME NEW a \in FileAgents, NEW s \in Rows, Tracking!Observe(s, a) PROVE FALSE
  <2>1. \/ traced' = [traced EXCEPT ![s] = [[traced[s] EXCEPT !.place = sweep[a].place]
                                        EXCEPT !.available = TRUE]]
        \/ traced' = [traced EXCEPT ![s] = Tracking!Renewed(s, a)]
    BY <1>1, <1>3 DEF Tracking!Observe
  <2>2. [[traced[s] EXCEPT !.place = sweep[a].place] EXCEPT !.available = TRUE].available
        /\ Tracking!Renewed(s, a).available
    BY <1>1 DEF FileRows, Tracking!Renewed
  <2> QED
    BY <1>1, <2>1, <2>2
<1>4. ASSUME NEW s \in Rows, Tracking!Review(s) PROVE FALSE
  BY <1>1, <1>4 DEF Tracking!Review, FileRows
<1>5. \/ traced' = traced
      \/ \E a \in FileAgents : Tracking!Reconcile(a) \/ \E s \in Rows : Tracking!Observe(s, a)
      \/ \E s \in Rows : Tracking!Review(s)
  BY DEF Tracking!Next, Tracking!vars, Tracking!Edit, Tracking!MoveFolder, Tracking!PublishMove,
     Tracking!StartScan, Tracking!Walk, Tracking!EndScan
<1> QED
  BY <1>2, <1>3, <1>4, <1>5

-----------------------------------------------------------------------------
(* Folders and the cases they belong to                                    *)

\* What the office does, its part does, or nothing.
LEMMA RegistryRuns == OfficeSpec => Registry!Spec
<1>1. OfficeInit => Registry!Init
  BY DEF OfficeInit
<1>2. [OfficeNext]_officeVars => [Registry!Next]_(Registry!vars)
  BY DEF OfficeNext, officeVars, Only, registryRows, Registry!vars, TextStep, AnalysisStep,
     AiStep, AccountsStep, FeesStep, MailStep, LossStep, RegistryStep, PhotosStep,
     TramerStep, TrackingStep
<1> QED
  BY <1>1, <1>2, PTL DEF OfficeSpec, Registry!Spec

CaseType == [status : {"absent", "open", "closed"}, archived : BOOLEAN,
             version : Nat, claim : Registry!Claims]
LocationType == [path : Paths \cup {Nothing}, version : Nat]
WorkspaceType == [status : {"none", "planned", "ready"}, path : Paths \cup {Nothing}]
ScanType == [stage : {"idle", "found", "stopped"}, seen : [Folders -> Registry!FolderType],
             before : [Folders -> Registry!FolderType], known : SUBSET KnownCases,
             rows : [KnownCases -> LocationType], owners : [KnownCases -> Folders \cup {Nothing}],
             todo : SUBSET Folders]
TaskType == {Registry!NoTask} \cup [kind : {"inventory"}, disk : [Folders -> Registry!FolderType]]
            \cup [kind : {"new"}, folder : Folders]
            \cup [kind : {"insert"}, folder : Folders, others : SUBSET KnownCases]
            \cup [kind : {"move"}, case : KnownCases, folder : Folders]
ReviewType == [folder : Folders, path : Paths \cup {Nothing}, others : SUBSET KnownCases,
               held : BOOLEAN]

RegistryRowsTyped ==
  /\ folder \in [Folders -> Registry!FolderType] /\ known \in [KnownCases -> CaseType]
  /\ loc \in [KnownCases -> LocationType] /\ reg \in [KnownCases -> Folders \cup {Nothing}]
  /\ ws \in [KnownCases -> WorkspaceType]

PlanTyped ==
  repair.status \in {"planned", "applied"} =>
    /\ DOMAIN repair = {"status", "pair", "target", "at", "rows"}
    /\ repair = [x \in DOMAIN repair |-> repair[x]]
    /\ repair.pair \subseteq KnownCases
    /\ repair.target \in [repair.pair -> Folders \cup {Nothing}]
    /\ repair.at \in [repair.pair -> Paths \cup {Nothing}]

RegistryTyped ==
  /\ RegistryRowsTyped
  /\ scan \in ScanType /\ task \in TaskType /\ doubt \in {Registry!NoReview} \cup ReviewType
  /\ repair.status \in {"none", "planned", "applied", "undone"} /\ PlanTyped
  /\ hands \in 0 .. MaxHands

\* Every folder is of a claim, and the claims that cases brought with them are
\* those of cases.
ClaimsFit ==
  /\ \A f \in Folders : /\ folder[f].at # Nothing => folder[f].claim # Nothing
                        /\ folder[f].claim \in KnownCases => Registry!Exists(folder[f].claim)
  /\ \A c \in Registry!Existing : known[c].claim \in KnownCases => Registry!Exists(known[c].claim)
  /\ \A c \in KnownCases : ws[c].status = "planned" => Registry!Exists(c)
  /\ scan.known \subseteq Registry!Existing

\* No case of a review is of the claim of its folder.
ReviewFits ==
  doubt # Registry!NoReview =>
    /\ folder[doubt.folder].claim # Nothing
    /\ \A c \in doubt.others : Registry!Exists(c) /\ known[c].claim # folder[doubt.folder].claim

RegistryRowsFit == RegistryTyped /\ ClaimsFit /\ ReviewFits

\* A registration that has looked at the cases there are has all of them that have a
\* folder or a workspace, and only one such transaction is open.
LooksFit ==
  /\ \A c \in KnownCases : reg[c] # Nothing \/ ws[c].status # "none" => Registry!Exists(c)
  /\ repair.status \in {"planned", "applied"} => repair.pair \subseteq Registry!Existing
  /\ scan.stage # "found" => task = Registry!NoTask /\ scan.todo = {}
  /\ task.kind = "inventory" => task.disk = scan.seen
  /\ task.kind = "insert" => ~doubt.held /\ task.others = {}
  /\ Registry!Locked =>
       \A c \in Registry!Existing \ Registry!Looked : reg[c] = Nothing /\ ws[c].status = "none"

RegistryInv == RegistryRowsFit /\ LooksFit

LEMMA Remembered ==
  ASSUME NEW stage \in {"idle", "stopped"}, NEW view \in [Folders -> Registry!FolderType]
  PROVE  LET kept == Registry!Remembering(stage, view)
         IN /\ kept \in ScanType /\ kept.known = {} /\ kept.todo = {}
            /\ kept.stage = stage /\ kept.seen = view
BY DEF Registry!Remembering, ScanType, LocationType

LEMMA RegistryBegins == Registry!Init => RegistryInv
<1> SUFFICES ASSUME Registry!Init PROVE RegistryInv
  OBVIOUS
<1> DEFINE Left(old, here, of, where, new, gone, begins) ==
      /\ here # {} => old # {}
      /\ folder = [f \in Folders |->
           IF f \notin here THEN Registry!NoFolder
           ELSE IF new \in old /\ f = of[new]
                THEN [at |-> where[f], marker |-> new, claim |-> new]
           ELSE [at |-> IF f \in gone THEN Nothing ELSE where[f], marker |-> Nothing,
                 claim |-> f]]
      /\ known = [c \in KnownCases |->
           IF c \in old THEN [status |-> Registry!StatusAt(where[of[c]]), archived |-> of[c] \in gone,
                              version |-> 1, claim |-> folder[of[c]].claim]
           ELSE Registry!NoCase]
      /\ loc = [c \in KnownCases |-> IF c \in old THEN [path |-> where[of[c]], version |-> 1]
                                     ELSE [path |-> Nothing, version |-> 0]]
      /\ reg = [c \in KnownCases |-> IF c \in old \ {new} THEN of[c] ELSE Nothing]
      /\ ws = [c \in KnownCases |-> IF c \in old \cap {new}
                                    THEN [status |-> "ready", path |-> where[of[c]]]
                                    ELSE [status |-> "none", path |-> Nothing]]
      /\ scan = Registry!Remembering("idle", IF begins THEN Registry!NothingSeen ELSE folder)
      /\ task = Registry!NoTask
      /\ doubt = Registry!NoReview
      /\ repair = Registry!NoRepair
      /\ hands = 0
<1>11. PICK old \in SUBSET KnownCases, here \in SUBSET Folders :
          \E of \in {m \in [old -> here] : Registry!IsInjective(m)},
             where \in {m \in [here -> Paths] : Registry!IsInjective(m)},
               new \in old \cup {Nothing} :
          \E gone \in SUBSET {of[c] : c \in old \ {new}}, begins \in BOOLEAN :
            Left(old, here, of, where, new, gone, begins)
  BY Zenon DEF Registry!Init
<1>12. PICK of \in {m \in [old -> here] : Registry!IsInjective(m)},
            where \in {m \in [here -> Paths] : Registry!IsInjective(m)},
              new \in old \cup {Nothing} :
          \E gone \in SUBSET {of[c] : c \in old \ {new}}, begins \in BOOLEAN :
            Left(old, here, of, where, new, gone, begins)
  BY Zenon, <1>11
<1>13. PICK gone \in SUBSET {of[c] : c \in old \ {new}}, begins \in BOOLEAN :
         Left(old, here, of, where, new, gone, begins)
  BY Zenon, <1>12
<1>1. /\ of \in [old -> here] /\ where \in [here -> Paths]
      /\ Left(old, here, of, where, new, gone, begins)
  <2>1. of \in [old -> here] /\ where \in [here -> Paths]
    BY <1>12
  <2> QED
    BY Zenon, <2>1, <1>13
<1>2. /\ scan \in {Registry!Remembering("idle", folder), Registry!Remembering("idle", Registry!NothingSeen)}
      /\ task = Registry!NoTask /\ doubt = Registry!NoReview /\ repair = Registry!NoRepair
         /\ hands = 0
  BY <1>1
<1>3. folder \in [Folders -> Registry!FolderType]
  BY <1>1 DEF Registry!FolderType, Registry!Claims, Registry!NoFolder
<1>4. loc \in [KnownCases -> LocationType] /\ reg \in [KnownCases -> Folders \cup {Nothing}]
  BY <1>1 DEF LocationType
<1>5. known \in [KnownCases -> CaseType]
  BY <1>1, <1>3 DEF CaseType, Registry!FolderType, Registry!Claims, Registry!NoCase,
     Registry!StatusAt
<1>6. ws \in [KnownCases -> WorkspaceType]
  BY <1>1 DEF WorkspaceType
<1>7. scan \in ScanType /\ scan.known = {} /\ scan.stage = "idle" /\ scan.todo = {}
  <2>1. Registry!NothingSeen \in [Folders -> Registry!FolderType]
    BY DEF Registry!NothingSeen, Registry!NoFolder, Registry!FolderType, Registry!Claims
  <2> QED
    BY <1>2, <1>3, <2>1, Remembered
<1>8. RegistryTyped
  BY <1>2, <1>3, <1>4, <1>5, <1>6, <1>7, RegistryAssumption
     DEF RegistryTyped, RegistryRowsTyped, PlanTyped, Registry!NoRepair, TaskType
<1>9. \A c \in KnownCases : reg[c] # Nothing \/ ws[c].status # "none" => Registry!Exists(c)
  <2>1. \A c \in KnownCases : reg[c] # Nothing \/ ws[c].status # "none" => c \in old
    BY <1>1
  <2>2. \A c \in old : known[c].status \in {"open", "closed"}
    BY <1>1 DEF Registry!StatusAt
  <2> QED
    BY <2>1, <2>2 DEF Registry!Exists
<1>10. RegistryRowsFit
  <2>1. \A f \in Folders : /\ folder[f].at # Nothing => folder[f].claim # Nothing
                           /\ folder[f].claim \in KnownCases => folder[f].claim \in old
    BY <1>1, RegistryAssumption DEF Registry!NoFolder
  <2>2. \A c \in Registry!Existing : known[c].claim \in KnownCases => known[c].claim \in old
    <3>1. \A c \in Registry!Existing : c \in old /\ known[c].claim = folder[of[c]].claim
      BY <1>1 DEF Registry!Existing, Registry!Exists, Registry!NoCase
    <3> QED
      BY <1>1, <2>1, <3>1
  <2>3. \A c \in old : Registry!Exists(c)
    BY <1>1 DEF Registry!Exists, Registry!StatusAt
  <2>4. \A c \in KnownCases : ws[c].status # "planned"
    BY <1>1
  <2>5. ClaimsFit
    BY <1>7, <2>1, <2>2, <2>3, <2>4 DEF ClaimsFit
  <2> QED
    BY <1>2, <1>8, <2>5 DEF RegistryRowsFit, ReviewFits
<1> QED
  BY <1>2, <1>7, <1>9, <1>10 DEF RegistryInv, LooksFit, Registry!Locked, Registry!NoTask,
     Registry!NoReview, Registry!NoRepair

\* The rows of the process, of the review and of the repair stay as they are.
RestStays ==
  UNCHANGED <<scan, task, doubt, repair>> /\ hands' \in 0 .. MaxHands

LEMMA ActsKeeps == ASSUME RegistryRowsFit, Registry!Acts PROVE hands' \in 0 .. MaxHands
BY RegistryAssumption DEF Registry!Acts, RegistryRowsFit, RegistryTyped

\* A folder is made, moved or marked: what had a claim keeps it.
LEMMA FolderKeeps ==
  ASSUME RegistryRowsFit, folder' \in [Folders -> Registry!FolderType],
    UNCHANGED <<known, loc, reg, ws>>, RestStays,
         \A f \in Folders :
           /\ folder[f].claim # Nothing => folder'[f].claim = folder[f].claim
           /\ folder'[f].at # Nothing => folder'[f].claim # Nothing
           /\ folder'[f].claim \in KnownCases => Registry!Exists(folder'[f].claim)
  PROVE  RegistryRowsFit'
<1>1. RegistryTyped'
  BY DEF RegistryRowsFit, RegistryTyped, RegistryRowsTyped, PlanTyped, RestStays
<1>2. ClaimsFit'
  BY DEF RegistryRowsFit, ClaimsFit, Registry!Existing, Registry!Exists, RestStays
<1>3. doubt # Registry!NoReview => doubt.folder \in Folders
  BY DEF RegistryRowsFit, RegistryTyped, ReviewType
<1>4. ReviewFits'
  BY <1>3 DEF RegistryRowsFit, ReviewFits, Registry!Exists, RestStays
<1> QED
  BY <1>1, <1>2, <1>4 DEF RegistryRowsFit

LEMMA FoldersKeep ==
  ASSUME RegistryRowsFit,
         \/ \E f \in Folders, p \in Paths : Registry!MakeFolder(f, p) \/ Registry!MoveFolder(f, p)
         \/ \E f \in Folders : Registry!RemoveFolder(f)
         \/ \E f, g \in Folders, p \in Paths,
            keep \in BOOLEAN : Registry!CopyFolder(f, g, p, keep)
         \/ \E c \in KnownCases, f \in Folders : Registry!MakeWorkspace(c, f)
            \/ Registry!MarkWorkspace(c, f)
  PROVE  RegistryRowsFit'
<1>1. folder \in [Folders -> Registry!FolderType] /\ hands \in 0 .. MaxHands
      /\ \A f \in Folders : /\ folder[f].at # Nothing => folder[f].claim # Nothing
                            /\ folder[f].claim \in KnownCases => Registry!Exists(folder[f].claim)
  BY DEF RegistryRowsFit, RegistryTyped, RegistryRowsTyped, ClaimsFit
<1>2. ASSUME NEW f \in Folders, NEW p \in Paths, Registry!MakeFolder(f, p) PROVE RegistryRowsFit'
  <2>1. [[Registry!NoFolder EXCEPT !.at = p] EXCEPT !.claim = f] \in Registry!FolderType
    BY DEF Registry!NoFolder, Registry!FolderType, Registry!Claims
  <2>2. folder' = [folder EXCEPT ![f] = [[Registry!NoFolder EXCEPT !.at = p] EXCEPT !.claim = f]]
        /\ folder[f].claim = Nothing
    BY <1>2 DEF Registry!MakeFolder
  <2>3. [[Registry!NoFolder EXCEPT !.at = p] EXCEPT !.claim = f].claim = f
          /\ f \notin KnownCases /\ f # Nothing
    BY RegistryAssumption DEF Registry!NoFolder
  <2>4. UNCHANGED <<known, loc, reg, ws>> /\ RestStays
    BY <1>2, ActsKeeps DEF Registry!MakeFolder, Registry!RestOfRows, RestStays
  <2> QED
    BY <1>1, <2>1, <2>2, <2>3, <2>4, FolderKeeps
<1>3. ASSUME NEW f \in Folders, NEW p \in Paths, Registry!MoveFolder(f, p) PROVE RegistryRowsFit'
  <2>1. /\ folder' \in [Folders -> Registry!FolderType] /\ folder[f].claim # Nothing
        /\ \A g \in Folders : folder'[g].claim = folder[g].claim
                              /\ (g # f => folder'[g] = folder[g])
    BY <1>1, <1>3 DEF Registry!MoveFolder, Registry!FolderType
  <2>2. UNCHANGED <<known, loc, reg, ws>> /\ RestStays
    BY <1>3, ActsKeeps DEF Registry!MoveFolder, Registry!RestOfRows, RestStays
  <2> QED
    BY <1>1, <2>1, <2>2, FolderKeeps
<1>4. ASSUME NEW f \in Folders, Registry!RemoveFolder(f) PROVE RegistryRowsFit'
  <2>1. /\ folder' \in [Folders -> Registry!FolderType] /\ folder[f].claim # Nothing
        /\ \A g \in Folders : folder'[g].claim = folder[g].claim
                              /\ (g # f => folder'[g] = folder[g])
    BY <1>1, <1>4 DEF Registry!RemoveFolder, Registry!FolderType
  <2>2. UNCHANGED <<known, loc, reg, ws>> /\ RestStays
    BY <1>4, ActsKeeps DEF Registry!RemoveFolder, Registry!RestOfRows, RestStays
  <2> QED
    BY <1>1, <2>1, <2>2, FolderKeeps
<1>5. ASSUME NEW f \in Folders, NEW g \in Folders, NEW p \in Paths, NEW keep \in BOOLEAN,
             Registry!CopyFolder(f, g, p, keep)
      PROVE  RegistryRowsFit'
  <2> DEFINE copy == [folder[f] EXCEPT !.at = p]
             left == [folder[f] EXCEPT !.at = IF keep THEN @ ELSE Nothing]
  <2>1. folder[f].at # Nothing /\ folder[g].claim = Nothing /\ f # g
    BY <1>1, <1>5 DEF Registry!CopyFolder
  <2>2. copy \in Registry!FolderType /\ copy.claim = folder[f].claim
          /\ left \in Registry!FolderType
        /\ left.claim = folder[f].claim
    BY <1>1 DEF Registry!FolderType
  <2>3. folder' = [[folder EXCEPT ![g] = copy] EXCEPT ![f] = left]
    BY <1>1, <1>5, <2>1 DEF Registry!CopyFolder
  <2> HIDE DEF copy, left
  <2>4. UNCHANGED <<known, loc, reg, ws>> /\ RestStays
    BY <1>5, ActsKeeps DEF Registry!CopyFolder, Registry!RestOfRows, RestStays
  <2>5. /\ folder' \in [Folders -> Registry!FolderType] /\ folder'[f].claim = folder[f].claim
        /\ folder'[g].claim = folder[f].claim
        /\ \A h \in Folders : h # f /\ h # g => folder'[h] = folder[h]
    BY <1>1, <2>1, <2>2, <2>3
  <2> QED
    BY <1>1, <2>1, <2>4, <2>5, FolderKeeps
<1>6. ASSUME NEW c \in KnownCases, NEW f \in Folders, Registry!MakeWorkspace(c, f)
        PROVE RegistryRowsFit'
  <2>1. folder' = [folder EXCEPT ![f] = [at |-> ws[c].path, marker |-> Nothing, claim |-> c]]
        /\ folder[f].claim = Nothing /\ ws[c].path \in Paths \cup {Nothing} /\ c # Nothing
    BY <1>6, RegistryAssumption DEF Registry!MakeWorkspace, RegistryRowsFit, RegistryTyped,
       RegistryRowsTyped, WorkspaceType
  <2>2. Registry!Exists(c)
    BY <1>6 DEF Registry!MakeWorkspace, RegistryRowsFit, ClaimsFit
  <2>3. UNCHANGED <<known, loc, reg, ws>> /\ RestStays
    BY <1>1, <1>6 DEF Registry!MakeWorkspace, Registry!RestOfRows, RestStays
  <2>4. folder' \in [Folders -> Registry!FolderType]
    BY <1>1, <2>1 DEF Registry!FolderType, Registry!Claims
  <2> QED
    BY <1>1, <2>1, <2>2, <2>3, <2>4, FolderKeeps
<1>7. ASSUME NEW c \in KnownCases, NEW f \in Folders, Registry!MarkWorkspace(c, f)
        PROVE RegistryRowsFit'
  <2>1. /\ folder' \in [Folders -> Registry!FolderType]
        /\ \A g \in Folders : folder'[g].claim = folder[g].claim /\ folder'[g].at = folder[g].at
    BY <1>1, <1>7 DEF Registry!MarkWorkspace, Registry!FolderType
  <2>2. UNCHANGED <<known, loc, reg, ws>> /\ RestStays
    BY <1>1, <1>7 DEF Registry!MarkWorkspace, Registry!RestOfRows, RestStays
  <2> QED
    BY <1>1, <2>1, <2>2, FolderKeeps
<1> QED
  BY <1>2, <1>3, <1>4, <1>5, <1>6, <1>7

\* The rows of cases are written, and the scan goes on: the cases there are
\* stay, of the same claims, and a new one is of a claim that fits.
LEMMA RegistryRowsKeep ==
  ASSUME RegistryRowsFit, folder' = folder,
         known' \in [KnownCases -> CaseType], loc' \in [KnownCases -> LocationType],
         reg' \in [KnownCases -> Folders \cup {Nothing}], ws' \in [KnownCases -> WorkspaceType],
         scan' \in ScanType, scan'.known \subseteq Registry!Existing, task' \in TaskType,
         UNCHANGED repair, hands' \in 0 .. MaxHands,
         doubt' = doubt \/ doubt' = Registry!NoReview,
         \A c \in Registry!Existing : known'[c].status # "absent"
           /\ known'[c].claim = known[c].claim,
         \A c \in KnownCases \ Registry!Existing :
           \/ known'[c].status = "absent"
           \/ known'[c].claim = c
           \/ \E f \in Folders : known'[c].claim = folder[f].claim,
         \A c \in KnownCases : ws'[c].status = "planned" =>
           ws[c].status = "planned" \/ known'[c].status # "absent"
  PROVE  RegistryRowsFit'
<1>1. RegistryTyped'
  BY DEF RegistryRowsFit, RegistryTyped, RegistryRowsTyped, PlanTyped
<1>2. \A c \in KnownCases : Registry!Exists(c) => known'[c].status # "absent"
        /\ known'[c].claim = known[c].claim
  BY DEF Registry!Existing
<1>3. \A c \in KnownCases : ws'[c].status = "planned" => Registry!Exists(c)'
  BY <1>2 DEF RegistryRowsFit, ClaimsFit, Registry!Exists
<1>4. \A f \in Folders : /\ folder[f].at # Nothing => folder[f].claim # Nothing
                         /\ folder[f].claim \in KnownCases => Registry!Exists(folder[f].claim)'
  BY <1>2 DEF RegistryRowsFit, ClaimsFit, Registry!Exists
<1>5. ASSUME NEW c \in Registry!Existing', known'[c].claim \in KnownCases
      PROVE  known'[known'[c].claim].status # "absent"
  <2>1. c \in KnownCases /\ known'[c].status # "absent"
    BY <1>5 DEF Registry!Existing, Registry!Exists
  <2>2. CASE Registry!Exists(c)
    <3>1. known'[c].claim = known[c].claim
      BY <1>2, <2>1, <2>2
    <3>2. Registry!Exists(known[c].claim)
      BY <1>5, <2>1, <2>2, <3>1 DEF RegistryRowsFit, ClaimsFit, Registry!Existing
    <3> QED
      BY <1>2, <1>5, <3>1, <3>2 DEF Registry!Exists
  <2>3. CASE ~Registry!Exists(c)
    <3>1. CASE known'[c].claim = c
      BY <2>1, <3>1 DEF Registry!Exists
    <3>2. CASE \E f \in Folders : known'[c].claim = folder[f].claim
      BY <1>4, <1>5, <3>2 DEF Registry!Exists
    <3> QED
      BY <2>1, <2>3, <3>1, <3>2 DEF Registry!Existing
  <2> QED
    BY <2>2, <2>3
<1>6. scan'.known \subseteq Registry!Existing'
  BY <1>2 DEF Registry!Existing, Registry!Exists
<1>7. ClaimsFit'
  BY <1>3, <1>4, <1>5, <1>6 DEF ClaimsFit, Registry!Exists
<1>8. ReviewFits'
  <2>1. doubt # Registry!NoReview => doubt.folder \in Folders /\ doubt.others \subseteq KnownCases
    BY DEF RegistryRowsFit, RegistryTyped, ReviewType
  <2>2. CASE doubt' = Registry!NoReview
    BY <2>2 DEF ReviewFits
  <2>3. CASE doubt' = doubt /\ doubt # Registry!NoReview
    <3>1. folder[doubt.folder].claim # Nothing
          /\ \A c \in doubt.others : Registry!Exists(c)
             /\ known[c].claim # folder[doubt.folder].claim
      BY <2>3 DEF RegistryRowsFit, ReviewFits
    <3>2. \A c \in doubt.others : Registry!Exists(c)' /\ known'[c].claim = known[c].claim
      BY <1>2, <2>1, <2>3, <3>1 DEF Registry!Exists
    <3> QED
      BY <2>3, <3>1, <3>2 DEF ReviewFits
  <2> QED
    BY <2>2, <2>3
<1> QED
  BY <1>1, <1>7, <1>8 DEF RegistryRowsFit

\* The cases are not touched.
LEMMA BindingsKeep ==
  ASSUME RegistryRowsFit, UNCHANGED <<folder, known>>,
         loc' \in [KnownCases -> LocationType], reg' \in [KnownCases -> Folders \cup {Nothing}],
         ws' \in [KnownCases -> WorkspaceType],
         scan' \in ScanType, scan'.known \subseteq Registry!Existing, task' \in TaskType,
         UNCHANGED repair, hands' \in 0 .. MaxHands,
         doubt' = doubt \/ doubt' = Registry!NoReview,
         \A c \in KnownCases : ws'[c].status = "planned" => ws[c].status = "planned"
  PROVE  RegistryRowsFit'
<1>1. known' \in [KnownCases -> CaseType]
  BY DEF RegistryRowsFit, RegistryTyped, RegistryRowsTyped
<1>2. \A c \in Registry!Existing : known'[c].status # "absent" /\ known'[c].claim = known[c].claim
  BY DEF Registry!Existing, Registry!Exists
<1>3. \A c \in KnownCases \ Registry!Existing : known'[c].status = "absent"
  BY DEF Registry!Existing, Registry!Exists
<1> QED
  BY <1>1, <1>2, <1>3, RegistryRowsKeep

LEMMA RegistryInvRows ==
  RegistryRowsFit => /\ folder \in [Folders -> Registry!FolderType]
                        /\ known \in [KnownCases -> CaseType]
                  /\ loc \in [KnownCases -> LocationType]
                     /\ reg \in [KnownCases -> Folders \cup {Nothing}]
                  /\ ws \in [KnownCases -> WorkspaceType] /\ scan \in ScanType
                     /\ task \in TaskType
                  /\ doubt \in {Registry!NoReview} \cup ReviewType /\ hands \in 0 .. MaxHands
                  /\ scan.known \subseteq Registry!Existing
BY DEF RegistryRowsFit, RegistryTyped, RegistryRowsTyped, ClaimsFit

LEMMA CasesKeep ==
  ASSUME RegistryRowsFit,
         \/ \E c \in KnownCases, f \in Folders : Registry!CreateCase(c, f)
         \/ \E c \in KnownCases, p \in Paths : Registry!PlanWorkspace(c, p)
            \/ Registry!AssignLocation(c, p)
         \/ \E c \in KnownCases : Registry!ReportWorkspace(c)
  PROVE  RegistryRowsFit'
<1> USE RegistryInvRows
<1>1. ASSUME NEW c \in KnownCases, NEW f \in Folders, Registry!CreateCase(c, f)
        PROVE RegistryRowsFit'
  <2> DEFINE new == [Registry!NoCase EXCEPT !.status = "open", !.version = 1, !.claim = folder[f].claim]
  <2>1. new \in CaseType /\ new.claim = folder[f].claim /\ new.status # "absent"
    BY DEF CaseType, Registry!NoCase, Registry!FolderType
  <2>2. known' = [known EXCEPT ![c] = new] /\ c \notin Registry!Existing
    BY <1>1 DEF Registry!CreateCase, Registry!Existing
  <2> HIDE DEF new
  <2>3. UNCHANGED <<folder, loc, reg, ws, scan, task, doubt, repair>> /\ hands' \in 0 .. MaxHands
    BY <1>1, ActsKeeps DEF Registry!CreateCase, Registry!RestOfRows
  <2>4. \A d \in Registry!Existing : known'[d].status # "absent"
          /\ known'[d].claim = known[d].claim
    BY <2>2 DEF Registry!Existing, Registry!Exists
  <2>5. \A d \in KnownCases \ Registry!Existing : known'[d].status = "absent"
          \/ known'[d].claim = folder[f].claim
    BY <2>1, <2>2 DEF Registry!Existing, Registry!Exists
  <2> QED
    BY <2>1, <2>2, <2>3, <2>4, <2>5, RegistryRowsKeep
<1>2. ASSUME NEW c \in KnownCases, NEW p \in Paths, Registry!PlanWorkspace(c, p)
        PROVE RegistryRowsFit'
  <2> DEFINE new == [Registry!NoCase EXCEPT !.status = "open", !.version = 1, !.claim = c]
  <2>1. new \in CaseType /\ new.claim = c /\ new.status # "absent"
    BY DEF CaseType, Registry!NoCase, Registry!Claims
  <2>2. known' = [known EXCEPT ![c] = new] /\ c \notin Registry!Existing
    BY <1>2 DEF Registry!PlanWorkspace, Registry!Existing
  <2> HIDE DEF new
  <2>3. UNCHANGED <<folder, loc, reg, scan, task, doubt, repair>> /\ hands' \in 0 .. MaxHands
    BY <1>2, ActsKeeps DEF Registry!PlanWorkspace, Registry!RestOfRows
  <2>4. \A d \in Registry!Existing : known'[d].status # "absent"
          /\ known'[d].claim = known[d].claim
    BY <2>2 DEF Registry!Existing, Registry!Exists
  <2>5. \A d \in KnownCases \ Registry!Existing : known'[d].status = "absent"
          \/ known'[d].claim = d
    BY <2>1, <2>2 DEF Registry!Existing, Registry!Exists
  <2>6. ws' \in [KnownCases -> WorkspaceType] /\ \A d \in KnownCases : d # c => ws'[d] = ws[d]
    BY <1>2 DEF Registry!PlanWorkspace, WorkspaceType
  <2> QED
    BY <2>1, <2>2, <2>3, <2>4, <2>5, <2>6, RegistryRowsKeep
<1>3. ASSUME NEW c \in KnownCases, NEW p \in Paths, Registry!AssignLocation(c, p)
        PROVE RegistryRowsFit'
  <2>1. loc' \in [KnownCases -> LocationType]
    BY <1>3 DEF Registry!AssignLocation, LocationType
  <2>2. UNCHANGED <<folder, known, reg, ws, scan, task, doubt, repair>>
          /\ hands' \in 0 .. MaxHands
    BY <1>3, ActsKeeps DEF Registry!AssignLocation, Registry!RestOfRows
  <2> QED
    BY <2>1, <2>2, BindingsKeep
<1>4. ASSUME NEW c \in KnownCases, Registry!ReportWorkspace(c) PROVE RegistryRowsFit'
  <2>1. /\ loc' \in [KnownCases -> LocationType] /\ ws' \in [KnownCases -> WorkspaceType]
        /\ \A d \in KnownCases : ws'[d].status = "planned" => ws[d].status = "planned"
    BY <1>4 DEF Registry!ReportWorkspace, LocationType, WorkspaceType
  <2>2. UNCHANGED <<folder, known, reg, scan, task, doubt, repair, hands>>
    BY <1>4 DEF Registry!ReportWorkspace, Registry!RestOfRows
  <2> QED
    BY <2>1, <2>2, BindingsKeep
<1> QED
  BY <1>1, <1>2, <1>3, <1>4

\* What the scan and the operators do to a location and a registration.
LEMMA RegistryScanKeeps ==
  ASSUME RegistryRowsFit,
         \/ Registry!Scan \/ Registry!CommitMove \/ Registry!FreshLook
            \/ Registry!VerifyInventory \/ Registry!SkipInventory
         \/ Registry!Stop \/ Registry!Start \/ Registry!Restart
         \/ \E f \in Folders : \/ Registry!VerifyMove(f) \/ Registry!VerifyContent(f)
                                  \/ Registry!SkipMove(f)
                               \/ Registry!Bind(f) \/ Registry!VerifyNew(f) \/ Registry!SkipNew(f)
  PROVE  RegistryRowsFit'
<1> USE RegistryInvRows
<1> DEFINE Less(f) == [scan EXCEPT !.todo = @ \ {f}]
<1>1. \A f : Less(f) \in ScanType /\ Less(f).known = scan.known
  BY DEF ScanType
<1>2. CASE Registry!Scan
  <2>1. scan' \in ScanType /\ scan'.known = Registry!Existing
    BY <1>2 DEF Registry!Scan, ScanType, Registry!Existing
  <2> QED
    BY <1>2, <2>1, BindingsKeep DEF Registry!Scan
<1>3. CASE Registry!CommitMove
  <2>1. task.case \in KnownCases /\ task.folder \in Folders
    BY <1>3 DEF Registry!CommitMove, TaskType, Registry!NoTask
  <2>2. scan' = Less(task.folder)
    BY <1>3 DEF Registry!CommitMove
  <2>3. scan.seen[task.folder].at \in Paths \cup {Nothing}
    BY <2>1 DEF ScanType, Registry!FolderType
  <2>4. loc' \in [KnownCases -> LocationType] /\ reg' \in [KnownCases -> Folders \cup {Nothing}]
    <3>1. CASE Registry!MoveHolds(task.case, task.folder)
      <4>1. /\ loc' = [loc EXCEPT ![task.case] = [path |-> scan.seen[task.folder].at,
                                                 version |-> @.version + 1]]
            /\ reg' = [reg EXCEPT ![task.case] = task.folder]
        BY <1>3, <3>1 DEF Registry!CommitMove
      <4> QED
        BY <2>1, <2>3, <4>1 DEF LocationType
    <3>2. CASE ~Registry!MoveHolds(task.case, task.folder)
      <4>1. UNCHANGED <<loc, reg>>
        BY <1>3, <3>2 DEF Registry!CommitMove
      <4> QED
        BY <4>1
    <3> QED
      BY <3>1, <3>2
  <2>5. task' \in TaskType /\ UNCHANGED <<folder, known, ws, doubt, repair, hands>>
    <3>1. task' = Registry!NoTask /\ UNCHANGED <<folder, known, ws, doubt, repair, hands>>
      BY <1>3 DEF Registry!CommitMove
    <3> QED
      BY <3>1 DEF TaskType
  <2> HIDE DEF Less
  <2> QED
    BY <1>1, <2>2, <2>4, <2>5, BindingsKeep
<1>4. CASE Registry!VerifyInventory
  <2>1. task' \in TaskType
    BY <1>4 DEF Registry!VerifyInventory, TaskType
  <2> QED
    BY <1>4, <2>1, BindingsKeep DEF Registry!VerifyInventory
<1>5. CASE Registry!SkipInventory
  <2>1. scan' \in ScanType /\ scan'.known = {}
    BY <1>5, Remembered DEF Registry!SkipInventory, ScanType
  <2> QED
    BY <1>5, <2>1, BindingsKeep DEF Registry!SkipInventory
<1>6. CASE Registry!Stop \/ Registry!Start \/ Registry!Restart
  <2>1. Registry!NothingSeen \in [Folders -> Registry!FolderType]
    BY DEF Registry!NothingSeen, Registry!NoFolder, Registry!FolderType, Registry!Claims
  <2>2. scan' \in ScanType /\ scan'.known \subseteq scan.known
    BY <1>6, <2>1, Remembered DEF Registry!Stop, Registry!Start, Registry!Restart, ScanType
  <2>3. task' \in TaskType /\ hands' \in 0 .. MaxHands
        /\ UNCHANGED <<folder, known, loc, reg, ws, doubt, repair>>
    BY <1>6, ActsKeeps DEF Registry!Stop, Registry!Start, Registry!Restart, TaskType
  <2> QED
    BY <2>2, <2>3, BindingsKeep
<1>10. CASE Registry!FreshLook
  <2>1. task.folder \in Folders
    BY <1>10 DEF Registry!FreshLook, TaskType, Registry!NoTask
  <2>2. task' \in TaskType
    BY <1>10, <2>1 DEF Registry!FreshLook, TaskType, Registry!Existing
  <2>3. scan' = scan \/ scan' = Less(task.folder)
    BY <1>10 DEF Registry!FreshLook
  <2>4. UNCHANGED <<folder, known, loc, reg, ws, doubt, repair, hands>>
    BY <1>10 DEF Registry!FreshLook
  <2> HIDE DEF Less
  <2> QED
    BY <1>1, <2>2, <2>3, <2>4, BindingsKeep
<1>7. ASSUME NEW f \in Folders, Registry!VerifyMove(f) \/ Registry!VerifyContent(f)
        \/ Registry!VerifyNew(f) PROVE RegistryRowsFit'
  <2>1. task' \in TaskType
          /\ UNCHANGED <<folder, known, loc, reg, ws, scan, doubt, repair, hands>>
    BY <1>7 DEF Registry!VerifyMove, Registry!VerifyContent, Registry!VerifyNew,
       Registry!OwnersOf, Registry!Existing, TaskType
  <2> QED
    BY <2>1, BindingsKeep
<1>8. ASSUME NEW f \in Folders, Registry!SkipMove(f) \/ Registry!SkipNew(f) PROVE RegistryRowsFit'
  <2>1. scan' = Less(f) /\ UNCHANGED <<folder, known, loc, reg, ws, task, doubt, repair, hands>>
    BY <1>8 DEF Registry!SkipMove, Registry!SkipNew, Registry!Defer
  <2> HIDE DEF Less
  <2> QED
    BY <1>1, <2>1, BindingsKeep
<1>9. ASSUME NEW f \in Folders, Registry!Bind(f) PROVE RegistryRowsFit'
  <2>1. scan' = Less(f) /\ UNCHANGED <<folder, known, loc, ws, task, doubt, repair, hands>>
        /\ reg' \in [KnownCases -> Folders \cup {Nothing}]
    BY <1>9 DEF Registry!Bind
  <2> HIDE DEF Less
  <2> QED
    BY <1>1, <2>1, BindingsKeep
<1> QED
  BY <1>2, <1>3, <1>4, <1>5, <1>6, <1>7, <1>8, <1>9, <1>10

\* A new case is of the claim of its folder.
LEMMA NewCaseKeeps ==
  ASSUME RegistryRowsFit, NEW f \in Folders, NEW p \in Paths \cup {Nothing},
    Registry!NewCase(f, p),
         UNCHANGED <<folder, ws, repair, hands>>,
         scan' \in ScanType, scan'.known \subseteq Registry!Existing, task' \in TaskType,
         doubt' = doubt \/ doubt' = Registry!NoReview
  PROVE  RegistryRowsFit'
<1> USE RegistryInvRows
<1> DEFINE new == [status |-> Registry!StatusAt(p), archived |-> FALSE, version |-> 1,
                   claim |-> folder[f].claim]
<1>1. PICK c \in KnownCases :
        /\ ~Registry!Exists(c)
        /\ known' = [known EXCEPT ![c] = new]
        /\ loc' = [loc EXCEPT ![c] = [path |-> p, version |-> 1]]
        /\ reg' = [reg EXCEPT ![c] = f]
  BY DEF Registry!NewCase
<1>2. new \in CaseType /\ new.claim = folder[f].claim
  BY DEF CaseType, Registry!FolderType, Registry!StatusAt
<1> HIDE DEF new
<1>3. \A d \in Registry!Existing : known'[d].status # "absent" /\ known'[d].claim = known[d].claim
  BY <1>1 DEF Registry!Existing, Registry!Exists
<1>4. \A d \in KnownCases \ Registry!Existing : known'[d].status = "absent"
        \/ known'[d].claim = folder[f].claim
  BY <1>1, <1>2 DEF Registry!Existing, Registry!Exists
<1>5. loc' \in [KnownCases -> LocationType] /\ reg' \in [KnownCases -> Folders \cup {Nothing}]
  BY <1>1 DEF LocationType
<1>6. known' \in [KnownCases -> CaseType]
  BY <1>1, <1>2
<1> QED
  BY <1>3, <1>4, <1>5, <1>6, RegistryRowsKeep

LEMMA CommitNewKeeps == ASSUME RegistryRowsFit, Registry!CommitNew PROVE RegistryRowsFit'
<1> USE RegistryInvRows
<1>1. task.folder \in Folders
  BY DEF Registry!CommitNew, TaskType, Registry!NoTask
<1>2. scan.seen[task.folder].at \in Paths \cup {Nothing}
  BY <1>1 DEF ScanType, Registry!FolderType
<1>3. scan' \in ScanType /\ scan'.known = scan.known
  BY DEF Registry!CommitNew, ScanType
<1>4. task' \in TaskType /\ UNCHANGED <<folder, ws, doubt, repair, hands>>
  BY DEF Registry!CommitNew, TaskType
<1>5. CASE Registry!NewCase(task.folder, scan.seen[task.folder].at)
  BY <1>1, <1>2, <1>3, <1>4, <1>5, NewCaseKeeps
<1>6. CASE UNCHANGED <<known, loc, reg>>
  BY <1>3, <1>4, <1>6, BindingsKeep
<1> QED
  BY <1>5, <1>6 DEF Registry!CommitNew

\* The inventory shows and hides cases that there were when the scan began.
LEMMA CommitInventoryKeeps == ASSUME RegistryRowsFit, Registry!CommitInventory
  PROVE RegistryRowsFit'
<1> USE RegistryInvRows
<1>1. ASSUME NEW c \in KnownCases
      PROVE  LET next == [Registry!AfterScan(c) EXCEPT !.version = @ + 1]
             IN  /\ next \in CaseType /\ next.claim = known[c].claim
                 /\ Registry!Exists(c) => next.status # "absent"
  <2>1. known[c] \in CaseType
    OBVIOUS
  <2>2. /\ Registry!AfterScan(c) \in CaseType /\ Registry!AfterScan(c).claim = known[c].claim
        /\ Registry!Exists(c) => Registry!AfterScan(c).status # "absent"
    <3>1. CASE Registry!Present(c)
      <4> DEFINE shown == [known[c] EXCEPT !.archived = FALSE]
                 settled == [shown EXCEPT !.status = Registry!StatusAt(loc[c].path)]
      <4>1. shown \in CaseType /\ shown.claim = known[c].claim
        BY <2>1 DEF CaseType
      <4> HIDE DEF shown
      <4>2. settled \in CaseType /\ settled.claim = shown.claim /\ settled.status # "absent"
        BY <4>1 DEF CaseType, Registry!StatusAt
      <4>3. Registry!AfterScan(c) = settled
        BY <3>1 DEF Registry!AfterScan, shown
      <4> QED
        BY <4>1, <4>2, <4>3
    <3>2. CASE ~Registry!Present(c)
      BY <2>1, <3>2 DEF Registry!AfterScan, CaseType, Registry!Exists
    <3> QED
      BY <3>1, <3>2
  <2> QED
    BY <2>2 DEF CaseType
<1>2. \A c \in KnownCases : Registry!Reconciled(c) => Registry!Exists(c)
  BY DEF Registry!Reconciled, Registry!Existing
<1>3. known' \in [KnownCases -> CaseType]
  BY <1>1 DEF Registry!CommitInventory
<1>4. \A c \in Registry!Existing : known'[c].status # "absent" /\ known'[c].claim = known[c].claim
  BY <1>1 DEF Registry!CommitInventory, Registry!Existing, Registry!Exists
<1>5. \A c \in KnownCases \ Registry!Existing : known'[c].status = "absent"
  BY <1>2 DEF Registry!CommitInventory, Registry!Existing, Registry!Exists
<1>6. scan' \in ScanType /\ scan'.known = {}
  BY Remembered DEF Registry!CommitInventory, ScanType
<1>7. task' \in TaskType /\ UNCHANGED <<folder, loc, reg, ws, doubt, repair, hands>>
  BY DEF Registry!CommitInventory, TaskType
<1> QED
  BY <1>3, <1>4, <1>5, <1>6, <1>7, RegistryRowsKeep

-----------------------------------------------------------------------------
(* What operators do                                                       *)

LEMMA RegistryReviewKeeps ==
  ASSUME RegistryRowsFit, \/ \E f \in Folders : Registry!Review(f)
               \/ Registry!ReviewLook \/ Registry!ApplyReview \/ Registry!DropReview
  PROVE  RegistryRowsFit'
<1> USE RegistryInvRows
<1>1. ASSUME NEW f \in Folders, Registry!Review(f) PROVE RegistryRowsFit'
  <2>1. doubt' = [folder |-> f, path |-> folder[f].at, others |-> Registry!Existing,
                    held |-> FALSE]
        /\ UNCHANGED <<folder, known, loc, reg, ws, scan, task, repair>>
           /\ hands' \in 0 .. MaxHands
    BY <1>1, ActsKeeps DEF Registry!Review
  <2>2. doubt' \in ReviewType
    BY <2>1 DEF ReviewType, Registry!FolderType, Registry!Existing
  <2>3. RegistryTyped'
    BY <2>1, <2>2 DEF RegistryRowsFit, RegistryTyped, RegistryRowsTyped, PlanTyped
  <2>4. ClaimsFit'
    BY <2>1 DEF RegistryRowsFit, ClaimsFit, Registry!Existing, Registry!Exists
  <2>5. folder[f].claim # Nothing
    BY <1>1 DEF Registry!Review, RegistryRowsFit, ClaimsFit
  <2>6. ReviewFits'
    <3>1. doubt'.folder = f /\ doubt'.others = Registry!Existing
      BY <2>1
    <3> QED
      BY <1>1, <2>1, <2>5, <3>1 DEF ReviewFits, Registry!Review, Registry!Existing,
         Registry!Exists
  <2> QED
    BY <2>3, <2>4, <2>6 DEF RegistryRowsFit
<1>2. CASE Registry!ApplyReview
  <2>1. doubt.folder \in Folders /\ doubt.path \in Paths \cup {Nothing}
    BY <1>2 DEF Registry!ApplyReview, ReviewType, Registry!NoReview
  <2> QED
    BY <1>2, <2>1, NewCaseKeeps DEF Registry!ApplyReview
<1>3. CASE Registry!DropReview
  BY <1>3, BindingsKeep DEF Registry!DropReview
<1>4. CASE Registry!ReviewLook
  <2>1. doubt \in ReviewType /\ Registry!Existing = doubt.others
    BY <1>4 DEF Registry!ReviewLook, Registry!ReviewHolds
  <2>2. /\ doubt' \in ReviewType /\ doubt'.folder = doubt.folder
        /\ doubt'.others = doubt.others
    BY <1>4, <2>1 DEF Registry!ReviewLook, ReviewType
  <2>3. UNCHANGED <<folder, known, loc, reg, ws, scan, task, repair, hands>>
    BY <1>4 DEF Registry!ReviewLook
  <2>4. RegistryTyped'
    BY <2>2, <2>3 DEF RegistryRowsFit, RegistryTyped, RegistryRowsTyped, PlanTyped
  <2>5. ClaimsFit'
    BY <2>3 DEF RegistryRowsFit, ClaimsFit, Registry!Existing, Registry!Exists
  <2>6. ReviewFits'
    BY <1>4, <2>2, <2>3 DEF RegistryRowsFit, ReviewFits, Registry!ReviewLook, Registry!Exists
  <2> QED
    BY <2>4, <2>5, <2>6 DEF RegistryRowsFit
<1> QED
  BY <1>1, <1>2, <1>3, <1>4

LEMMA RecreateKeeps ==
  ASSUME RegistryRowsFit, NEW c \in KnownCases, NEW g \in Folders, Registry!Recreate(c, g)
  PROVE  RegistryRowsFit'
<1>1. loc' \in [KnownCases -> LocationType] /\ reg' \in [KnownCases -> Folders \cup {Nothing}]
  BY RegistryInvRows DEF Registry!Recreate, LocationType, Registry!FolderType
<1> QED
  BY <1>1, RegistryInvRows, ActsKeeps, BindingsKeep DEF Registry!Recreate

\* A repair is planned, applied, taken back or dropped.
LEMMA RepairStepKeeps ==
  ASSUME RegistryRowsFit, UNCHANGED <<folder, known, ws, scan, task, doubt>>,
         loc' \in [KnownCases -> LocationType], reg' \in [KnownCases -> Folders \cup {Nothing}],
         repair'.status \in {"none", "planned", "applied", "undone"}, PlanTyped',
         hands' \in 0 .. MaxHands
  PROVE  RegistryRowsFit'
<1>1. RegistryTyped'
  BY DEF RegistryRowsFit, RegistryTyped, RegistryRowsTyped
<1>2. ClaimsFit' /\ ReviewFits'
  BY DEF RegistryRowsFit, ClaimsFit, ReviewFits, Registry!Existing, Registry!Exists
<1> QED
  BY <1>1, <1>2 DEF RegistryRowsFit

LEMMA RepairKeeps ==
  ASSUME RegistryRowsFit,
         \/ \E pair \in {q \in SUBSET Registry!Existing : Registry!Cardinality(q) = 2} :
              \E goal \in [pair -> Folders \cup {Nothing}] : Registry!PlanRepair(pair, goal)
         \/ Registry!ApplyRepair \/ Registry!UndoRepair \/ Registry!DropRepair
  PROVE  RegistryRowsFit'
<1> USE RegistryInvRows
<1>1. ASSUME NEW pair \in SUBSET KnownCases, NEW goal \in [pair -> Folders \cup {Nothing}],
             Registry!PlanRepair(pair, goal)
      PROVE  RegistryRowsFit'
  <2> DEFINE where == [c \in pair |-> IF goal[c] = Nothing THEN loc[c].path
                                   ELSE folder[goal[c]].at]
             rows == [c \in pair |-> Registry!Row(c)]
  <2>1. where \in [pair -> Paths \cup {Nothing}]
    BY DEF LocationType, Registry!FolderType
  <2>2. repair' = [status |-> "planned", pair |-> pair, target |-> goal, at |-> where,
                   rows |-> rows]
    BY <1>1 DEF Registry!PlanRepair
  <2>3. UNCHANGED <<folder, known, loc, reg, ws, scan, task, doubt>> /\ hands' \in 0 .. MaxHands
    BY <1>1, ActsKeeps DEF Registry!PlanRepair
  <2> HIDE DEF where, rows
  <2>4. PlanTyped' /\ repair'.status = "planned"
    BY <2>1, <2>2 DEF PlanTyped
  <2> QED
    BY <2>3, <2>4, RepairStepKeeps
<1>2. CASE Registry!ApplyRepair
  <2> DEFINE rows == [c \in repair.pair |-> <<known[c], loc'[c], reg'[c], ws[c]>>]
             where == [c \in repair.pair |-> loc[c].path]
             goal == [c \in repair.pair |-> reg[c]]
  <2>1. /\ repair.pair \subseteq KnownCases
        /\ repair.target \in [repair.pair -> Folders \cup {Nothing}]
        /\ repair.at \in [repair.pair -> Paths \cup {Nothing}]
        /\ DOMAIN repair = {"status", "pair", "target", "at", "rows"}
        /\ repair = [x \in DOMAIN repair |-> repair[x]]
    BY <1>2 DEF Registry!ApplyRepair, RegistryRowsFit, RegistryTyped, PlanTyped
  <2>2. loc' \in [KnownCases -> LocationType] /\ reg' \in [KnownCases -> Folders \cup {Nothing}]
    BY <1>2, <2>1 DEF Registry!ApplyRepair, LocationType
  <2>3. where \in [repair.pair -> Paths \cup {Nothing}]
        /\ goal \in [repair.pair -> Folders \cup {Nothing}]
    BY <2>1 DEF LocationType
  <2>4. repair' = [repair EXCEPT !.status = "applied", !.rows = rows, !.at = where,
                                 !.target = goal]
    BY <1>2 DEF Registry!ApplyRepair
  <2>5. UNCHANGED <<folder, known, ws, scan, task, doubt, hands>>
    BY <1>2 DEF Registry!ApplyRepair
  <2> HIDE DEF rows, where, goal
  <2>6. /\ DOMAIN repair' = DOMAIN repair /\ repair'.status = "applied"
        /\ repair'.pair = repair.pair /\ repair'.at = where /\ repair'.target = goal
    BY <2>1, <2>4
  <2>7. repair' = [x \in DOMAIN repair' |-> repair'[x]]
    BY <2>4
  <2>8. PlanTyped'
    BY <2>1, <2>3, <2>6, <2>7 DEF PlanTyped
  <2> QED
    BY <2>2, <2>5, <2>6, <2>8, RepairStepKeeps
<1>3. CASE Registry!UndoRepair
  <2>1. /\ repair.pair \subseteq KnownCases
        /\ repair.target \in [repair.pair -> Folders \cup {Nothing}]
        /\ repair.at \in [repair.pair -> Paths \cup {Nothing}]
    BY <1>3 DEF Registry!UndoRepair, RegistryRowsFit, RegistryTyped, PlanTyped
  <2>2. loc' \in [KnownCases -> LocationType] /\ reg' \in [KnownCases -> Folders \cup {Nothing}]
    BY <1>3, <2>1 DEF Registry!UndoRepair, LocationType
  <2>3. repair' = [status |-> "undone"]
          /\ UNCHANGED <<folder, known, ws, scan, task, doubt, hands>>
    BY <1>3 DEF Registry!UndoRepair
  <2> QED
    BY <2>2, <2>3, RepairStepKeeps DEF PlanTyped
<1>4. CASE Registry!DropRepair
  BY <1>4, RepairStepKeeps DEF Registry!DropRepair, PlanTyped, Registry!NoRepair
<1> QED
  BY <1>1, <1>2, <1>3, <1>4 DEF Registry!Existing

LEMMA RowsKept == ASSUME RegistryRowsFit, [Registry!Next]_(Registry!vars) PROVE RegistryRowsFit'
<1>1. CASE Registry!PeopleStep
  BY <1>1, FoldersKeep, CasesKeep DEF Registry!PeopleStep
<1>2. CASE Registry!AgentStep
  BY <1>2, FoldersKeep, CasesKeep DEF Registry!AgentStep
<1>3. CASE Registry!DiscoveryStep
  BY <1>3, RegistryScanKeeps, CommitNewKeeps, CommitInventoryKeeps DEF Registry!DiscoveryStep
<1>4. CASE Registry!OperatorStep
  BY <1>4, RegistryReviewKeeps, RecreateKeeps, RepairKeeps DEF Registry!OperatorStep
<1>5. CASE Registry!Restart
  BY <1>5, RegistryScanKeeps
<1>7. CASE Registry!Start
  BY <1>7, RegistryScanKeeps
<1>6. CASE UNCHANGED Registry!vars
  <2>1. UNCHANGED Registry!vars
    BY <1>6
  <2> QED
    BY <2>1 DEF Registry!vars, RegistryRowsFit, RegistryTyped, RegistryRowsTyped, PlanTyped,
       ClaimsFit, ReviewFits, Registry!Existing, Registry!Exists
<1> QED
  BY <1>1, <1>2, <1>3, <1>4, <1>5, <1>6, <1>7 DEF Registry!Next

\* What a step owes the look of a registration: while one is open the bindings are
\* not touched, and it is the same one.
LEMMA LooksKept ==
  ASSUME RegistryInv,
         \A c \in KnownCases : Registry!Exists(c) => Registry!Exists(c)',
         \A c \in KnownCases : reg'[c] # Nothing \/ ws'[c].status # "none" => Registry!Exists(c)',
         repair'.status \in {"planned", "applied"} => repair'.pair \subseteq Registry!Existing,
         scan'.stage # "found" => task' = Registry!NoTask /\ scan'.todo = {},
         task'.kind = "inventory" => task'.disk = scan'.seen,
         task'.kind = "insert" => task' = task /\ ~doubt'.held,
         doubt'.held => doubt' = doubt,
         Registry!Locked' => UNCHANGED <<reg, ws>>
  PROVE  LooksFit'
<1>1. repair'.status \in {"planned", "applied"} => repair'.pair \subseteq Registry!Existing'
  BY DEF Registry!Existing
<1>2. task'.kind = "insert" => task'.others = {}
  BY DEF RegistryInv, LooksFit
<1>3. ASSUME Registry!Locked', NEW c \in Registry!Existing' \ Registry!Looked'
      PROVE  reg'[c] = Nothing /\ ws'[c].status = "none"
  <2>1. Registry!Locked
          /\ Registry!Looked' = Registry!Looked \cup (Registry!Looked' \ Registry!Looked)
    <3>1. CASE task'.kind = "insert"
      BY <3>1 DEF Registry!Locked, Registry!Looked
    <3>2. CASE task'.kind # "insert"
      BY <1>3, <3>2 DEF Registry!Locked, Registry!Looked, RegistryInv, LooksFit
    <3> QED
      BY <3>1, <3>2
  <2>2. c \in KnownCases
    BY DEF Registry!Existing
  <2>3. c \notin Registry!Looked
    <3>1. CASE task'.kind = "insert"
      BY <3>1 DEF Registry!Locked, Registry!Looked
    <3>2. CASE task'.kind # "insert"
      BY <1>3, <3>2 DEF Registry!Locked, Registry!Looked, RegistryInv, LooksFit
    <3> QED
      BY <3>1, <3>2
  <2>4. reg[c] = Nothing /\ ws[c].status = "none"
    <3>1. CASE Registry!Exists(c)
      BY <2>1, <2>2, <2>3, <3>1 DEF RegistryInv, LooksFit, Registry!Existing
    <3>2. CASE ~Registry!Exists(c)
      BY <2>2, <3>2 DEF RegistryInv, LooksFit
    <3> QED
      BY <3>1, <3>2
  <2> QED
    BY <1>3, <2>4
<1> QED
  BY <1>1, <1>2, <1>3 DEF LooksFit

LEMMA InvAll ==
  RegistryInv => /\ RegistryRowsFit /\ LooksFit
                 /\ folder \in [Folders -> Registry!FolderType]
                    /\ known \in [KnownCases -> CaseType]
                 /\ loc \in [KnownCases -> LocationType]
                    /\ reg \in [KnownCases -> Folders \cup {Nothing}]
                 /\ ws \in [KnownCases -> WorkspaceType] /\ scan \in ScanType /\ task \in TaskType
                 /\ doubt \in {Registry!NoReview} \cup ReviewType
BY RegistryInvRows DEF RegistryInv

\* People, the agent, and what the process does to its own memory.
LEMMA ActsLook ==
  ASSUME RegistryInv,
         \/ Registry!PeopleStep \/ Registry!AgentStep \/ Registry!Scan
            \/ Registry!VerifyInventory \/ Registry!SkipInventory
         \/ Registry!Stop \/ Registry!Start \/ Registry!Restart
         \/ \E f \in Folders : \/ Registry!VerifyMove(f) \/ Registry!VerifyContent(f)
                                  \/ Registry!SkipMove(f)
                               \/ Registry!VerifyNew(f) \/ Registry!SkipNew(f)
                                  \/ Registry!Review(f)
  PROVE  LooksFit'
<1> USE InvAll
<1>1. CASE UNCHANGED <<known, loc, reg, ws, scan, task, doubt, repair>>
  BY <1>1, LooksKept DEF Registry!Exists, LooksFit
<1>2. ASSUME NEW c \in KnownCases, NEW f \in Folders, Registry!CreateCase(c, f) PROVE LooksFit'
  <2>1. UNCHANGED <<reg, ws, scan, task, doubt, repair>>
        /\ \A d \in KnownCases : Registry!Exists(d) => Registry!Exists(d)'
    BY <1>2 DEF Registry!CreateCase, Registry!RestOfRows, Registry!Exists
  <2> QED
    BY <2>1, LooksKept DEF LooksFit
<1>3. ASSUME NEW c \in KnownCases, NEW p \in Paths, Registry!PlanWorkspace(c, p) PROVE LooksFit'
  <2>1. /\ UNCHANGED <<reg, scan, task, doubt, repair>> /\ ~Registry!Locked
        /\ \A d \in KnownCases : Registry!Exists(d) => Registry!Exists(d)'
        /\ Registry!Exists(c)' /\ \A d \in KnownCases : d # c => ws'[d] = ws[d]
    BY <1>3 DEF Registry!PlanWorkspace, Registry!RestOfRows, Registry!Exists, Registry!NoCase
  <2>2. ~Registry!Locked'
    BY <2>1 DEF Registry!Locked
  <2> QED
    BY <2>1, <2>2, LooksKept DEF LooksFit, Registry!Locked
<1>4. ASSUME NEW c \in KnownCases, NEW p \in Paths, Registry!AssignLocation(c, p) PROVE LooksFit'
  <2>1. UNCHANGED <<known, reg, ws, scan, task, doubt, repair>>
    BY <1>4 DEF Registry!AssignLocation, Registry!RestOfRows
  <2> QED
    BY <2>1, LooksKept DEF LooksFit, Registry!Exists
<1>5. ASSUME NEW c \in KnownCases, Registry!ReportWorkspace(c) PROVE LooksFit'
  <2>1. /\ UNCHANGED <<known, reg, scan, task, doubt, repair>> /\ ~Registry!Locked
        /\ ws[c].status # "none" /\ \A d \in KnownCases : d # c => ws'[d] = ws[d]
    BY <1>5 DEF Registry!ReportWorkspace, Registry!RestOfRows
  <2>2. ~Registry!Locked'
    BY <2>1 DEF Registry!Locked
  <2> QED
    BY <2>1, <2>2, LooksKept DEF LooksFit, Registry!Locked, Registry!Exists
<1>6. ASSUME NEW c \in KnownCases, NEW f \in Folders, Registry!MakeWorkspace(c, f)
        \/ Registry!MarkWorkspace(c, f)
      PROVE LooksFit'
  BY <1>1, <1>6 DEF Registry!MakeWorkspace, Registry!MarkWorkspace, Registry!RestOfRows
<1>7. CASE Registry!Scan
  <2>1. scan'.stage = "found" /\ UNCHANGED <<known, reg, ws, task, doubt, repair>>
        /\ task = Registry!NoTask
    BY <1>7 DEF Registry!Scan, LooksFit
  <2> QED
    BY <2>1, LooksKept DEF LooksFit, Registry!Exists, Registry!NoTask
<1>8. CASE Registry!VerifyInventory
  <2>1. /\ task'.kind = "inventory" /\ task'.disk = folder /\ folder = scan.seen
        /\ scan.stage = "found" /\ UNCHANGED <<known, reg, ws, scan, doubt, repair>>
        /\ task = Registry!NoTask
    <3>1. \A f \in Folders : folder[f] = scan.seen[f]
      BY <1>8 DEF Registry!VerifyInventory, Registry!Complete, Registry!StillThere
    <3>2. folder = scan.seen
      BY <3>1 DEF ScanType
    <3> QED
      BY <1>8, <3>2 DEF Registry!VerifyInventory, Registry!RegistrationsDone
  <2> QED
    BY <2>1, LooksKept DEF LooksFit, Registry!Locked, Registry!Exists, Registry!NoTask
<1>9. CASE Registry!SkipInventory \/ Registry!Stop \/ Registry!Start \/ Registry!Restart
  <2>1. /\ task' = Registry!NoTask /\ scan'.todo = {}
        /\ UNCHANGED <<known, reg, ws, doubt, repair>>
    BY <1>9 DEF Registry!SkipInventory, Registry!RegistrationsDone, Registry!Stop,
       Registry!Start, Registry!Restart, Registry!Remembering, LooksFit,
                ScanType
  <2> QED
    BY <2>1, LooksKept DEF LooksFit, Registry!Locked, Registry!Exists, Registry!NoTask
<1>10. ASSUME NEW f \in Folders, Registry!VerifyMove(f) \/ Registry!VerifyContent(f)
         \/ Registry!VerifyNew(f)
       PROVE  LooksFit'
  <2>1. /\ task'.kind \in {"move", "new"} /\ task = Registry!NoTask /\ scan.todo # {}
        /\ UNCHANGED <<known, reg, ws, scan, doubt, repair>>
    BY <1>10 DEF Registry!VerifyMove, Registry!VerifyContent, Registry!VerifyNew, Registry!AtTurn
  <2> QED
    BY <2>1, LooksKept DEF LooksFit, Registry!Locked, Registry!Exists
<1>11. ASSUME NEW f \in Folders, Registry!SkipMove(f) \/ Registry!SkipNew(f) PROVE LooksFit'
  <2>1. /\ task = Registry!NoTask /\ scan.todo # {} /\ scan'.stage = scan.stage
        /\ UNCHANGED <<known, reg, ws, task, doubt, repair>>
    BY <1>11 DEF Registry!SkipMove, Registry!SkipNew, Registry!Defer, Registry!AtTurn, ScanType
  <2> QED
    BY <2>1, LooksKept DEF LooksFit, Registry!Locked, Registry!Exists, Registry!NoTask
<1>12. ASSUME NEW f \in Folders, Registry!Review(f) PROVE LooksFit'
  <2>1. /\ ~doubt'.held /\ UNCHANGED <<known, reg, ws, scan, task, repair>>
    BY <1>12 DEF Registry!Review
  <2> QED
    BY <2>1, LooksKept DEF LooksFit, Registry!Exists
<1>13. ASSUME NEW f \in Folders, NEW g \in Folders, NEW p \in Paths, NEW keep \in BOOLEAN,
              Registry!MakeFolder(f, p) \/ Registry!MoveFolder(f, p)
                \/ Registry!RemoveFolder(f) \/ Registry!CopyFolder(f, g, p, keep)
       PROVE  LooksFit'
  BY <1>1, <1>13 DEF Registry!MakeFolder, Registry!MoveFolder, Registry!RemoveFolder,
     Registry!CopyFolder, Registry!RestOfRows
<1>14. ASSUME NEW f \in Folders, Registry!RemoveFolder(f) PROVE LooksFit'
  BY <1>1, <1>14 DEF Registry!RemoveFolder, Registry!RestOfRows
<1>15. ASSUME NEW f \in Folders, NEW p \in Paths, Registry!MakeFolder(f, p)
         \/ Registry!MoveFolder(f, p)
       PROVE  LooksFit'
  BY <1>1, <1>15 DEF Registry!MakeFolder, Registry!MoveFolder, Registry!RestOfRows
<1> QED
  BY <1>2, <1>3, <1>4, <1>5, <1>6, <1>7, <1>8, <1>9, <1>10, <1>11, <1>12, <1>13, <1>14, <1>15
     DEF Registry!PeopleStep, Registry!AgentStep

\* A transaction that writes bindings ends with none open: they wait for the lock.
LEMMA BindingsLook ==
  ASSUME RegistryInv, UNCHANGED <<doubt, ws>>, ~doubt.held, task'.kind # "insert",
         \A c \in KnownCases : Registry!Exists(c) => Registry!Exists(c)',
         \A c \in KnownCases : reg'[c] # Nothing => reg[c] # Nothing \/ Registry!Exists(c)',
         repair'.status \in {"planned", "applied"} => repair'.pair \subseteq Registry!Existing,
         scan'.stage # "found" => task' = Registry!NoTask /\ scan'.todo = {},
         task'.kind = "inventory" => task'.disk = scan'.seen
  PROVE  LooksFit'
<1>1. \A c \in KnownCases : reg'[c] # Nothing \/ ws'[c].status # "none" => Registry!Exists(c)'
  BY InvAll DEF LooksFit
<1>2. ~Registry!Locked'
  BY DEF Registry!Locked
<1> QED
  BY <1>1, <1>2, LooksKept DEF Registry!Locked

LEMMA NewCaseExists ==
  ASSUME NEW f \in Folders, NEW p \in Paths \cup {Nothing}, Registry!NewCase(f, p), RegistryInv
  PROVE  /\ \A c \in KnownCases : Registry!Exists(c) => Registry!Exists(c)'
         /\ \A c \in KnownCases : reg'[c] # Nothing => reg[c] # Nothing \/ Registry!Exists(c)'
BY InvAll DEF Registry!NewCase, Registry!Exists, Registry!StatusAt

LEMMA CommitsLook ==
  ASSUME RegistryInv,
         \/ Registry!CommitMove \/ Registry!CommitNew \/ Registry!CommitInventory
         \/ \E f \in Folders : Registry!Bind(f)
         \/ \E c \in KnownCases, g \in Folders : Registry!Recreate(c, g)
  PROVE  LooksFit'
<1> USE InvAll
<1>1. CASE Registry!CommitMove
  <2>1. /\ task' = Registry!NoTask /\ scan'.stage = scan.stage /\ ~Registry!Locked
          /\ task.kind = "move"
        /\ UNCHANGED <<known, ws, doubt, repair>>
    BY <1>1 DEF Registry!CommitMove, ScanType
  <2>2. task.case \in KnownCases
    BY <2>1 DEF TaskType, Registry!NoTask
  <2>3. \A c \in KnownCases : reg'[c] # Nothing => reg[c] # Nothing \/ Registry!Exists(c)
    <3>1. CASE Registry!MoveHolds(task.case, task.folder)
      <4>1. reg[task.case] # Nothing \/ Registry!Exists(task.case)
        <5>1. CASE reg[task.case] = task.folder
          BY <2>1, <5>1, RegistryAssumption DEF TaskType, Registry!NoTask
        <5>2. CASE Registry!KnownByContent(task.case, task.folder)
          BY <2>2, <5>2 DEF Registry!KnownByContent, Registry!Existing
        <5> QED
          BY <3>1, <5>1, <5>2 DEF Registry!MoveHolds
      <4> QED
        BY <1>1, <2>2, <3>1, <4>1 DEF Registry!CommitMove
    <3>2. CASE ~Registry!MoveHolds(task.case, task.folder)
      BY <1>1, <3>2 DEF Registry!CommitMove
    <3> QED
      BY <3>1, <3>2
  <2>4. scan.stage = "found"
    BY <2>1 DEF LooksFit, Registry!NoTask
  <2> QED
    BY <2>1, <2>3, <2>4, BindingsLook DEF LooksFit, Registry!Locked, Registry!NoTask,
       Registry!Exists
<1>2. CASE Registry!CommitNew
  <2>1. /\ task' = Registry!NoTask /\ scan'.stage = scan.stage /\ task.kind = "insert"
        /\ UNCHANGED <<ws, doubt, repair>>
    BY <1>2 DEF Registry!CommitNew, ScanType
  <2>2. /\ \A c \in KnownCases : Registry!Exists(c) => Registry!Exists(c)'
        /\ \A c \in KnownCases : reg'[c] # Nothing => reg[c] # Nothing \/ Registry!Exists(c)'
    <3>1. CASE UNCHANGED <<known, loc, reg>>
      BY <3>1 DEF Registry!Exists
    <3>2. CASE Registry!NewCase(task.folder, scan.seen[task.folder].at)
      <4>1. task.folder \in Folders /\ scan.seen[task.folder].at \in Paths \cup {Nothing}
        BY <2>1 DEF TaskType, Registry!NoTask, ScanType, Registry!FolderType
      <4> QED
        BY <3>2, <4>1, NewCaseExists
    <3> QED
      BY <1>2, <3>1, <3>2 DEF Registry!CommitNew
  <2>3. scan.stage = "found"
    BY <2>1 DEF LooksFit, Registry!NoTask
  <2> QED
    BY <2>1, <2>2, <2>3, BindingsLook DEF LooksFit, Registry!NoTask
<1>3. CASE Registry!CommitInventory
  <2>1. /\ task' = Registry!NoTask /\ scan'.todo = {} /\ ~Registry!Locked
        /\ UNCHANGED <<reg, ws, doubt, repair>>
    BY <1>3 DEF Registry!CommitInventory, Registry!Remembering
  <2>2. \A c \in KnownCases : Registry!Exists(c) => Registry!Exists(c)'
    <3>1. ASSUME NEW c \in KnownCases, Registry!Exists(c)
            PROVE Registry!AfterScan(c).status # "absent"
      BY <3>1 DEF Registry!AfterScan, CaseType, Registry!StatusAt, Registry!Exists
    <3> QED
      BY <1>3, <3>1 DEF Registry!CommitInventory, Registry!Exists
  <2> QED
    BY <2>1, <2>2, BindingsLook DEF LooksFit, Registry!Locked, Registry!NoTask
<1>4. ASSUME NEW f \in Folders, Registry!Bind(f) PROVE LooksFit'
  <2> DEFINE c == scan.seen[f].marker
  <2>1. /\ task = Registry!NoTask /\ scan.todo # {} /\ scan'.stage = scan.stage
          /\ ~Registry!Locked
        /\ reg' = [reg EXCEPT ![c] = f] /\ ws[c].status = "ready" /\ c # Nothing
        /\ UNCHANGED <<known, ws, task, doubt, repair>>
    BY <1>4 DEF Registry!Bind, Registry!BindHolds, Registry!AtTurn, ScanType
  <2>2. c \in KnownCases
    BY <2>1 DEF ScanType, Registry!FolderType
  <2>3. \A d \in KnownCases : reg'[d] # Nothing => reg[d] # Nothing \/ Registry!Exists(d)
    BY <2>1, <2>2 DEF LooksFit
  <2> QED
    BY <2>1, <2>3, BindingsLook DEF LooksFit, Registry!Locked, Registry!NoTask, Registry!Exists
<1>5. ASSUME NEW c \in KnownCases, NEW g \in Folders, Registry!Recreate(c, g) PROVE LooksFit'
  <2>1. /\ Registry!Exists(c) /\ ~Registry!Locked /\ reg' = [reg EXCEPT ![c] = g]
        /\ UNCHANGED <<known, ws, scan, task, doubt, repair>>
    BY <1>5 DEF Registry!Recreate
  <2> QED
    BY <2>1, BindingsLook DEF LooksFit, Registry!Locked, Registry!Exists
<1> QED
  BY <1>1, <1>2, <1>3, <1>4, <1>5

LEMMA OperatorsLook ==
  ASSUME RegistryInv,
         \/ Registry!FreshLook \/ Registry!ReviewLook \/ Registry!ApplyReview
            \/ Registry!DropReview
         \/ \E pair \in {q \in SUBSET Registry!Existing : Registry!Cardinality(q) = 2} :
              \E goal \in [pair -> Folders \cup {Nothing}] : Registry!PlanRepair(pair, goal)
         \/ Registry!ApplyRepair \/ Registry!UndoRepair \/ Registry!DropRepair
  PROVE  LooksFit'
<1> USE InvAll
<1>1. CASE Registry!FreshLook
  <2>1. /\ task.kind = "new" /\ ~Registry!Locked /\ scan'.stage = scan.stage
        /\ UNCHANGED <<known, reg, ws, doubt, repair>>
    BY <1>1 DEF Registry!FreshLook, ScanType
  <2>2. scan.stage = "found"
    BY <2>1 DEF LooksFit, Registry!NoTask
  <2>3. CASE task' = Registry!NoTask
    BY <2>1, <2>2, <2>3, BindingsLook DEF LooksFit, Registry!Locked, Registry!NoTask,
       Registry!Exists
  <2>4. CASE task'.kind = "insert" /\ Registry!Existing = {} /\ task'.others = Registry!Existing
    <3>1. Registry!Existing' = {}
      BY <2>1, <2>4 DEF Registry!Existing, Registry!Exists
    <3> QED
      BY <2>1, <2>2, <2>4, <3>1 DEF LooksFit, Registry!Locked, Registry!Exists
  <2> QED
    BY <1>1, <2>3, <2>4 DEF Registry!FreshLook, Registry!FreshPlan, Registry!Unclaimed
<1>2. CASE Registry!ReviewLook
  <2>1. doubt \in ReviewType /\ Registry!Existing = doubt.others /\ ~Registry!Locked
    BY <1>2 DEF Registry!ReviewLook, Registry!ReviewHolds
  <2>2. doubt'.held /\ doubt'.others = Registry!Existing
        /\ UNCHANGED <<known, reg, ws, scan, task, repair>>
    BY <1>2, <2>1 DEF Registry!ReviewLook, ReviewType
  <2>3. Registry!Existing' = Registry!Looked'
    BY <2>1, <2>2 DEF Registry!Looked, Registry!Locked, Registry!Existing, Registry!Exists
  <2> QED
    BY <2>1, <2>2, <2>3 DEF LooksFit, Registry!Locked, Registry!Existing, Registry!Exists
<1>3. CASE Registry!ApplyReview
  <2>1. /\ task.kind # "insert" /\ doubt' = Registry!NoReview
        /\ UNCHANGED <<ws, scan, task, repair>>
        /\ Registry!NewCase(doubt.folder, doubt.path)
    BY <1>3 DEF Registry!ApplyReview, LooksFit
  <2>2. /\ \A c \in KnownCases : Registry!Exists(c) => Registry!Exists(c)'
        /\ \A c \in KnownCases : reg'[c] # Nothing => reg[c] # Nothing \/ Registry!Exists(c)'
    <3>1. doubt.folder \in Folders /\ doubt.path \in Paths \cup {Nothing}
      BY <1>3 DEF Registry!ApplyReview, ReviewType, Registry!NoReview
    <3> QED
      BY <2>1, <3>1, NewCaseExists
  <2> QED
    BY <2>1, <2>2, LooksKept DEF LooksFit, Registry!Locked, Registry!NoReview
<1>4. CASE Registry!DropReview
  <2>1. doubt' = Registry!NoReview /\ UNCHANGED <<known, reg, ws, scan, task, repair>>
    BY <1>4 DEF Registry!DropReview
  <2> QED
    BY <2>1, LooksKept DEF LooksFit, Registry!NoReview, Registry!Exists
<1>5. ASSUME NEW pair \in SUBSET Registry!Existing, NEW goal,
        Registry!PlanRepair(pair, goal) PROVE LooksFit'
  <2>1. repair'.pair = pair /\ UNCHANGED <<known, reg, ws, scan, task, doubt>>
    BY <1>5 DEF Registry!PlanRepair
  <2> QED
    BY <2>1, LooksKept DEF LooksFit, Registry!Exists
<1>6. CASE Registry!ApplyRepair \/ Registry!UndoRepair
  <2>1. /\ ~Registry!Locked /\ UNCHANGED <<known, ws, scan, task, doubt>>
        /\ repair.status \in {"planned", "applied"}
    BY <1>6 DEF Registry!ApplyRepair, Registry!UndoRepair
  <2>2. \A c \in KnownCases : reg'[c] # Nothing => reg[c] # Nothing \/ c \in repair.pair
    <3>1. reg' = [c \in KnownCases |-> IF c \in repair.pair THEN repair.target[c] ELSE reg[c]]
      BY <1>6 DEF Registry!ApplyRepair, Registry!UndoRepair
    <3> QED
      BY <3>1
  <2>3. repair'.status = "undone" \/ repair'.pair = repair.pair
    <3>1. CASE Registry!UndoRepair
      BY <3>1 DEF Registry!UndoRepair
    <3>2. CASE Registry!ApplyRepair
      BY <2>1, <3>2 DEF Registry!ApplyRepair, RegistryRowsFit, RegistryTyped, PlanTyped
    <3> QED
      BY <1>6, <3>1, <3>2
  <2> QED
    BY <2>1, <2>2, <2>3, BindingsLook DEF LooksFit, Registry!Locked, Registry!Existing,
       Registry!Exists
<1>7. CASE Registry!DropRepair
  <2>1. UNCHANGED <<known, reg, ws, scan, task, doubt>> /\ repair'.status = "none"
    BY <1>7 DEF Registry!DropRepair, Registry!NoRepair
  <2> QED
    BY <2>1, LooksKept DEF LooksFit, Registry!Exists
<1> QED
  BY <1>1, <1>2, <1>3, <1>4, <1>5, <1>6, <1>7

LEMMA RegistryKeeps == ASSUME RegistryInv, [Registry!Next]_(Registry!vars) PROVE RegistryInv'
<1>1. RegistryRowsFit'
  BY RowsKept DEF RegistryInv
<1>2. LooksFit'
  <2>1. CASE UNCHANGED Registry!vars
    <3>1. UNCHANGED Registry!vars
      BY <2>1
    <3> QED
      BY <3>1, LooksKept, InvAll DEF Registry!vars, LooksFit, Registry!Exists
  <2>2. CASE Registry!Next
    BY <2>2, ActsLook, CommitsLook, OperatorsLook DEF Registry!Next, Registry!DiscoveryStep,
       Registry!OperatorStep
  <2> QED
    BY <2>1, <2>2
<1> QED
  BY <1>1, <1>2 DEF RegistryInv

LEMMA RegistryHolds == Registry!Spec => []RegistryInv
BY RegistryBegins, RegistryKeeps, PTL DEF Registry!Spec

LEMMA RegistryInvTypes == RegistryInv => Registry!TypeOK
BY DEF RegistryInv, RegistryRowsFit, RegistryTyped, RegistryRowsTyped, Registry!TypeOK,
   CaseType, LocationType, WorkspaceType, ScanType,
       TaskType, Registry!NoTask

\* What a case is touched by.
LEMMA CaseSteps ==
  ASSUME [Registry!Next]_(Registry!vars)
  PROVE  \/ known' = known \/ Registry!CommitNew \/ Registry!ApplyReview
            \/ Registry!CommitInventory
         \/ \E b \in KnownCases, f \in Folders : Registry!CreateCase(b, f)
         \/ \E b \in KnownCases, p \in Paths : Registry!PlanWorkspace(b, p)
BY DEF Registry!Next, Registry!PeopleStep, Registry!AgentStep, Registry!DiscoveryStep,
   Registry!OperatorStep, Registry!vars, Registry!MakeFolder, Registry!MoveFolder,
       Registry!RemoveFolder, Registry!CopyFolder, Registry!AssignLocation,
          Registry!ReportWorkspace, Registry!MakeWorkspace, Registry!MarkWorkspace,
       Registry!Scan, Registry!CommitMove, Registry!FreshLook, Registry!VerifyInventory,
          Registry!SkipInventory, Registry!VerifyMove, Registry!VerifyContent,
       Registry!SkipMove, Registry!Defer, Registry!Bind, Registry!VerifyNew, Registry!SkipNew,
          Registry!Review, Registry!ReviewLook, Registry!DropReview, Registry!Recreate,
       Registry!PlanRepair, Registry!ApplyRepair, Registry!UndoRepair, Registry!DropRepair,
          Registry!Restart, Registry!Stop, Registry!Start

\* The transaction finds the cases that were asked for, or none where all; what comes
\* before it inserts waits for its lock, or has neither folder nor workspace.
LEMMA NewCaseIsFirst ==
  ASSUME RegistryInv, [Registry!Next]_(Registry!vars), NEW c \in KnownCases, NEW d \in KnownCases,
         ~Registry!Exists(c), known'[c].status # "absent", reg'[c] # Nothing,
         Registry!Exists(d), known[d].claim = known'[c].claim
  PROVE  d \notin Registry!Looked /\ reg[d] = Nothing /\ ws[d].status = "none"
<1> USE InvAll
<1>1. reg[c] = Nothing
  BY DEF LooksFit
<1>2. ASSUME NEW b \in KnownCases, NEW f \in Folders, Registry!CreateCase(b, f) PROVE FALSE
  BY <1>1, <1>2 DEF Registry!CreateCase
<1>3. ASSUME NEW b \in KnownCases, NEW p \in Paths, Registry!PlanWorkspace(b, p) PROVE FALSE
  BY <1>1, <1>3 DEF Registry!PlanWorkspace
<1>4. CASE Registry!CommitNew
  <2>1. task.kind = "insert" /\ Registry!Looked = {}
    BY <1>4 DEF Registry!CommitNew, LooksFit, Registry!Looked
  <2> QED
    BY <2>1 DEF LooksFit, Registry!Locked, Registry!Existing
<1>5. CASE Registry!ApplyReview
  <2>1. /\ task.kind # "insert" /\ doubt.held
        /\ known'[c].claim = folder[doubt.folder].claim
    BY <1>5 DEF Registry!ApplyReview, Registry!NewCase, Registry!Exists, LooksFit
  <2>2. d \notin doubt.others
    BY <2>1 DEF RegistryRowsFit, ReviewFits, Registry!NoReview
  <2>3. Registry!Looked = doubt.others /\ Registry!Locked
    BY <2>1 DEF Registry!Looked, Registry!Locked
  <2> QED
    BY <2>2, <2>3 DEF LooksFit, Registry!Existing
<1>6. ASSUME Registry!CommitInventory PROVE FALSE
  <2>1. reg' = reg
    BY <1>6 DEF Registry!CommitInventory
  <2> QED
    BY <1>1, <2>1
<1> QED
  BY <1>2, <1>3, <1>4, <1>5, <1>6, CaseSteps DEF Registry!Exists

\* Only an inventory hides a case, and only one it has no doubts about; and what the
\* scan saw is what stood there when it was verified.
LEMMA HiddenIsGone ==
  ASSUME RegistryInv, [Registry!Next]_(Registry!vars), NEW c \in KnownCases, ~known[c].archived,
    known'[c].archived,
         NEW f \in Folders, task.disk[f].at # Nothing
  PROVE  Registry!OfAnother(f, c) \/ (task.disk[f].at = loc[c].path /\ reg[c] \notin {Nothing, f})
<1> USE InvAll
<1>1. ASSUME NEW b \in KnownCases, NEW g \in Folders, Registry!CreateCase(b, g) PROVE FALSE
  BY <1>1 DEF Registry!CreateCase, Registry!NoCase
<1>2. ASSUME NEW b \in KnownCases, NEW p \in Paths, Registry!PlanWorkspace(b, p) PROVE FALSE
  BY <1>2 DEF Registry!PlanWorkspace, Registry!NoCase
<1>3. ASSUME Registry!CommitNew \/ Registry!ApplyReview PROVE FALSE
  BY <1>3 DEF Registry!CommitNew, Registry!ApplyReview, Registry!NewCase
<1>4. CASE Registry!CommitInventory
  <2>1. Registry!Reconciled(c) /\ Registry!AfterScan(c).archived
    BY <1>4 DEF Registry!CommitInventory, Registry!AfterScan, CaseType
  <2>2. ~Registry!Present(c) /\ ~Registry!Elsewhere(c)
          /\ \A g \in Registry!SeenAt(loc[c].path) : ~Registry!OfAnother(g, c)
    BY <2>1 DEF Registry!Reconciled, Registry!Doubtful, Registry!AfterScan, CaseType
  <2>3. task.disk = scan.seen
    BY <1>4 DEF Registry!CommitInventory, LooksFit
  <2> QED
    BY <2>2, <2>3 DEF Registry!Present, Registry!Elsewhere, Registry!SeenAt
<1> QED
  BY <1>1, <1>2, <1>3, <1>4, CaseSteps

-----------------------------------------------------------------------------
(* Theorems                                                                *)

\* A photo called ready is in the folder of its case, and no acknowledged piece of it
\* is lost; an answer of the registry is with the one request it belongs to; and a
\* document that counts as ready was approved with the bytes it was told to have
\* (field-photos/store.ts, ingestSbmResult and reconcileFiles of tracking/store.ts).
THEOREM RecordsTrue == OfficeSpec => []RecordsAreTrue
<1>1. PhotosInv /\ TramerInv /\ TrackingInv => RecordsAreTrue
  BY InvKept, InvFindsRequests, InvReady DEF RecordsAreTrue
<1> QED
  BY <1>1, PhotosRuns, PhotosHolds, TramerRuns, TramerHolds, TrackingRuns, TrackingHolds, PTL

MissingKept == \A r \in Rows : traced[r].available /\ ~traced'[r].available => r \in away

\* A document is called missing only if its file was really away at some time since
\* it was last observed (reconcileFiles of tracking/store.ts).
THEOREM MissingAway == OfficeSpec => MissingWasAway
<1>1. TrackingInv /\ [Tracking!Next]_(Tracking!vars) => [MissingKept]_(Tracking!vars)
  BY MissingIsAway DEF MissingKept
<1> QED
  BY <1>1, TrackingRuns, TrackingHolds, PTL
     DEF MissingWasAway, Tracking!MissingWasAway, Tracking!Spec, MissingKept

HiddenFollows ==
  \A c \in KnownCases : ~known[c].archived /\ known'[c].archived =>
    \A f \in Folders :
      task.disk[f].at # Nothing /\ (reg[c] = f \/ task.disk[f].claim = known[c].claim) =>
        \/ Registry!OfAnother(f, c)
        \/ task.disk[f].at = loc[c].path /\ reg[c] \notin {Nothing, f}

NewFollows ==
  \A c, d \in KnownCases :
    /\ ~Registry!Exists(c) /\ known'[c].status # "absent" /\ reg'[c] # Nothing
    /\ Registry!Exists(d) /\ known[d].claim = known'[c].claim
    => d \notin Registry!Looked /\ reg[d] = Nothing /\ ws[d].status = "none"

\* No case is hidden whose folder stood anywhere when the inventory was last verified,
\* unless another has its place; and no registration gives a claim a second case,
\* however rows and folders change between its look and its insertion, but where the
\* first was typed without a workspace just then (office-folder-inventory.ts,
\* folder-registration.ts).
THEOREM CasesFollow == OfficeSpec => CasesFollowFolders
<1>1. RegistryInv /\ [Registry!Next]_(Registry!vars) => [HiddenFollows]_(Registry!vars)
  BY HiddenIsGone DEF HiddenFollows
<1>2. RegistryInv /\ [Registry!Next]_(Registry!vars) => [NewFollows]_(Registry!vars)
  BY NewCaseIsFirst DEF NewFollows
<1> QED
  BY <1>1, <1>2, RegistryRuns, RegistryHolds, PTL
     DEF CasesFollowFolders, Registry!HiddenOnlyIfGone, Registry!NoSecondCase, Registry!Spec,
         HiddenFollows, NewFollows

RepairFollows ==
  repair'.status # repair.status /\ repair'.status \in {"applied", "undone"} =>
    \A c \in repair.pair : repair.rows[c] = Registry!Row(c)

\* Only two steps apply a repair or take it back, and both compare the rows first.
LEMMA StepRepairs == [Registry!Next]_(Registry!vars) => RepairFollows
<1> SUFFICES ASSUME [Registry!Next]_(Registry!vars) PROVE RepairFollows
  OBVIOUS
<1>1. CASE Registry!ApplyRepair \/ Registry!UndoRepair
  BY <1>1 DEF Registry!ApplyRepair, Registry!UndoRepair, Registry!MayUndo,
     Registry!RowsAsRecorded, RepairFollows
<1>2. CASE Registry!DropRepair
  BY <1>2 DEF Registry!DropRepair, Registry!NoRepair, RepairFollows
<1>3. ASSUME NEW pair, NEW goal, Registry!PlanRepair(pair, goal) PROVE RepairFollows
  BY <1>3 DEF Registry!PlanRepair, RepairFollows
<1>4. \/ repair' = repair \/ Registry!ApplyRepair \/ Registry!UndoRepair \/ Registry!DropRepair
      \/ \E pair, goal : Registry!PlanRepair(pair, goal)
  BY DEF Registry!Next, Registry!PeopleStep, Registry!AgentStep, Registry!DiscoveryStep,
     Registry!OperatorStep, Registry!vars, Registry!MakeFolder, Registry!MoveFolder,
     Registry!RemoveFolder, Registry!CopyFolder, Registry!CreateCase, Registry!PlanWorkspace,
     Registry!AssignLocation, Registry!ReportWorkspace, Registry!MakeWorkspace,
     Registry!MarkWorkspace, Registry!Scan, Registry!CommitMove, Registry!CommitNew,
       Registry!FreshLook,
     Registry!ReviewLook, Registry!Stop, Registry!Start,
     Registry!VerifyInventory, Registry!SkipInventory, Registry!CommitInventory,
     Registry!VerifyMove, Registry!VerifyContent, Registry!SkipMove, Registry!Defer,
     Registry!Bind, Registry!VerifyNew, Registry!SkipNew, Registry!Review, Registry!ApplyReview,
     Registry!DropReview, Registry!Recreate, Registry!Restart, Registry!RestOfRows
<1> QED
  BY <1>1, <1>2, <1>3, <1>4 DEF RepairFollows

\* What people decide is decided on what their screens, or the plan, still show truly:
\* versions approved, reviews promoted, drafts begun and sent, bindings repaired
\* (policy-analysis/store.ts, review-store.ts, email-drafts/store.ts,
\* folder-identity-repair.ts).
THEOREM DecisionsAsShown == OfficeSpec => DecidedAsShown
<1>1. AnalysisInv /\ [Analysis!Next]_(Analysis!vars) => [ShownThen]_(Analysis!vars)
  BY StepDecides
<1>2. MailInv /\ [Mail!Next]_(Mail!vars) => [StepSends]_(Mail!vars)
  BY StepSendsAsSeen
<1>3. [Registry!Next]_(Registry!vars) => [RepairFollows]_(Registry!vars)
  BY StepRepairs
<1>4. OfficeSpec => Analysis!DecidedAsShown
  BY <1>1, AnalysisRuns, AnalysisHolds, PTL DEF Analysis!DecidedAsShown, Analysis!Spec, ShownThen
<1>5. OfficeSpec => Mail!SentAsSeen
  BY <1>2, MailRuns, MailHolds, PTL DEF Mail!SentAsSeen, Mail!Spec, StepSends
<1>6. OfficeSpec => Registry!RepairedAsReviewed
  BY <1>3, RegistryRuns, PTL DEF Registry!RepairedAsReviewed, Registry!Spec, RepairFollows
<1> QED
  BY <1>4, <1>5, <1>6 DEF DecidedAsShown

\* What the office does, the reading of documents does, or nothing.
LEMMA TextRuns == OfficeSpec => Spec
<1>1. OfficeInit => Init
  BY DEF OfficeInit
<1>2. [OfficeNext]_officeVars => [Next]_vars
  BY DEF OfficeNext, officeVars, Only, TextStep, AnalysisStep, AiStep,
         AccountsStep, FeesStep, MailStep, LossStep, RegistryStep, PhotosStep, TramerStep,
         TrackingStep
<1> QED
  BY <1>1, <1>2, PTL DEF OfficeSpec, Spec

\* The rows of every part keep their types, and the bounds on what is counted in them.
THEOREM OfficeTyped == OfficeSpec => []OfficeTypeOK
<1>1. TramerInv => Tramer!TypeOK
  BY DEF TramerInv
<1>2. /\ TypeOK /\ PeopleInv /\ AnalysisInv /\ MailInv /\ AiInv /\ FeesInv /\ LossInv
      /\ PhotosInv /\ TramerInv /\ TrackingInv /\ RegistryInv
      => OfficeTypeOK
  BY <1>1, AccountTypes, AnalysisInvTypes, MailInvTypes, AiInvTypes, FeesInvTypes, LossInvTypes,
     PhotosInvTypes, TrackingInvTypes, RegistryInvTypes DEF OfficeTypeOK
<1>3. OfficeSpec => []AiInv
  BY AiRuns, AiHolds, PTL
<1> QED
  BY <1>2, <1>3, TextRuns, TypeCorrect, PeopleRuns, PeopleHolds, AnalysisRuns, AnalysisHolds,
     MailRuns, MailHolds, FeesRuns, FeesHolds, LossRuns, LossHolds, PhotosRuns, PhotosHolds,
     TramerRuns, TramerHolds, TrackingRuns, TrackingHolds, RegistryRuns, RegistryHolds, PTL
=============================================================================
