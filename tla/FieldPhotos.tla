------------------------------ MODULE FieldPhotos ------------------------------
(***************************************************************************)
(* The photos of one case on their way from a telephone into its folder:   *)
(* the upload in pieces and its row (services/api/src/field-photos/        *)
(* store.ts), and the runs of File Agents that convert a photo, give it a  *)
(* name and put it among the files of the case                             *)
(* (services/file-agent/src/field-photo-worker.ts).                        *)
(*                                                                         *)
(* A transaction is one step, and so is one call of the file system.  A    *)
(* lease token is one per claim, and a run that has ended sends nothing:   *)
(* the run that holds the lease stands for it.  Every kind of photo is     *)
(* named like the damage photos, by the number after the highest one.      *)
(***************************************************************************)
EXTENDS Naturals, Sequences, FiniteSetsExt

CONSTANTS
  Uploads, Agents,
  Image,        \* [Uploads -> their JPEGs]
  Places,       \* where the folder of the case may stand
  Nobody,       \* no agent, no upload; no file under a name
  Pieces,       \* pieces of an original
  MaxName, MaxAttempts, MaxMoves, MaxForeign   \* bounds; MaxAttempts is 10 in the code

VARIABLES
  upload,  \* [Uploads -> field_photo_uploads]
  spool,   \* [Uploads -> what is on the server's disk of the original]
  files,   \* [Names -> Image, "other" or Nobody], the folder's content
  place,   \* where the folder stands
  loc,     \* [place, ver], case_locations
  busy,    \* an operation on the case's folder is active
  agent,   \* [Agents -> their run]
  moves    \* counts the moves of the folder

vars == <<upload, spool, files, place, loc, busy, agent, moves>>

Names == 1..MaxName
NoRun == [pc |-> "idle", upload |-> Nobody, asked |-> 0, name |-> 0,
          place |-> CHOOSE p \in Places : TRUE, reserved |-> {}]
Rejected == {"failed", "cancelled", "unsupported"}   \* status failed, by its last_error_code

GivenUp == {u \in Uploads : upload[u].status = "unsupported"}

\* One upload may have been given up earlier; its name stays reserved.
Init ==
  /\ place \in Places
  /\ loc = [place |-> place, ver |-> 1]
  /\ \E over \in SUBSET Uploads :
       upload = [u \in Uploads |->
         [status |-> IF u \in over THEN "unsupported" ELSE "absent",
          received |-> IF u \in over THEN Pieces ELSE 0, out |-> IF u \in over THEN 1 ELSE 0,
          place |-> place, ver |-> 1, holder |-> Nobody, live |-> FALSE, tries |-> 0]]
  /\ Cardinality(GivenUp) <= 1
  /\ spool = [u \in Uploads |-> [i \in 1..upload[u].received |-> "piece"]]
  /\ files = [n \in Names |-> Nobody]
  /\ busy = FALSE /\ moves = 0
  /\ agent = [a \in Agents |-> NoRun]

------------------------------------------------------------------------------
\* Commands of the person with the telephone.

\* init; a cancelled upload is taken up where it was.
StartUpload(u) ==
  /\ ~busy
  /\ \/ /\ upload[u].status = "absent"
        /\ upload' = [upload EXCEPT ![u] = [@ EXCEPT
             !.status = "receiving", !.place = loc.place, !.ver = loc.ver]]
     \/ /\ upload[u].status = "cancelled"
        /\ upload' = [upload EXCEPT ![u].status = "receiving"]
  /\ UNCHANGED <<spool, files, place, loc, busy, agent, moves>>

Committed(u) == SubSeq(spool[u], 1, upload[u].received)

\* chunk: the file is cut to what is committed and gets the next piece.
Chunk(u) ==
  /\ upload[u].status = "receiving" /\ upload[u].received < Pieces
  /\ spool' = [spool EXCEPT ![u] = Append(Committed(u), "piece")]
  /\ upload' = [upload EXCEPT ![u].received = @ + 1]
  /\ UNCHANGED <<files, place, loc, busy, agent, moves>>

\* The server dies before the commit, with any part of the piece on disk.
ChunkDies(u) ==
  /\ upload[u].status = "receiving" /\ upload[u].received < Pieces
  /\ \E rest \in {<<>>, <<"torn">>, <<"piece">>} : spool' = [spool EXCEPT ![u] = Committed(u) \o rest]
  /\ UNCHANGED <<upload, files, place, loc, busy, agent, moves>>

Whole(s) == s = [i \in 1..Pieces |-> "piece"]

Finish(u) ==
  /\ upload[u].status = "receiving" /\ upload[u].received = Pieces /\ Whole(spool[u])
  /\ upload' = [upload EXCEPT ![u].status = "queued"]
  /\ UNCHANGED <<spool, files, place, loc, busy, agent, moves>>

Cancel(u) ==
  /\ upload[u].status = "receiving"
  /\ upload' = [upload EXCEPT ![u].status = "cancelled"]
  /\ UNCHANGED <<spool, files, place, loc, busy, agent, moves>>

\* The retry goes to where the case is now; a name given earlier is kept.
Retry(u) ==
  /\ upload[u].status = "failed" /\ ~busy
  /\ upload' = [upload EXCEPT ![u] = [@ EXCEPT
       !.status = "queued", !.tries = 0, !.place = loc.place, !.ver = loc.ver]]
  /\ UNCHANGED <<spool, files, place, loc, busy, agent, moves>>

------------------------------------------------------------------------------
\* The run of an agent.

InHand(u) == upload[u].status = "processing" /\ upload[u].live
Unmoved(u) == upload[u].place = loc.place /\ upload[u].ver = loc.ver
Claimable(u) ==
  /\ upload[u].status = "queued" \/ (upload[u].status = "processing" /\ ~upload[u].live)
  /\ \A v \in Uploads : ~InHand(v)

Tried(u) == IF upload[u].tries < MaxAttempts THEN upload[u].tries + 1 ELSE MaxAttempts

\* claim: an upload that has a name already must find its case unmoved.
Claim(a, u) ==
  /\ agent[a].pc = "idle" /\ Claimable(u)
  /\ IF busy \/ (upload[u].out # 0 /\ ~Unmoved(u))
     THEN upload' = [upload EXCEPT ![u].status = "failed"] /\ UNCHANGED agent
     ELSE /\ upload' = [upload EXCEPT ![u] = [@ EXCEPT
               !.status = "processing", !.holder = a, !.live = TRUE,
               !.tries = Tried(u),
               !.place = loc.place, !.ver = loc.ver]]
          /\ agent' = [agent EXCEPT ![a] = [NoRun EXCEPT
               !.pc = "claimed", !.upload = u, !.asked = upload[u].out, !.place = loc.place]]
  /\ UNCHANGED <<spool, files, place, loc, busy, moves>>

Leased(a) ==
  LET u == agent[a].upload
  IN InHand(u) /\ upload[u].holder = a /\ ~busy /\ Unmoved(u)

\* A run goes on to its next call, or gives up and will report why.
Goes(a, pc) == agent' = [agent EXCEPT ![a].pc = pc]
Stops(a, why) == agent' = [agent EXCEPT ![a] = [NoRun EXCEPT !.pc = why, !.upload = agent[a].upload]]
FolderHere(a) == place = agent[a].place
Taken(a) == {n \in Names : files[n] # Nobody} \cup agent[a].reserved
NextName(taken) == Max(taken \cup {0}) + 1

\* Goes on with the name after the highest one taken.
Named(a, taken, reserved) ==
  /\ NextName(taken) \in Names
  /\ agent' = [agent EXCEPT ![a] = [@ EXCEPT
       !.pc = "named", !.name = NextName(taken), !.reserved = reserved]]

\* The original is fetched under the lease and converted, the folder listed.
Convert(a) ==
  /\ agent[a].pc = "claimed"
  /\ \/ ~FolderHere(a) /\ Stops(a, "again")
     \/ ~Leased(a) /\ Stops(a, "moved")
     \/ /\ FolderHere(a) /\ Leased(a)
        /\ \/ Stops(a, "unsupported")
           \/ agent[a].asked # 0
              /\ agent' = [agent EXCEPT ![a] = [@ EXCEPT !.pc = "named", !.name = agent[a].asked]]
           \/ agent[a].asked = 0 /\ Named(a, Taken(a), {})
  /\ UNCHANGED <<upload, spool, files, place, loc, busy, moves>>

\* Another upload has the name, whatever has become of it.
Collides(a) ==
  LET u == agent[a].upload
  IN \E v \in Uploads \ {u} : upload[v].out = agent[a].name /\ upload[v].place = upload[u].place

\* prepare: the name is reserved; its answer may be lost.
Prepare(a) ==
  /\ agent[a].pc = "named"
  /\ \/ ~Leased(a) /\ Stops(a, "moved") /\ UNCHANGED upload
     \/ /\ Leased(a) /\ Collides(a) /\ UNCHANGED upload
        /\ IF FolderHere(a)
           THEN Named(a, Taken(a) \cup {agent[a].name}, agent[a].reserved \cup {agent[a].name})
           ELSE Stops(a, "again")
     \/ /\ Leased(a) /\ ~Collides(a)
        /\ upload' = [upload EXCEPT ![agent[a].upload].out = agent[a].name]
        /\ Goes(a, "prepared") \/ Stops(a, "again")
  /\ UNCHANGED <<spool, files, place, loc, busy, moves>>

\* A mutant: a file under a name of its own is taken for its own.
OwnName(a) == agent[a].asked = agent[a].name /\ files[agent[a].name] # Nobody

\* A file under the name is this upload's if an earlier run had the name and
\* the bytes are the same.
OwnFile(a) ==
  agent[a].asked = agent[a].name /\ files[agent[a].name] = Image[agent[a].upload]

\* The file is put in place without replacing one.
Publish(a) ==
  /\ agent[a].pc = "prepared"
  /\ \/ Stops(a, "again") /\ UNCHANGED files
     \/ /\ FolderHere(a) /\ files[agent[a].name] = Nobody
        /\ files' = [files EXCEPT ![agent[a].name] = Image[agent[a].upload]]
        /\ Goes(a, "published")
     \/ FolderHere(a) /\ OwnFile(a) /\ Goes(a, "published") /\ UNCHANGED files
     \/ /\ FolderHere(a) /\ files[agent[a].name] # Nobody /\ ~OwnFile(a)
        /\ Named(a, Taken(a) \cup {agent[a].name}, agent[a].reserved) /\ UNCHANGED files
  /\ UNCHANGED <<upload, spool, place, loc, busy, moves>>

\* jpeg and complete; the answer may be lost.
Complete(a) ==
  /\ agent[a].pc = "published"
  /\ \/ ~Leased(a) /\ Stops(a, "moved") /\ UNCHANGED upload
     \/ /\ Leased(a)
        /\ upload' = [upload EXCEPT ![agent[a].upload] = [@ EXCEPT !.status = "ready", !.live = FALSE]]
        /\ agent' = [agent EXCEPT ![a] = NoRun] \/ Stops(a, "again")
  /\ UNCHANGED <<spool, files, place, loc, busy, moves>>

\* reportFailure does not ask whether the lease has run out.
Report(a) ==
  /\ agent[a].pc \in {"again", "moved", "unsupported"}
  /\ LET u == agent[a].upload
         to == IF agent[a].pc = "again" /\ upload[u].tries < MaxAttempts THEN "queued"
               ELSE IF agent[a].pc = "unsupported" THEN "unsupported" ELSE "failed"
     IN IF upload[u].status = "processing" /\ upload[u].holder = a
        THEN upload' = [upload EXCEPT ![u] = [@ EXCEPT !.status = to, !.live = FALSE]]
        ELSE UNCHANGED upload
  /\ agent' = [agent EXCEPT ![a] = NoRun]
  /\ UNCHANGED <<spool, files, place, loc, busy, moves>>

\* The agent dies, or the answer of a claim or a report is lost.
Dies(a) ==
  /\ agent[a].pc # "idle"
  /\ agent' = [agent EXCEPT ![a] = NoRun]
  /\ UNCHANGED <<upload, spool, files, place, loc, busy, moves>>

LeaseExpires(u) ==
  /\ InHand(u)
  /\ upload' = [upload EXCEPT ![u].live = FALSE]
  /\ UNCHANGED <<spool, files, place, loc, busy, agent, moves>>

------------------------------------------------------------------------------
\* Around them.

\* Operations on the folder are not started while a photo is in hand.
StartOperation ==
  /\ ~busy /\ \A u \in Uploads : ~InHand(u)
  /\ busy' = TRUE
  /\ UNCHANGED <<upload, spool, files, place, loc, agent, moves>>

EndOperation ==
  /\ busy /\ busy' = FALSE
  /\ UNCHANGED <<upload, spool, files, place, loc, agent, moves>>

\* Somebody moves the folder, and the scan of the folders follows it.
MoveFolder ==
  /\ moves < MaxMoves /\ moves' = moves + 1
  /\ place' \in Places \ {place}
  /\ UNCHANGED <<upload, spool, files, loc, busy, agent>>

FollowFolder ==
  /\ loc.place # place
  /\ loc' = [place |-> place, ver |-> loc.ver + 1]
  /\ UNCHANGED <<upload, spool, files, place, busy, agent, moves>>

\* People save files of their own; they take none away.
SaveFile ==
  /\ Cardinality({n \in Names : files[n] = "other"}) < MaxForeign
  /\ \E n \in Names : files[n] = Nobody /\ files' = [files EXCEPT ![n] = "other"]
  /\ UNCHANGED <<upload, spool, place, loc, busy, agent, moves>>

Next ==
  \/ \E u \in Uploads :
       \/ StartUpload(u) \/ Chunk(u) \/ ChunkDies(u) \/ Finish(u) \/ Cancel(u) \/ Retry(u)
       \/ LeaseExpires(u)
       \/ \E a \in Agents : Claim(a, u)
  \/ \E a \in Agents :
       Convert(a) \/ Prepare(a) \/ Publish(a) \/ Complete(a) \/ Report(a) \/ Dies(a)
  \/ StartOperation \/ EndOperation \/ MoveFolder \/ FollowFolder \/ SaveFile

Spec == Init /\ [][Next]_vars

------------------------------------------------------------------------------
\* The types of rows, runs and files.
TypeOK ==
  /\ upload \in [Uploads -> [
       status : {"absent", "receiving", "queued", "processing", "ready"} \cup Rejected,
       received : 0..Pieces, out : 0..MaxName, place : Places, ver : 1..(MaxMoves + 1),
       holder : Agents \cup {Nobody}, live : BOOLEAN, tries : 0..MaxAttempts]]
  /\ \A u \in Uploads : spool[u] \in Seq({"piece", "torn"}) /\ Len(spool[u]) <= Pieces
  /\ files \in [Names -> {Image[u] : u \in Uploads} \cup {"other", Nobody}]
  /\ place \in Places /\ loc \in [place : Places, ver : 1..(MaxMoves + 1)]
  /\ busy \in BOOLEAN /\ moves \in 0..MaxMoves
  /\ agent \in [Agents -> [
       pc : {"idle", "claimed", "named", "prepared", "published", "again", "moved", "unsupported"},
       upload : Uploads \cup {Nobody}, asked : 0..MaxName, name : 0..MaxName,
       place : Places, reserved : SUBSET Names]]

\* No other photo that has a name was taken up again after the folder had moved.
OthersStayed(u) == \A v \in Uploads \ {u} : upload[v].out # 0 => upload[v].ver = 1

\* What the server calls ready is in the folder under the name it shows, and what
\* it has acknowledged of an original it still has, whatever died on the way; and
\* no photo is there twice, unless the folder came back to a place it had left or
\* another photo kept its name when it was retried at the new place
\* (chunk, finish, retry, prepare and complete of store.ts, runFieldPhotoOnce).
PhotosAreKept ==
  \A u \in Uploads :
    /\ moves <= 1 /\ OthersStayed(u) => Cardinality({n \in Names : files[n] = Image[u]}) <= 1
    /\ upload[u].status = "ready" => files[upload[u].out] = Image[u]
    /\ Len(spool[u]) >= upload[u].received
    /\ \A i \in 1..upload[u].received : spool[u][i] = "piece"

=============================================================================
