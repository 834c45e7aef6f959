---------------------------- MODULE DocumentTracking ----------------------------
(***************************************************************************)
(* A file in the folder of a case as the office knows it: the scans of     *)
(* File Agents (services/file-agent/src/document-tracker.ts), the rows     *)
(* they report to and the review by the person who is responsible          *)
(* (observeFile, reviewDocument and reconcileFiles of                      *)
(* services/api/src/tracking/store.ts), and the moves of the folder, which *)
(* rows follow (services/api/src/storage/file-location.ts).                *)
(*                                                                         *)
(* One name in the folder stands for all: files do not meet.  Instants are *)
(* told apart by what happened since: `fresh' are the rows observed since  *)
(* a scan began, `seen' the moves recorded before a row was observed.      *)
(***************************************************************************)
EXTENDS Naturals, Sequences, SequencesExt

CONSTANTS
  Agents, Rows, Hashes, Places,
  Nothing,                      \* no file, no row
  MaxMoves, MaxEdits, MaxRev    \* bounds

VARIABLES
  disk,      \* what the file holds, or Nothing
  place,     \* where the folder stands
  loc,       \* [place, ver], case_locations
  moves,     \* case_location_history: a sequence of [from, to, system]
  row,       \* [Rows -> tracked_files with its current observation], at place Nothing if absent
  scan,      \* [Agents -> their scan]
  told,      \* what the last accepted report said
  away,      \* rows whose file has not always been where they say since it was observed
  edits      \* counts the changes of the file

vars == <<disk, place, loc, moves, row, scan, told, away, edits>>

NoScan == [pc |-> "idle", place |-> Nothing, ver |-> 0, listed |-> FALSE, hash |-> Nothing, fresh |-> {}]
NoRow == [place |-> Nothing, hash |-> Nothing, rev |-> 0, available |-> FALSE,
          status |-> "pending", approved |-> Nothing, seen |-> 0]

Init ==
  /\ disk \in Hashes \cup {Nothing} /\ place \in Places
  /\ loc = [place |-> place, ver |-> 1] /\ moves = <<>>
  /\ row = [r \in Rows |-> NoRow]
  /\ scan = [a \in Agents |-> NoScan]
  /\ told = Nothing /\ away = {} /\ edits = 0

Tracked == {r \in Rows : row[r].place # Nothing}

\* resolveFileLocations: where a row's file is after the moves since it was observed.
Follow(p, move) == IF move.system /\ p = move.from THEN move.to ELSE p
Resolved(r) == FoldLeft(Follow, row[r].place, SubSeq(moves, row[r].seen + 1, Len(moves)))

\* Where the file of a row is expected, it is.
FileThere(r) == disk # Nothing /\ place = Resolved(r)
Missed == {r \in Tracked : ~FileThere(r)}

\* The history of away: a new observation begins it anew.
Observed == {r \in Rows : row'[r].rev # row[r].rev}
Away == away' = (away \ Observed) \cup Missed'

------------------------------------------------------------------------------
\* Around the scans.

\* The file is made, changed or taken away.
Edit ==
  /\ edits < MaxEdits /\ edits' = edits + 1
  /\ disk' \in (Hashes \cup {Nothing}) \ {disk}
  /\ UNCHANGED <<place, loc, moves, row, scan, told>>

MoveFolder ==
  /\ place = loc.place /\ Len(moves) < MaxMoves
  /\ place' \in Places \ {place}
  /\ UNCHANGED <<disk, loc, moves, row, scan, told, edits>>

\* The location follows the folder: recorded by the system, or assigned by hand.
PublishMove ==
  /\ place # loc.place
  /\ loc' = [place |-> place, ver |-> loc.ver + 1]
  /\ \E system \in BOOLEAN :
       moves' = Append(moves, [from |-> loc.place, to |-> place, system |-> system])
  /\ UNCHANGED <<disk, place, row, scan, told, edits>>

------------------------------------------------------------------------------
\* The scan of an agent.

StartScan(a) ==
  /\ scan[a].pc = "idle"
  /\ scan' = [scan EXCEPT ![a] = [NoScan EXCEPT !.pc = "walk", !.place = loc.place, !.ver = loc.ver]]
  /\ UNCHANGED <<disk, place, loc, moves, row, told, edits>>

\* The file is listed, and read if it has been still long enough and was not
\* reported lately.
Walk(a) ==
  /\ scan[a].pc = "walk" /\ place = scan[a].place
  /\ \/ /\ disk # Nothing
        /\ scan' = [scan EXCEPT ![a] = [@ EXCEPT !.pc = "report", !.listed = TRUE, !.hash = disk]]
     \/ scan' = [scan EXCEPT ![a] = [@ EXCEPT !.pc = "reconcile", !.listed = disk # Nothing]]
  /\ UNCHANGED <<disk, place, loc, moves, row, told, edits>>

\* Something fails, the server's refusal included: the scan ends without reconciling.
EndScan(a) ==
  /\ scan[a].pc # "idle"
  /\ scan' = [scan EXCEPT ![a] = NoScan]
  /\ UNCHANGED <<disk, place, loc, moves, row, told, edits>>

------------------------------------------------------------------------------
\* observeFile.

AsKnown(a) == loc.ver = scan[a].ver

\* The rows that the report of hash h may be about: of this path, else of the
\* same bytes at a path that leads here, else at the place left last.
Here(a) == {r \in Tracked : row[r].place = scan[a].place}
SameBytes(a) == {r \in Tracked : row[r].hash = scan[a].hash}
LeadingHere(a) == {r \in SameBytes(a) : Resolved(r) = scan[a].place}
LeftLast(a) ==
  LET last == SelectLastInSeq(moves, LAMBDA m : m.to = loc.place)
  IN {r \in SameBytes(a) : last # 0 /\ row[r].place = moves[last].from}
About(a) ==
  IF Here(a) # {} THEN Here(a)
  ELSE IF LeadingHere(a) # {} THEN LeadingHere(a) ELSE LeftLast(a)

\* A row is seen with new bytes, or again.
Renewed(r, a) ==
  [place |-> scan[a].place, hash |-> scan[a].hash, rev |-> row[r].rev + 1, available |-> TRUE,
   status |-> "pending", approved |-> Nothing, seen |-> Len(moves)]

\* The same bytes of a row that is available, or has moved: nothing new.
Unchanged(r, a) ==
  row[r].hash = scan[a].hash /\ (row[r].available \/ row[r].place # scan[a].place)

Observe(r, a) ==
  /\ scan[a].pc = "report" /\ AsKnown(a)
  /\ About(a) = {r} \/ (About(a) = {} /\ r \notin Tracked)
  /\ IF r \in Tracked /\ Unchanged(r, a)
     THEN /\ row' = [row EXCEPT ![r] = [@ EXCEPT !.place = scan[a].place, !.available = TRUE]]
          /\ scan' = [scan EXCEPT ![a].pc = "reconcile"]
     ELSE /\ row[r].rev < MaxRev
          /\ row' = [row EXCEPT ![r] = Renewed(r, a)]
          /\ scan' = [b \in Agents |->
               IF b = a THEN [scan[b] EXCEPT !.pc = "reconcile", !.fresh = @ \cup {r}]
               ELSE IF scan[b].pc = "idle" THEN scan[b]
               ELSE [scan[b] EXCEPT !.fresh = @ \cup {r}]]
  /\ told' = scan[a].hash
  /\ UNCHANGED <<disk, place, loc, moves, edits>>

\* A mutant: rows observed since the scan began are judged by it too.
OldAndNew(a) == {r \in Tracked : row[r].available}

Unobserved(a) == {r \in Tracked : row[r].available} \ scan[a].fresh

\* reconcileFiles: what the scan has not listed is no longer available.
Reconcile(a) ==
  /\ scan[a].pc = "reconcile" /\ AsKnown(a)
  /\ row' = [r \in Rows |->
       IF r \in Unobserved(a) /\ (Resolved(r) # loc.place \/ ~scan[a].listed)
       THEN [row[r] EXCEPT !.available = FALSE] ELSE row[r]]
  /\ scan' = [scan EXCEPT ![a] = NoScan]
  /\ UNCHANGED <<disk, place, loc, moves, told, edits>>

------------------------------------------------------------------------------
\* reviewDocument: the current observation of a file that is where its case is.
Review(r) ==
  /\ r \in Tracked /\ row[r].available /\ row[r].status = "pending" /\ Resolved(r) = loc.place
  /\ \/ row' = [row EXCEPT ![r] = [@ EXCEPT !.status = "approved", !.approved = row[r].hash]]
     \/ row' = [row EXCEPT ![r].status = "rejected"]
  /\ UNCHANGED <<disk, place, loc, moves, scan, told, edits>>

\* A mutant: the view does not ask where the case is.
ReadyAnywhere(r) == row[r].available /\ row[r].status = "approved"

\* What the closing requirements see of a row (the view of 0050_tracking.js).
CountsAsReady(r) ==
  row[r].available /\ row[r].status = "approved" /\ row[r].place = loc.place

Next ==
  /\ \/ Edit \/ MoveFolder \/ PublishMove
     \/ \E a \in Agents :
          \/ StartScan(a) \/ Walk(a) \/ EndScan(a) \/ Reconcile(a)
          \/ \E r \in Rows : Observe(r, a)
     \/ \E r \in Rows : Review(r)
  /\ Away

Spec == Init /\ [][Next]_vars

------------------------------------------------------------------------------
\* The types of folder, rows and scans.
TypeOK ==
  LET Held == Hashes \cup {Nothing}
  IN /\ disk \in Held /\ told \in Held /\ place \in Places /\ edits \in 0..MaxEdits
     /\ loc \in [place : Places, ver : 1..(MaxMoves + 1)]
     /\ moves \in Seq([from : Places, to : Places, system : BOOLEAN]) /\ Len(moves) <= MaxMoves
     /\ away \subseteq Rows
     /\ row \in [Rows -> [place : Places \cup {Nothing}, hash : Held, rev : 0..MaxRev,
          available : BOOLEAN, status : {"pending", "approved", "rejected"}, approved : Held,
          seen : 0..MaxMoves]]
     /\ scan \in [Agents -> [pc : {"idle", "walk", "report", "reconcile"},
          place : Places \cup {Nothing}, ver : 0..(MaxMoves + 1), listed : BOOLEAN,
          hash : Held, fresh : SUBSET Rows]]

\* A file is called missing only if it has really been away since it was last
\* observed, whatever another agent sees meanwhile (reconcileFiles).
MissingWasAway ==
  [][\A r \in Rows : row[r].available /\ ~row'[r].available => r \in away]_vars

\* What counts as ready for the closing of the case has been approved with
\* these bytes, and no later report said otherwise, unless the folder came
\* back to a place it had left (observeFile, reviewDocument).
ReadyWasApproved ==
  Len(moves) <= 1 => \A r \in Rows : CountsAsReady(r) => row[r].approved = row[r].hash /\ row[r].hash = told
=============================================================================
