------------------------------ MODULE FolderTree ------------------------------
(***************************************************************************)
(* The folder tree of one owner and the documents in it:                   *)
(*   backend/src/folders/folders.service.ts     (create, update, delete),  *)
(*   backend/src/documents/documents.service.ts (update, delete),          *)
(*   backend/src/documents/document-upload.service.ts (initDocument).      *)
(*                                                                         *)
(* Every request reads what it needs in separate statements and then       *)
(* writes one row by its id.  No row is locked between the reads and the   *)
(* write, inside a READ COMMITTED transaction as much as outside, so other *)
(* requests run between any two of them.                                   *)
(*                                                                         *)
(* Left out: names (a name conflict ends a request, as RequestBreaksOff    *)
(* does), renaming, and the audit rows, which nothing reads.               *)
(***************************************************************************)
EXTENDS FiniteSets

CONSTANTS
  Folders, Documents,   \* ids; finite sets bound what a behaviour creates
  Root,                 \* parent_id and folder_id NULL
  Requests,             \* requests in flight at once
  SerialMoves           \* at most one folder is being moved at a time

ASSUME IdsAssumption == Folders \cap Documents = {} /\ Root \notin Folders \cup Documents
ASSUME SerialAssumption == SerialMoves \in BOOLEAN

Items  == Folders \cup Documents
Places == Folders \cup {Root}

VARIABLES
  status,   \* "absent", "active" or "deleted" (deleted_at set)
  parent,   \* folders.parent_id, documents.folder_id
  request   \* the local state of each request

folderVars == <<status, parent, request>>

\* op on item, into the place to; cursor and visited belong to assertNoCycle.
RequestStates ==
  [op : {"none", "create", "move", "delete"},
   at : {"idle", "target", "walk", "countFolders", "countDocuments", "write"},
   item : Items \cup {Root}, to : Places, cursor : Places, visited : SUBSET Folders]

NoRequest == [op |-> "none", at |-> "idle", item |-> Root, to |-> Root,
              cursor |-> Root, visited |-> {}]

FolderInit ==
  /\ status = [i \in Items |-> "absent"]
  /\ parent = [i \in Items |-> Root]
  /\ request = [r \in Requests |-> NoRequest]

-----------------------------------------------------------------------------

RequestAt(r, step) == request[r].at = step
Item(r) == request[r].item
Active(i) == status[i] = "active"
Inside(f) == {i \in Items : Active(i) /\ parent[i] = f}
RequestEnds(r) == request' = [request EXCEPT ![r] = NoRequest]
Goes(r, step) == request' = [request EXCEPT ![r].at = step]
Reads == UNCHANGED <<status, parent>>

MovesFolder(r) == request[r].op = "move" /\ Item(r) \in Folders

BeginRequest(r, op, i, to, step) ==
  /\ RequestAt(r, "idle")
  /\ request' = [request EXCEPT ![r].op = op, ![r].at = step, ![r].item = i, ![r].to = to]
  /\ Reads

FirstStep(to) == IF to = Root THEN "write" ELSE "target"

\* FoldersService.create and initDocument: the id is a fresh UUID.
BeginCreate(r, i, to) ==
  /\ status[i] = "absent"
  /\ \A q \in Requests : request[q].op = "create" => Item(q) # i
  /\ BeginRequest(r, "create", i, to, FirstStep(to))

\* FoldersService.update and DocumentsService.update, as far as they move.
BeginMove(r, i, to) ==
  /\ Active(i) /\ to # i
  /\ (SerialMoves /\ i \in Folders) => \A q \in Requests : ~MovesFolder(q)
  /\ BeginRequest(r, "move", i, to, FirstStep(to))

\* FoldersService.delete and DocumentsService.delete.
BeginDelete(r, i) ==
  /\ Active(i)
  /\ BeginRequest(r, "delete", i, Root, IF i \in Folders THEN "countFolders" ELSE "write")

\* getOwnedActive of the parent, assertOwnedFolder.
CheckTarget(r) ==
  LET to == request[r].to IN
  /\ RequestAt(r, "target")
  /\ IF ~Active(to) THEN RequestEnds(r)
     ELSE IF MovesFolder(r)
     THEN request' = [request EXCEPT ![r].at = "walk", ![r].cursor = to]
     ELSE Goes(r, "write")
  /\ Reads

\* Mutant: assertNoCycle looks at the parent only.
WalkOneLevel(r) ==
  /\ RequestAt(r, "walk")
  /\ IF request[r].cursor = Item(r) THEN RequestEnds(r) ELSE Goes(r, "write")
  /\ Reads

\* One iteration of assertNoCycle: one ancestor is read.
Walk(r) ==
  LET f == request[r].cursor IN
  /\ RequestAt(r, "walk")
  /\ IF f = Item(r) \/ f \in request[r].visited \/ ~Active(f) THEN RequestEnds(r)
     ELSE request' = [request EXCEPT
            ![r].at = IF parent[f] = Root THEN "write" ELSE "walk",
            ![r].cursor = parent[f], ![r].visited = @ \cup {f}]
  /\ Reads

CountFolders(r) ==
  /\ RequestAt(r, "countFolders")
  /\ IF Inside(Item(r)) \cap Folders # {} THEN RequestEnds(r) ELSE Goes(r, "countDocuments")
  /\ Reads

CountDocuments(r) ==
  /\ RequestAt(r, "countDocuments")
  /\ IF Inside(Item(r)) \cap Documents # {} THEN RequestEnds(r) ELSE Goes(r, "write")
  /\ Reads

\* The row is written by id alone: it may have changed since it was read.
Write(r) ==
  LET i == Item(r) IN
  /\ RequestAt(r, "write") /\ RequestEnds(r)
  /\ status' = [status EXCEPT ![i] = CASE request[r].op = "create" -> "active"
                                       [] request[r].op = "delete" -> "deleted"
                                       [] OTHER -> @]
  /\ parent' = IF request[r].op = "delete" THEN parent
               ELSE [parent EXCEPT ![i] = request[r].to]

\* A name conflict, a lost connection: the request ends without a write.
RequestBreaksOff(r) == ~RequestAt(r, "idle") /\ RequestEnds(r) /\ Reads

Proceed(r) ==
  CheckTarget(r) \/ Walk(r) \/ CountFolders(r) \/ CountDocuments(r) \/ Write(r)

FolderNext == \E r \in Requests :
  \/ \E i \in Items :
       \/ BeginDelete(r, i)
       \/ \E to \in Places : BeginCreate(r, i, to) \/ BeginMove(r, i, to)
  \/ Proceed(r)
  \/ RequestBreaksOff(r)

FolderSpec == FolderInit /\ [][FolderNext]_folderVars

-----------------------------------------------------------------------------
(* Properties *)

\* Every variable has its type.
FolderTypeOK ==
  /\ status \in [Items -> {"absent", "active", "deleted"}]
  /\ parent \in [Items -> Places]
  /\ request \in [Requests -> RequestStates]

\* assertNoCycle: following parents from a folder ends at the top.  Stated
\* without paths: no set of folders has all its parents in itself.
Acyclic == \A S \in SUBSET Folders : S # {} => \E f \in S : parent[f] \notin S

\* "Folder deletion is non-recursive and returns 409 while active child
\* folders or documents exist": nothing active is left in a deleted folder.
DeletedFoldersAreEmpty == \A f \in Folders : status[f] = "deleted" => Inside(f) = {}
=============================================================================
