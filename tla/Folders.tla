------------------------------- MODULE Folders -------------------------------
(***************************************************************************)
(* The folder tree of a tenant and the place of its documents:             *)
(* createFolder, renameFolder, deleteFolder and moveDocument of            *)
(* DocumentService, and the folderId that uploads and updateDocument set.  *)
(*                                                                         *)
(* A name is the sequence of segments that its slashes make, a path the    *)
(* sequence of all segments.  A request reads, then writes; the            *)
(* transactions of renameFolder and deleteFolder are one step each.        *)
(***************************************************************************)
EXTENDS Naturals, Sequences, FiniteSets, SequencesExt

CONSTANTS Folder, DocIds, Names, Requests, NoId,
          MaxRequests \* bound: requests received

ASSUME FoldersAssumption ==
    /\ \A name \in Names : name \in Seq(STRING) /\ name # <<>>
    /\ NoId \notin Folder \cup DocIds
    /\ MaxRequests \in Nat

VARIABLES
    folder,   \* the rows; a folder that was never created has no name
    place,    \* place[d]: the folderId of document d
    req,      \* req[r]: a request between its read and its write
    received,
    odd       \* what the properties make an exception for

folderVars == <<folder, place, req, received, odd>>

NoFolder == [parent |-> NoId, name |-> <<>>, path |-> <<>>, deleted |-> FALSE]
Idle     == [step |-> "idle", f |-> NoId, d |-> NoId, name |-> <<>>, path |-> <<>>]

Created == {f \in Folder : folder[f] # NoFolder}
Alive   == {f \in Created : ~ folder[f].deleted}

FoldersInit ==
    /\ folder = [f \in Folder |-> NoFolder]
    /\ place = [d \in DocIds |-> NoId]
    /\ req = [r \in Requests |-> Idle]
    /\ received = 0
    /\ odd = {}

Begin(r, request) ==
    /\ req[r] = Idle
    /\ received < MaxRequests
    /\ received' = received + 1
    /\ req' = [req EXCEPT ![r] = request]
    /\ odd' = odd \cup {k \in {"overlap"} : \E q \in Requests : req[q] # Idle}
    /\ UNCHANGED <<folder, place>>

Done(r) == req' = [req EXCEPT ![r] = Idle] /\ UNCHANGED received

\* No index makes paths unique, and no check keeps slashes out of names.
Named(f, path, name) ==
    odd' = odd \cup {k \in {"samePath"} : \E g \in Created \ {f} : folder[g].path = path}
               \cup {k \in {"slash"} : Len(name) > 1}

ParentPath(f) == IF f = NoId THEN <<>> ELSE folder[f].path

CreateRead(r, parent, name) ==
    /\ parent \in Alive \cup {NoId}
    /\ Begin(r, [Idle EXCEPT !.step = "create", !.f = parent, !.name = name,
                             !.path = ParentPath(parent) \o name])

CreateWrite(r, f) ==
    /\ req[r].step = "create"
    /\ folder[f] = NoFolder
    /\ folder' = [folder EXCEPT ![f] = [parent |-> req[r].f, name |-> req[r].name,
                                        path |-> req[r].path, deleted |-> FALSE]]
    /\ Named(f, req[r].path, req[r].name)
    /\ Done(r)
    /\ UNCHANGED place

RenameRead(r, f, name) ==
    /\ f \in Alive
    /\ Begin(r, [Idle EXCEPT !.step = "rename", !.f = f, !.name = name,
                             !.path = folder[f].path])

\* Faulty: the paths of the children are left as they are.
RenamedAlone(f, old, new, name) ==
    [folder EXCEPT ![f].name = name, ![f].path = new]

\* The folder, then every row whose path starts with the old one: deleted rows
\* too, those below a namesake, and the folder itself when its new name begins
\* with the old one and a slash.
Renamed(f, old, new, name) ==
    LET first == [folder EXCEPT ![f].name = name, ![f].path = new]
    IN  [g \in Folder |->
            IF IsStrictPrefix(old, first[g].path)
            THEN [first[g] EXCEPT !.path = new \o SubSeq(@, Len(old) + 1, Len(@))]
            ELSE first[g]]

\* The new path is the old one up to its last slash, and the new name.
RenameWrite(r) ==
    LET f   == req[r].f
        old == req[r].path
        new == Front(old) \o req[r].name
    IN
    /\ req[r].step = "rename"
    /\ folder' = Renamed(f, old, new, req[r].name)
    /\ Named(f, new, req[r].name)
    /\ Done(r)
    /\ UNCHANGED place

DeleteRead(r, f) ==
    /\ f \in Alive
    /\ Begin(r, [Idle EXCEPT !.step = "delete", !.f = f])

\* Faulty: the documents keep their folder.
VacatedNot(f) == place

\* The documents of the folder have none from now on.
Vacated(f) == [d \in DocIds |-> IF place[d] = f THEN NoId ELSE place[d]]

\* The folders below are left where they are.
DeleteWrite(r) ==
    /\ req[r].step = "delete"
    /\ place' = Vacated(req[r].f)
    /\ folder' = [folder EXCEPT ![req[r].f].deleted = TRUE]
    /\ Done(r)
    /\ UNCHANGED odd

MoveRead(r, d, f) ==
    /\ f \in Alive \cup {NoId}
    /\ Begin(r, [Idle EXCEPT !.step = "move", !.d = d, !.f = f])

MoveWrite(r) ==
    /\ req[r].step = "move"
    /\ place' = [place EXCEPT ![req[r].d] = req[r].f]
    /\ Done(r)
    /\ UNCHANGED <<folder, odd>>

\* uploadInit and updateDocument take any folderId that has a row.
Put(d, f) ==
    /\ f \in Created
    /\ place' = [place EXCEPT ![d] = f]
    /\ odd' = odd \cup {k \in {"unchecked"} : folder[f].deleted}
    /\ UNCHANGED <<folder, req, received>>

FoldersNext ==
    \/ \E r \in Requests :
          \/ \E parent \in Folder \cup {NoId}, name \in Names : CreateRead(r, parent, name)
          \/ \E f \in Folder :
                \/ CreateWrite(r, f)
                \/ \E name \in Names : RenameRead(r, f, name)
                \/ DeleteRead(r, f)
          \/ \E d \in DocIds, f \in Folder \cup {NoId} : MoveRead(r, d, f)
          \/ RenameWrite(r) \/ DeleteWrite(r) \/ MoveWrite(r)
    \/ \E d \in DocIds, f \in Folder : Put(d, f)

FoldersSpec == FoldersInit /\ [][FoldersNext]_folderVars

-----------------------------------------------------------------------------
(* Properties.                                                             *)

\* The materialised path of a folder is that of its parent and its name, as
\* long as requests do not overlap, no two folders ever had the same path and
\* no name had a slash.  A rename finds the rows below by the text of the path:
\* it takes those of a namesake along, and cuts a name with a slash in two.
PathsFollowTree ==
    odd \cap {"overlap", "samePath", "slash"} = {} =>
        \A f \in Created :
            folder[f].path = ParentPath(folder[f].parent) \o folder[f].name

\* Documents are in folders that are there, unless requests overlapped or an
\* upload or an update named a deleted folder: deleteFolder empties the folder
\* in its transaction, and moveDocument has looked at the folder before.
PlacedInLiveFolders ==
    odd \cap {"overlap", "unchecked"} = {} =>
        \A d \in DocIds : place[d] \in Alive \cup {NoId}

=============================================================================
