------------------------------- MODULE WebDav -------------------------------
(* WebDAVHandler: how a client mounts the card.  A request is served whole by   *)
(* one call of handleClient(), so requests do not overlap; but every operation  *)
(* that changes the card may fail, whether the code looks at its result or not, *)
(* and may be the last before the battery is out.                              *)
EXTENDS Integers, Sequences

CONSTANTS
  Path,      \* files and folders a client may name: the names on the way to them
  Content,   \* what a file may hold
  Puts,      \* the paths that are PUT
  None       \* nothing under a path; no request; no answer

Request == [method : {"PUT", "MOVE", "COPY"}, path : Path, dest : Path \union {None},
            content : Content \union {None}]

ASSUME DavAssumption ==
  /\ Path \subseteq Seq(STRING) \ {<< >>} /\ Puts \subseteq Path
  /\ {None, "dir", "torn"} \intersect Content = {}
  /\ None \notin {"dir", "torn", "ok", "error"} \union Request

(* A name that is on the way to a path is a path too.                          *)
ASSUME TreeAssumption == \A p \in Path : \A n \in 1..Len(p) : SubSeq(p, 1, n) \in Path

VARIABLES
  card,      \* each path: nothing, a folder, the content of a file, or a part of it
  temp,      \* the same for the file "<path>.davtmp" beside it
  request, pc,   \* the request being served, and how far it is
  putFile, putOk, putExisted,
  answer,    \* to the last request: success or failure
  before,    \* history: the card when the request began
  flushed    \* history: the close() of its temporary file has not failed

davVars == <<card, temp, request, pc, putFile, putOk, putExisted, answer, before, flushed>>
put == <<putFile, putOk, putExisted>>

Parent(p) == SubSeq(p, 1, Len(p) - 1)
Under(p, q) == Len(p) < Len(q) /\ SubSeq(q, 1, Len(p)) = p
Below(p) == {q \in Path : Under(p, q)}
ParentExists(p) == Len(p) > 1 => card[Parent(p)] # None
ParentIsFolder(p) == Len(p) > 1 => card[Parent(p)] = "dir"
IsFile(p) == card[p] \notin {None, "dir"}

(* HalStorage::remove() of a file, or of a temporary file; it may fail, and     *)
(* folders are not removed.                                                    *)
Remove(p) ==
  \/ UNCHANGED card
  \/ IsFile(p) /\ card' = [card EXCEPT ![p] = None]
RemoveTemp(p) == temp' \in {temp, [temp EXCEPT ![p] = None]}

(* FsFile::rename(): what lies in a folder goes with it.                       *)
Rebased(p, q, r) == q \o SubSeq(r, Len(p) + 1, Len(r))
Renamed(f, p, q, tree) ==
  [r \in Path |->
     IF r \in tree THEN None
     ELSE IF \E s \in tree : Rebased(p, q, s) = r
          THEN f[CHOOSE s \in tree : Rebased(p, q, s) = r]
          ELSE f[r]]

NoCard == [p \in Path |-> None]
Begins(method, p, q, c, step) ==
  /\ request' = [method |-> method, path |-> p, dest |-> q, content |-> c]
  /\ pc' = step /\ answer' = None /\ before' = card /\ flushed' = TRUE
Ends(result) ==
  request' = None /\ pc' = "idle" /\ answer' = result /\ before' = NoCard /\ flushed' = TRUE
Steps(step) == pc' = step /\ UNCHANGED <<request, answer, before, flushed>>
-----------------------------------------------------------------------------
(* PUT: the calls of raw(), then handlePut().                                  *)

HastyRawStart(p, c, created) ==   \* as if the original went before the upload
  /\ pc = "idle" /\ p \in Puts /\ Begins("PUT", p, None, c, "writing")
  /\ Remove(p) /\ putExisted' = FALSE /\ putOk' = created /\ putFile' = created
  /\ temp' = [temp EXCEPT ![p] = IF created THEN "torn" ELSE None]

RawStart(p, c, created) ==
  /\ pc = "idle" /\ p \in Puts /\ Begins("PUT", p, None, c, "writing")
  /\ UNCHANGED card
  /\ \/ ~ParentExists(p) /\ putOk' = FALSE /\ UNCHANGED <<temp, putFile, putExisted>>
     \/ /\ ParentExists(p)
        /\ putExisted' = (card[p] # None)
        /\ IF card[p] = "dir" THEN putOk' = FALSE /\ putFile' = FALSE /\ UNCHANGED temp
           ELSE /\ putOk' = created /\ putFile' = created
                /\ IF created THEN ParentIsFolder(p) /\ temp' = [temp EXCEPT ![p] = "torn"]
                   ELSE RemoveTemp(p)

RawWriteFails ==
  /\ pc = "writing" /\ putFile /\ putOk /\ putOk' = FALSE
  /\ UNCHANGED <<card, temp, request, pc, putFile, putExisted, answer, before, flushed>>

(* The file is whole once it is closed; nobody looks whether close() succeeded. *)
Closes(closed) ==
  /\ temp' = [temp EXCEPT ![request.path] = IF closed THEN request.content ELSE "torn"]
  /\ flushed' = closed /\ pc' = "replace" /\ UNCHANGED <<request, answer, before>>

DeafRawEnd(closed) ==   \* as if nobody looked either whether the data was written
  /\ pc = "writing" /\ putFile' = FALSE
  /\ IF putOk THEN Closes(closed) ELSE UNCHANGED temp /\ Steps("replace")
  /\ UNCHANGED <<card, putOk, putExisted>>

RawEnd(closed) ==
  /\ pc = "writing" /\ putFile' = FALSE
  /\ IF putOk THEN Closes(closed) ELSE UNCHANGED temp /\ Steps("answer")
  /\ UNCHANGED <<card, putOk, putExisted>>

RawReplace ==
  /\ pc = "replace" /\ Steps("rename")
  /\ IF putExisted THEN Remove(request.path) ELSE UNCHANGED card
  /\ UNCHANGED <<temp, put>>

RawRename(renamed) ==
  /\ pc = "rename" /\ Steps("answer") /\ putOk' = renamed
  /\ renamed => card[request.path] = None
  /\ IF renamed THEN /\ card' = [card EXCEPT ![request.path] = temp[request.path]]
                     /\ temp' = [temp EXCEPT ![request.path] = None]
     ELSE UNCHANGED card /\ RemoveTemp(request.path)
  /\ UNCHANGED <<putFile, putExisted>>

(* The client is gone: nobody to answer.                                       *)
RawAborted ==
  /\ pc = "writing" /\ Ends(None) /\ RemoveTemp(request.path)
  /\ putFile' = FALSE /\ putOk' = FALSE /\ UNCHANGED <<card, putExisted>>

DeafHandlePut ==   \* as if nobody looked whether the upload failed
  /\ pc = "answer" /\ Ends("ok") /\ UNCHANGED <<card, temp, put>>

handlePut ==
  /\ pc = "answer" /\ Ends(IF putOk THEN "ok" ELSE "error")
  /\ IF putOk THEN UNCHANGED temp ELSE RemoveTemp(request.path)
  /\ UNCHANGED <<card, put>>
-----------------------------------------------------------------------------
(* Requests that take one operation.                                           *)
Answers(result) == answer' = result /\ UNCHANGED <<temp, request, pc, put, before, flushed>>

IsEmpty(p) == \A q \in Below(p) : card[q] = None /\ temp[q] = None

CarelessHandleDelete(p, removed) ==   \* as if a folder need not be empty
  /\ pc = "idle" /\ removed /\ card[p] # None
  /\ card' = [card EXCEPT ![p] = None] /\ Answers("ok")

handleDelete(p, removed) ==
  /\ pc = "idle"
  /\ removed => card[p] # None /\ (card[p] = "dir" => IsEmpty(p))
  /\ card' = IF removed THEN [card EXCEPT ![p] = None] ELSE card
  /\ Answers(IF removed THEN "ok" ELSE "error")

BoldHandleMkcol(p, made) ==   \* as if a file could become a folder
  /\ pc = "idle"
  /\ made => card[p] # "dir" /\ ParentIsFolder(p)
  /\ card' = IF made THEN [card EXCEPT ![p] = "dir"] ELSE card
  /\ Answers(IF made THEN "ok" ELSE "error")

handleMkcol(p, made) ==
  /\ pc = "idle"
  /\ made => card[p] = None /\ ParentIsFolder(p)
  /\ card' = IF made THEN [card EXCEPT ![p] = "dir"] ELSE card
  /\ Answers(IF made THEN "ok" ELSE "error")
-----------------------------------------------------------------------------
(* MOVE and COPY remove the destination first, if they may.                    *)
Accepted(p, q, overwrite) ==
  p # q /\ card[p] # None /\ ParentExists(q) /\ (card[q] # None => overwrite)

handleMove(p, q, overwrite) ==
  /\ pc = "idle" /\ Accepted(p, q, overwrite)
  /\ Begins("MOVE", p, q, None, "move") /\ Remove(q) /\ UNCHANGED <<temp, put>>

Fits(p, q) ==   \* the bound on what may be moved: into Path
  \A r \in Below(p) : card[r] # None \/ temp[r] # None => Rebased(p, q, r) \in Path

(* Nobody looks whether a folder is moved into itself.  If rename() lets it, the *)
(* folder and all it holds are reached from nowhere any more.                  *)
MoveRename(renamed) ==
  /\ pc = "move" /\ UNCHANGED put
  /\ LET p == request.path  q == request.dest IN
     IF renamed
     THEN /\ card[q] = None /\ ParentIsFolder(q) /\ (Under(p, q) \/ Fits(p, q))
          /\ card' = Renamed(card, p, q, Below(p) \union {p})
          /\ temp' = Renamed(temp, p, q, Below(p))
          /\ Ends("ok")
     ELSE UNCHANGED <<card, temp>> /\ Ends("error")

handleCopy(p, q, overwrite) ==
  /\ pc = "idle" /\ IsFile(p) /\ Accepted(p, q, overwrite)
  /\ Begins("COPY", p, q, None, "create") /\ Remove(q) /\ UNCHANGED <<temp, put>>

CopyCreate(created) ==
  /\ pc = "create" /\ UNCHANGED <<temp, put>>
  /\ LET q == request.dest IN
     IF created
     THEN /\ card[q] # "dir" /\ ParentIsFolder(q)
          /\ card' = [card EXCEPT ![q] = "torn"] /\ Steps("copy")
     ELSE UNCHANGED card /\ Ends("error")

(* "short": read() returns nothing before the end, which ends the loop alike, or *)
(* close() fails; "full", "left": no room, and the part of the copy is removed,  *)
(* or cannot be.                                                               *)
CopyData(how) ==
  /\ pc = "copy" /\ UNCHANGED <<temp, put>>
  /\ card' = [card EXCEPT ![request.dest] =
                CASE how = "whole" -> card[request.path] [] how = "full" -> None [] OTHER -> @]
  /\ Ends(IF how \in {"full", "left"} THEN "error" ELSE "ok")

(* A request that is not accepted; the copy of a folder never is.              *)
Refuse(p, q, overwrite) ==
  /\ pc = "idle" /\ (~Accepted(p, q, overwrite) \/ card[p] = "dir")
  /\ UNCHANGED card /\ Answers(IF p = q THEN "ok" ELSE "error")
-----------------------------------------------------------------------------
(* The battery is out, at any time; the handler is made anew.                  *)
PowerLoss ==
  /\ pc' = "idle" /\ request' = None /\ answer' = None
  /\ putFile' = FALSE /\ putOk' = FALSE /\ putExisted' = FALSE
  /\ before' = NoCard /\ flushed' = TRUE /\ UNCHANGED <<card, temp>>

Init ==
  /\ card = NoCard /\ temp = NoCard /\ before = NoCard /\ flushed = TRUE
  /\ request = None /\ pc = "idle" /\ answer = None
  /\ putFile = FALSE /\ putOk = FALSE /\ putExisted = FALSE

Put == (\E p \in Puts, c \in Content, ok \in BOOLEAN : RawStart(p, c, ok))
       \/ (\E ok \in BOOLEAN : RawEnd(ok) \/ RawRename(ok))
       \/ RawWriteFails \/ RawReplace \/ RawAborted \/ handlePut
Move == \/ \E p, q \in Path, overwrite \in BOOLEAN : handleMove(p, q, overwrite)
        \/ \E ok \in BOOLEAN : MoveRename(ok)
Copy == \/ \E p, q \in Path, overwrite \in BOOLEAN : handleCopy(p, q, overwrite)
        \/ \E ok \in BOOLEAN : CopyCreate(ok)
        \/ \E how \in {"whole", "short", "full", "left"} : CopyData(how)

Next ==
  \/ Put \/ Move \/ Copy \/ PowerLoss
  \/ \E p \in Path, ok \in BOOLEAN : handleDelete(p, ok) \/ handleMkcol(p, ok)
  \/ \E p, q \in Path, ok \in BOOLEAN : Refuse(p, q, ok)

Spec == Init /\ [][Next]_davVars
-----------------------------------------------------------------------------
Item == Content \union {None, "dir", "torn"}
TypeOK ==
  /\ card \in [Path -> Item] /\ before \in [Path -> Item]
  /\ temp \in [Path -> Content \union {None, "torn"}]
  /\ pc \in {"idle", "writing", "replace", "rename", "answer", "move", "create", "copy"}
  /\ pc = "idle" <=> request = None
  /\ request \in Request \union {None}
  /\ putFile \in BOOLEAN /\ putOk \in BOOLEAN /\ putExisted \in BOOLEAN
  /\ answer \in {None, "ok", "error"} /\ flushed \in BOOLEAN

(* What can be named lies in a folder that can: no folder is removed from above  *)
(* what a failed PUT or the battery left in it, and a folder that is moved takes  *)
(* along all that lies in it, or, moved into itself, nothing of it can be named. *)
TreeOK == \A p \in Path : card[p] # None \/ temp[p] # None => ParentIsFolder(p)

(* From the first byte of a PUT to its rename, the card holds the original whole *)
(* or the new content whole, whenever the power goes ("Write to a temp file to   *)
(* avoid destroying the original", WebDAVHandler.cpp:78).  The exception is a    *)
(* close() that fails, which nobody notices.                                   *)
PutKeepsOne ==
  pc \in {"writing", "replace", "rename"} /\ flushed =>
    card[request.path] = before[request.path] \/ temp[request.path] = request.content

(* A part of a file gets under a name by a COPY to it, or by a MOVE of that part, *)
(* and by a PUT only if its close() failed: what a PUT that ran out of room or    *)
(* was broken off has written never takes the name of a file.                   *)
TornByCopy ==
  [][\A p \in Path : card'[p] = "torn" /\ card[p] # "torn" =>
       LET from == request.path  to == request.dest IN
       /\ request # None
       /\ CASE request.method = "COPY" -> p = to
            [] request.method = "MOVE" ->
                 \E s \in Below(from) \union {from} : card[s] = "torn" /\ Rebased(from, to, s) = p
            [] request.method = "PUT" -> p = from /\ ~flushed]_davVars

(* An answer is true.  After a PUT that succeeded the file is there, unless its   *)
(* close() failed, and no temporary one; after one that failed the original is,  *)
(* or nothing.  A MOVE that succeeded moved what was there, unless into itself,   *)
(* one that failed left it.  A COPY left its source, and where it failed what    *)
(* was there, nothing, or a part.                                              *)
AnswersAreTrue ==
  [][request # None /\ answer' # None =>
       LET p == request.path  q == request.dest IN
       CASE request.method = "PUT" ->
              IF answer' = "ok" THEN temp'[p] = None /\ (flushed => card'[p] = request.content)
              ELSE card'[p] \in {before[p], None}
         [] request.method = "MOVE" ->
              IF answer' = "ok" THEN card'[p] = None /\ (Under(p, q) \/ card'[q] = before[p])
              ELSE card'[p] = before[p]
         [] request.method = "COPY" ->
              /\ card'[p] = before[p]
              /\ answer' = "error" => card'[q] \in {None, before[q], "torn"}]_davVars

(* The handler is a FileTree: in the end of a PUT, while the original is gone    *)
(* and the new file not yet renamed, the file is the new one; a copy is there    *)
(* once it is complete.  However requests, failing operations and power losses  *)
(* follow each other, a request changes the tree by one whole operation on what *)
(* it names (raw(), handleMove(), handleCopy(), WebDAVHandler.cpp:93, 484, 555).  *)
Unsettled == pc = "rename" /\ card[request.path] = None
Seen ==
  [p \in Path |->
     IF Unsettled /\ p = request.path THEN temp[p]
     ELSE IF pc = "copy" /\ p = request.dest THEN None
     ELSE card[p]]
PutStage == IF Unsettled THEN "stored" ELSE IF pc = "answer" THEN "done" ELSE "begun"
Shown == INSTANCE FileTree WITH tree <- Seen, stage <- PutStage
ServesTree == Shown!Spec

(* "Write to a temp file to avoid destroying the original on failed upload"      *)
(* (WebDAVHandler.cpp:78): a PUT that is answered with an error leaves the       *)
(* original.                                                                   *)
OriginalSurvives ==
  [][request # None /\ request.method = "PUT" /\ answer' = "error"
       => card'[request.path] = before[request.path]]_davVars
=============================================================================
