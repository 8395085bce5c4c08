----------------------------- MODULE WebUpload -----------------------------
(* CrossPointWebServer, the part that writes files: the WebSocket uploads, of  *)
(* which one at a time may be in progress, the uploads by POST, the removal and *)
(* the renaming of files, and the stop of the server.  Everything runs on the   *)
(* main task: a callback, or a whole request, is one step.                     *)
EXTENDS Integers, Sequences

CONSTANTS
  Num,       \* the numbers WebSocketsServer gives its connections
  Path,      \* names of files
  Managed,   \* the files that clients other than the page write, remove, rename
  Chunks,    \* size of each file, in binary messages
  None       \* no file; no client (255 in the code)

ASSUME UploadAssumption ==
  /\ Managed \subseteq Path /\ Chunks \in [Path -> Nat]
  /\ None \notin Num \union Path \union {"whole", "uploading", "broken"}

VARIABLES
  running,
  card,      \* what is under each name: nothing, or a file that is whole, that a
             \* WebSocket upload is writing, or that will stay incomplete
  wsUploadFile,   \* the handle is open
  wsUploadPath, wsUploadReceived, wsUploadInProgress, wsUploadClientNum,
  client,    \* who is at the other end; "closing" once it has closed its end, "cut"
             \* once the link is dead and nobody has been told
  toServer, toPage,  \* messages under way
  posts,     \* requests to upload a file; "broken" once the client has gone
  answer     \* to the request of the page

upload == <<wsUploadFile, wsUploadPath, wsUploadReceived, wsUploadInProgress,
            wsUploadClientNum>>
sockets == <<client, toServer, toPage>>
requests == <<posts, answer>>
serverVars == <<running, card, upload, sockets, requests>>

START(path, valid) == [type |-> "START", path |-> path, valid |-> valid]
BIN(length) == [type |-> "BIN", length |-> length]
CLOSE == [type |-> "CLOSE"]

Put(path, file) == card' = [card EXCEPT ![path] = file]

(* The handle still has its directory entry: nobody removed or renamed it.     *)
EntryIsOurs == card[wsUploadPath] = "uploading"

(* The message a callback is about; its answer, which only the page reads.     *)
Receives(n, type) ==
  /\ running /\ toServer[n] # << >> /\ Head(toServer[n]).type = type
  /\ toServer' = [toServer EXCEPT ![n] = Tail(@)]
sendTXT(n, text) ==
  toPage' = IF client[n] = "page" THEN [toPage EXCEPT ![n] = Append(@, text)] ELSE toPage

(* No upload: what was received is of no use any more.                         *)
NotInProgress ==
  /\ wsUploadFile' = FALSE /\ wsUploadInProgress' = FALSE /\ wsUploadClientNum' = None
  /\ wsUploadReceived' = 0

(* The upload ends without its file, under whose name anything may be by now.  *)
abortWsUpload ==
  Put(wsUploadPath, None) /\ NotInProgress /\ UNCHANGED wsUploadPath
-----------------------------------------------------------------------------
(* WStype_TEXT.  "created": the card lets the file be created.                 *)

StartRejected(n) ==
  /\ wsUploadInProgress \/ ~Head(toServer[n]).valid
  /\ sendTXT(n, "ERROR") /\ UNCHANGED <<card, upload>>

StartAccepted(n, path, created) ==
  /\ wsUploadPath' = path
  /\ \/ /\ ~created /\ Put(path, None) /\ NotInProgress /\ sendTXT(n, "ERROR")
     \/ /\ created /\ Chunks[path] = 0 /\ Put(path, "whole")
        /\ sendTXT(n, "DONE") /\ wsUploadFile' = FALSE
        /\ UNCHANGED <<wsUploadInProgress, wsUploadClientNum, wsUploadReceived>>
     \/ /\ created /\ Chunks[path] > 0 /\ Put(path, "uploading")
        /\ wsUploadFile' = TRUE /\ wsUploadInProgress' = TRUE /\ wsUploadClientNum' = n
        /\ wsUploadReceived' = 0
        /\ sendTXT(n, "READY")

OnStart(n, created) ==
  /\ Receives(n, "START")
  /\ \/ StartRejected(n)
     \/ /\ ~wsUploadInProgress /\ Head(toServer[n]).valid
        /\ StartAccepted(n, Head(toServer[n]).path, created)
  /\ UNCHANGED <<running, client, requests>>

(* WStype_BIN.  "written": the card takes the data.                            *)
Overflow(n) == Head(toServer[n]).length > Chunks[wsUploadPath] - wsUploadReceived

BinFails(n) == abortWsUpload /\ sendTXT(n, "ERROR")

BinWritten(n, received) ==
  /\ UNCHANGED wsUploadPath
  /\ IF received < Chunks[wsUploadPath]
     THEN /\ wsUploadReceived' = received
          /\ UNCHANGED <<card, wsUploadFile, wsUploadInProgress, wsUploadClientNum, toPage>>
     ELSE /\ IF EntryIsOurs THEN Put(wsUploadPath, "whole") ELSE UNCHANGED card
          /\ NotInProgress /\ sendTXT(n, "DONE")

OnBin(n, written) ==
  /\ Receives(n, "BIN")
  /\ \/ /\ ~wsUploadInProgress \/ ~wsUploadFile \/ n # wsUploadClientNum
        /\ sendTXT(n, "ERROR") /\ UNCHANGED <<card, upload>>
     \/ /\ wsUploadInProgress /\ wsUploadFile /\ n = wsUploadClientNum
        /\ IF Overflow(n) \/ ~written THEN BinFails(n)
           ELSE BinWritten(n, wsUploadReceived + Head(toServer[n]).length)
  /\ UNCHANGED <<running, client, requests>>

(* WStype_DISCONNECTED: the slot is free again.                                *)
BrokenOnDisconnected(n) ==     \* as if any client could end the upload
  /\ Receives(n, "CLOSE") /\ client' = [client EXCEPT ![n] = "none"]
  /\ IF wsUploadInProgress /\ wsUploadFile THEN abortWsUpload
     ELSE UNCHANGED <<card, upload>>
  /\ UNCHANGED <<running, toPage, requests>>

HastyOnDisconnected(n) ==      \* as if the last upload were removed, ended or not
  /\ Receives(n, "CLOSE") /\ client' = [client EXCEPT ![n] = "none"]
  /\ IF wsUploadPath # None THEN abortWsUpload ELSE UNCHANGED <<card, upload>>
  /\ UNCHANGED <<running, toPage, requests>>

StuckOnDisconnected(n) ==      \* as if an upload survived its client
  /\ Receives(n, "CLOSE") /\ client' = [client EXCEPT ![n] = "none"]
  /\ UNCHANGED <<running, card, upload, toPage, requests>>

OnDisconnected(n) ==
  /\ Receives(n, "CLOSE") /\ client' = [client EXCEPT ![n] = "none"]
  /\ IF n = wsUploadClientNum /\ wsUploadInProgress /\ wsUploadFile THEN abortWsUpload
     ELSE UNCHANGED <<card, upload>>
  /\ UNCHANGED <<running, toPage, requests>>
-----------------------------------------------------------------------------
(* POST /upload, from the first part of the file to the answer.  A file that    *)
(* cannot be written to its end stays, one whose client goes away is removed.   *)
Outcome == {"ok", "create", "write", "aborted"}
Leaves(outcome) ==
  CASE outcome = "ok" -> "whole" [] outcome = "write" -> "broken" [] OTHER -> None

handleUpload(outcome) ==
  /\ running /\ posts # << >> /\ posts' = Tail(posts)
  /\ outcome = "aborted" => Head(posts).broken
  /\ Put(Head(posts).path, Leaves(outcome))
  /\ answer' = IF Head(posts).broken THEN answer
               ELSE IF outcome = "ok" THEN "ok" ELSE "error"
  /\ UNCHANGED <<running, upload, sockets>>

(* POST /delete and /rename of a file that is there.                           *)
handleDelete(p) ==
  /\ running /\ p \in Managed /\ card[p] # None
  /\ Put(p, None)
  /\ UNCHANGED <<running, upload, sockets, requests>>

handleRename(p, q) ==
  /\ running /\ {p, q} \subseteq Managed /\ card[p] # None /\ card[q] = None
  /\ card' = [card EXCEPT ![p] = None,
                          ![q] = IF card[p] = "uploading" THEN "broken" ELSE card[p]]
  /\ UNCHANGED <<running, upload, sockets, requests>>
-----------------------------------------------------------------------------
(* begin() and stop(), and a power failure, after which a WebSocket upload has  *)
(* left a part of its file.  stop() closes the sockets in order, and the page   *)
(* is told so; without Wi-Fi, or without power, it is told nothing.            *)
begin ==
  /\ ~running /\ running' = TRUE
  /\ UNCHANGED <<card, upload, sockets, requests>>

CutOff(told) ==
  /\ client' = [n \in Num |-> "none"] /\ toServer' = [n \in Num |-> << >>]
  /\ toPage' = [n \in Num |-> IF client[n] = "page" /\ told
                              THEN Append(toPage[n], "CLOSE") ELSE toPage[n]]
  /\ posts' = << >>
  /\ answer' = IF told /\ \E i \in DOMAIN posts : ~posts[i].broken THEN "lost" ELSE answer

stop(told) ==
  /\ running /\ running' = FALSE
  /\ IF wsUploadInProgress /\ wsUploadFile THEN abortWsUpload ELSE UNCHANGED <<card, upload>>
  /\ CutOff(told)

PowerFails ==
  /\ running /\ running' = FALSE
  /\ card' = [p \in Path |-> IF card[p] = "uploading" THEN "broken" ELSE card[p]]
  /\ NotInProgress /\ wsUploadPath' = None
  /\ CutOff(FALSE)

ServerInit ==
  /\ running = TRUE /\ card = [p \in Path |-> None]
  /\ wsUploadFile = FALSE /\ wsUploadPath = None /\ wsUploadReceived = 0
  /\ wsUploadInProgress = FALSE /\ wsUploadClientNum = None
  /\ client = [n \in Num |-> "none"]
  /\ toServer = [n \in Num |-> << >>] /\ toPage = [n \in Num |-> << >>]
  /\ posts = << >> /\ answer = None

Message == [type : {"START"}, path : Path, valid : BOOLEAN]
           \union [type : {"BIN"}, length : 1..2] \union {CLOSE}
ServerTypeOK ==
  /\ running \in BOOLEAN /\ card \in [Path -> {None, "whole", "uploading", "broken"}]
  /\ wsUploadFile \in BOOLEAN /\ wsUploadPath \in Path \union {None}
  /\ wsUploadReceived \in Nat /\ wsUploadInProgress \in BOOLEAN
  /\ wsUploadClientNum \in Num \union {None}
  /\ client \in [Num -> {"none", "page", "tool", "closing", "cut"}]
  /\ toServer \in [Num -> Seq(Message)]
  /\ toPage \in [Num -> Seq({"READY", "DONE", "ERROR", "CLOSE", "LOST"})]
  /\ posts \in Seq([path : Path, broken : BOOLEAN])
  /\ answer \in {None, "ok", "error", "lost"}
=============================================================================
