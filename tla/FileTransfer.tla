---------------------------- MODULE FileTransfer ----------------------------
(* The web server of the reader and the page in a browser that uploads to it,   *)
(* joined by WebSockets and requests.  Other clients of the same server, such   *)
(* as the Calibre plug-in, use connections and files of their own.             *)
EXTENDS WebUpload, FilesPage

CONSTANTS
  Tools   \* connections the other clients may use

ASSUME TransferAssumption ==
  /\ Tools \subseteq Num /\ PageNone = None
  /\ Batches \subseteq Seq(Path) \ {<< >>}

vars == <<serverVars, pageVars>>
Device(A) == A /\ UNCHANGED pageVars
Browser(A) == A /\ UNCHANGED serverVars

rest == <<running, card, upload>>
Backlog == 1   \* requests that wait for the server

(* close() of an end of connection n, which then reads no more; of no effect on *)
(* a connection that the server has closed.                                    *)
CloseEnd(n) ==
  /\ client' = IF client[n] = "page" THEN [client EXCEPT ![n] = "closing"] ELSE client
  /\ toServer' = IF client[n] = "page" THEN [toServer EXCEPT ![n] = Append(@, CLOSE)]
                 ELSE toServer
  /\ toPage' = [toPage EXCEPT ![n] = << >>]
-----------------------------------------------------------------------------
(* The page.                                                                   *)
Opens(n) ==
  /\ running /\ client[n] = "none" /\ toPage[n] = << >> /\ onopen(n)
  /\ client' = [client EXCEPT ![n] = "page"]
  /\ toServer' = [toServer EXCEPT ![n] = <<START(Current, TRUE)>>]
  /\ UNCHANGED <<rest, toPage, requests>>

(* No connection: no server, no free slot, a network that fails, or the user.  *)
OpenFails == phase = "ws" /\ ws = None /\ onerror /\ UNCHANGED serverVars

Hears(text) == phase = "ws" /\ ws # None /\ ~closing /\ toPage[ws] # << >> /\ Head(toPage[ws]) = text

HearsReady ==
  /\ Hears("READY") /\ onReady
  /\ toPage' = [toPage EXCEPT ![ws] = Tail(@)]
  /\ UNCHANGED <<rest, client, toServer, requests>>

HearsEnd ==
  /\ \/ Hears("DONE") /\ onDone
     \/ Hears("ERROR") /\ onErrorMessage
     \/ Hears("CLOSE") /\ onclose
     \/ Hears("LOST") /\ onerror
  /\ CloseEnd(ws) /\ UNCHANGED <<rest, requests>>

(* The browser's own buffer holds two chunks at most.  Nobody acknowledges what *)
(* is sent to a server that is gone, which the page is told in the end.         *)
Sends ==
  /\ phase = "ws" /\ ws # None /\ Len(toServer[ws]) < 2
  /\ SendChunk(Chunks[Current])
  /\ IF client[ws] = "page"
     THEN toServer' = [toServer EXCEPT ![ws] = Append(@, BIN(1))] /\ UNCHANGED toPage
     ELSE UNCHANGED toServer /\ toPage' = [toPage EXCEPT ![ws] = IF @ = << >> THEN <<"LOST">> ELSE @]
  /\ UNCHANGED <<rest, client, requests>>

Posts ==
  /\ running /\ Len(posts) < Backlog /\ SendRequest
  /\ posts' = Append(posts, [path |-> Current, broken |-> FALSE]) /\ answer' = None
  /\ UNCHANGED <<rest, sockets>>

(* The page no longer waits for its request: broken off, no way to send it, or  *)
(* what was sent is lost.                                                      *)
BreakOff ==
  /\ posts' = [i \in DOMAIN posts |-> [posts[i] EXCEPT !.broken = TRUE]] /\ answer' = None
  /\ UNCHANGED <<rest, sockets>>
RequestFails ==
  phase \in {"http", "fallback"} /\ ~posted /\ onRequestError(TRUE) /\ BreakOff
RequestLost ==
  phase \in {"http", "fallback"} /\ posted /\ onRequestError(TRUE) /\ BreakOff

Answered ==
  /\ phase \in {"http", "fallback"} /\ posted /\ answer # None
  /\ IF answer = "ok" THEN onComplete ELSE onRequestError(answer = "lost")
  /\ BreakOff

ForgetfulCancel ==   \* as if the WebSocket were left open
  CancelWebSocket /\ UNCHANGED serverVars
CancelsWebSocket ==
  /\ CancelWebSocket
  /\ IF ws = None THEN UNCHANGED serverVars
     ELSE CloseEnd(ws) /\ UNCHANGED <<rest, requests>>
CancelDone == phase = "ws" /\ closing /\ onclose /\ UNCHANGED serverVars
Cancels == CancelsWebSocket \/ (CancelRequest /\ BreakOff)
-----------------------------------------------------------------------------
(* The network: a connection breaks, and what is under way arrives or does not. *)
(* The server may find out alone that a link is dead.                          *)
LinkLost(n, kept) ==
  /\ client[n] \in {"page", "tool", "cut"}
  /\ toPage' = IF client[n] = "page"
               THEN [toPage EXCEPT ![n] = Append(IF kept THEN @ ELSE << >>, "LOST")]
               ELSE toPage
  /\ client' = [client EXCEPT ![n] = "closing"]
  /\ toServer' = [toServer EXCEPT ![n] = Append(IF kept THEN @ ELSE << >>, CLOSE)]
  /\ UNCHANGED <<rest, requests, pageVars>>

(* A link dies and the page is not told, nor is the server, unless what it has  *)
(* sent is never acknowledged.  One link at a time is dead.                    *)
LinkCut(n) ==
  /\ phase = "ws" /\ ws = n /\ toServer[n] = << >>
  /\ client[n] = "page" /\ \A m \in Num : client[m] # "cut"
  /\ toPage' = [toPage EXCEPT ![n] = << >>]
  /\ IF toPage[n] = << >>
     THEN client' = [client EXCEPT ![n] = "cut"] /\ UNCHANGED toServer
     ELSE client' = [client EXCEPT ![n] = "closing"] /\ toServer' = [toServer EXCEPT ![n] = <<CLOSE>>]
  /\ UNCHANGED <<rest, requests, pageVars>>

(* Nobody hears of the end of a request.                                       *)
RequestCut ==
  /\ posts' = [i \in DOMAIN posts |-> [posts[i] EXCEPT !.broken = TRUE]]
  /\ UNCHANGED <<rest, sockets, answer, pageVars>>

(* The laptop falls asleep: nothing of its connection is closed.               *)
Vanishes ==
  /\ PageLeaves
  /\ posts' = [i \in DOMAIN posts |-> [posts[i] EXCEPT !.broken = TRUE]]
  /\ UNCHANGED <<rest, sockets, answer>>

(* ... unless the reader sends something, which nobody acknowledges.            *)
GivesUp(n) ==
  phase = "gone" /\ client[n] = "page" /\ toPage[n] # << >> /\ \E kept \in BOOLEAN : LinkLost(n, kept)

(* Another client, which sends what it likes.                                  *)
ToolOpens(n) ==
  /\ running /\ n \in Tools /\ client[n] = "none" /\ toPage[n] = << >>
  /\ client' = [client EXCEPT ![n] = "tool"]
  /\ Device(UNCHANGED <<rest, toServer, toPage, requests>>)
ToolSends(n, message) ==
  /\ client[n] = "tool" /\ toServer[n] = << >>
  /\ toServer' = [toServer EXCEPT ![n] = <<message>>]
  /\ client' = [client EXCEPT ![n] = IF message = CLOSE THEN "closing" ELSE @]
  /\ Device(UNCHANGED <<rest, toPage, requests>>)
ToolMessage == {START(p, TRUE) : p \in Managed}
               \union {START(p, FALSE) : p \in Managed} \union {BIN(1), BIN(2), CLOSE}

Others ==
  \/ \E n \in Num : ToolOpens(n) \/ \E message \in ToolMessage : ToolSends(n, message)
  \/ \E p, q \in Path : Device(handleDelete(p) \/ handleRename(p, q))
-----------------------------------------------------------------------------
Callback(n) ==
  \/ \E ok \in BOOLEAN : Device(OnStart(n, ok) \/ OnBin(n, ok))
  \/ Device(OnDisconnected(n))
Serve == \E outcome \in Outcome : Device(handleUpload(outcome))

PageGoesOn ==
  \/ (\E n \in Num : Opens(n)) \/ OpenFails \/ HearsReady \/ HearsEnd \/ Sends
  \/ Posts \/ RequestFails \/ Answered \/ CancelDone

Init == ServerInit /\ PageInit
Next ==
  \/ (\E n \in Num : Callback(n)) \/ Serve \/ PageGoesOn
  \/ (\E chosen \in Batches : Browser(uploadFile(chosen))) \/ Cancels
  \/ (\E n \in Num, kept \in BOOLEAN : LinkLost(n, kept)) \/ (\E n \in Num : LinkCut(n))
  \/ RequestLost \/ RequestCut \/ Vanishes \/ Others
  \/ Device(begin \/ PowerFails \/ \E told \in BOOLEAN : stop(told))

(* handleClient() is called for ever, and serves every connection and request;  *)
(* the page handles its events; TCP gives up what is never acknowledged.       *)
Fairness ==
  /\ \A n \in Num : WF_toServer(Callback(n)) /\ WF_toServer(GivesUp(n))
  /\ WF_posts(Serve) /\ WF_vars(PageGoesOn)

Spec == Init /\ [][Next]_vars /\ Fairness
-----------------------------------------------------------------------------
PageTypeOK ==
  /\ phase \in {"idle", "ws", "http", "fallback", "gone"}
  /\ files \in Seq(Path) /\ currentIndex \in Nat \ {0} /\ useWebSocket \in BOOLEAN
  /\ (Uploading => currentIndex \in DOMAIN files)
  /\ ws \in Num \union {None} /\ closing \in BOOLEAN /\ uploadStarted \in BOOLEAN
  /\ sent \in Nat /\ posted \in BOOLEAN /\ failures \in BOOLEAN
  /\ operationCancelled \in BOOLEAN /\ reported \subseteq Path

(* Types of both ends; in particular the page indexes its list within bounds.   *)
TypeOK == ServerTypeOK /\ PageTypeOK

(* The flag, the handle and the client number of the WebSocket upload agree,    *)
(* and its client is still connected or its end has yet to be heard: no handle   *)
(* leaks ("leaking the open wsUploadFile handle", CrossPointWebServer.cpp:1387)  *)
(* and no upload is left that nobody can end.                                  *)
BusyHasOwner ==
  /\ wsUploadInProgress <=> wsUploadFile
  /\ wsUploadInProgress <=> wsUploadClientNum # None
  /\ wsUploadInProgress => running /\ client[wsUploadClientNum] # "none"

(* The only file being written by a WebSocket is that of the one in progress.  *)
IncompleteIsOwned ==
  \A p \in Path : card[p] = "uploading" => wsUploadInProgress /\ wsUploadPath = p

(* Nothing of an upload outlives it, neither a handle or the busy flag nor a    *)
(* part of a file ("Close any in-progress WebSocket upload and remove partial   *)
(* file", CrossPointWebServer.cpp:223), but what a power failure leaves of its  *)
(* file, or a renaming makes of it: these stay incomplete for good ("broken").  *)
OwnedUpload == BusyHasOwner /\ IncompleteIsOwned

(* An upload ends by a message of its own client or with the server, whatever   *)
(* other clients send and whichever connection ends ("Only clean up if this is  *)
(* the client that owns the active upload", CrossPointWebServer.cpp:1367).      *)
EndsByOwner ==
  [][wsUploadInProgress
       /\ <<wsUploadInProgress, wsUploadClientNum, wsUploadPath>>'
            # <<wsUploadInProgress, wsUploadClientNum, wsUploadPath>>
     => \/ ~running'
        \/ Len(toServer'[wsUploadClientNum]) < Len(toServer[wsUploadClientNum])]_vars

(* A whole file leaves the card, or is replaced, by a request that names it     *)
(* only: in particular not with the end of a connection, of the server or of    *)
(* the power.  The exception is the file under the name of the upload in        *)
(* progress, where a request has put it meanwhile: it also goes with whatever   *)
(* ends that upload.                                                           *)
Names(p) ==
  \/ posts # << >> /\ posts' = Tail(posts) /\ Head(posts).path = p
  \/ p \in Managed /\ UNCHANGED <<upload, sockets, requests>>
  \/ \E n \in Num : /\ toServer[n] # << >> /\ toServer'[n] = Tail(toServer[n])
                    /\ Head(toServer[n]).type = "START" /\ Head(toServer[n]).path = p
StoredStays ==
  [][\A p \in Path :
       card[p] = "whole" /\ card'[p] # "whole"
         => Names(p) \/ (wsUploadInProgress /\ wsUploadPath = p)]_vars

(* The upload of a client that goes on, or closes its connection, comes to its  *)
(* end, and the next client is not turned away for ever; unless the laptop      *)
(* falls asleep or the link dies, and nobody tells the server.                 *)
UploadEnds ==
  wsUploadInProgress /\ client[wsUploadClientNum] \in {"page", "closing"}
    ~> ~wsUploadInProgress \/ phase = "gone" \/ client[wsUploadClientNum] = "cut"

(* The page has sent all it can, the other end is gone, and nothing under way   *)
(* tells it so: neither promise has a timeout (FilesPage.html:4529 and 4641).   *)
Forsaken ==
  \/ /\ phase = "ws" /\ ws # None /\ ~closing
     /\ client[ws] # "page" /\ toPage[ws] = << >>
     /\ ~uploadStarted \/ sent = Chunks[Current]
  \/ phase \in {"http", "fallback"} /\ posted /\ answer = None /\ posts = << >>

(* A batch ends, whatever the server answers and wherever a connection or the   *)
(* server ends, unless it is gone without a word while the page waits for it:   *)
(* no other promise stays pending.                                             *)
BatchEnds == Uploading ~> ~Uploading \/ Forsaken

(* "Your uploaded files will be immediately available in the file browser!"     *)
(* (docs/webserver.md:227): what the page reports is on the card.              *)
ReportedIsStored == \A p \in reported : card[p] = "whole"

(* "Disconnection during upload will delete the incomplete file"               *)
(* (docs/webserver-endpoints.md:303), also when the laptop falls asleep.       *)
DisconnectionDeletes ==
  phase = "gone" /\ (\E p \in Path : card[p] = "uploading")
    ~> \A p \in Path : card[p] # "uploading"

(* The user's Cancel is "Set by Cancel to stop conversion loops and upload      *)
(* async handlers" (FilesPage.html:2967): no other file is sent after it.      *)
CancelStops == [][operationCancelled' => currentIndex' <= currentIndex]_vars
=============================================================================
