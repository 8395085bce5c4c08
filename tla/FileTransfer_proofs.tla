------------------------ MODULE FileTransfer_proofs ------------------------
(* Proofs about the uploads: the types of both ends, and that a file is left    *)
(* incomplete by the one upload in progress only, which has an owner.          *)
EXTENDS FileTransfer, SequenceTheorems, TLAPS

(* The end of a connection is the last that the server hears of it, and it      *)
(* hears nothing of a slot that is free: whoever starts an upload is connected. *)
Orderly ==
  \A n \in Num :
    /\ client[n] = "none" => toServer[n] = << >>
    /\ \A i \in 1 .. Len(toServer[n]) :
         toServer[n][i] = CLOSE => i = Len(toServer[n]) /\ client[n] = "closing"

Inv == TypeOK /\ BusyHasOwner /\ IncompleteIsOwned /\ Orderly

(* The types of the server, in parts.                                          *)
FileTypes ==
  /\ running \in BOOLEAN /\ card \in [Path -> {None, "whole", "uploading", "broken"}]
  /\ wsUploadFile \in BOOLEAN /\ wsUploadPath \in Path \union {None}
  /\ wsUploadReceived \in Nat /\ wsUploadInProgress \in BOOLEAN
  /\ wsUploadClientNum \in Num \union {None}

Text == {"READY", "DONE", "ERROR", "CLOSE", "LOST"}
SocketTypes ==
  /\ client \in [Num -> {"none", "page", "tool", "closing", "cut"}]
  /\ toServer \in [Num -> Seq(Message)] /\ toPage \in [Num -> Seq(Text)]

Sockets == SocketTypes /\ Orderly

Post == [path : Path, broken : BOOLEAN]
RequestTypes == posts \in Seq(Post) /\ answer \in {None, "ok", "error", "lost"}

(* What the invariant says of the upload in progress.                          *)
UploadSafe == FileTypes /\ BusyHasOwner /\ IncompleteIsOwned

(* The parts make up the invariant.                                            *)
LEMMA InvParts == Inv <=> UploadSafe /\ Sockets /\ RequestTypes /\ PageTypeOK
BY Zenon DEF Inv, TypeOK, ServerTypeOK, UploadSafe, FileTypes, SocketTypes, RequestTypes,
             Text, Post, Sockets
-----------------------------------------------------------------------------
(* Queues.                                                                     *)

(* The rest of a queue has its type, and is shorter.                           *)
LEMMA TailType ==
  ASSUME NEW S, NEW s \in Seq(S), s # << >>
  PROVE  Head(s) \in S /\ Tail(s) \in Seq(S) /\ Len(Tail(s)) < Len(s)
BY HeadTailProperties, LenProperties

(* Nothing is left of a queue of one.                                          *)
LEMMA SingleTail ==
  ASSUME NEW S, NEW s \in Seq(S), Len(s) = 1
  PROVE  Tail(s) = << >>
<1>1. s # << >>
  BY EmptySeq
<1>2. Tail(s) \in Seq(S) /\ Len(Tail(s)) = 0
  BY <1>1, HeadTailProperties
<1> QED BY <1>2, EmptySeq

(* So has a queue with another message.                                        *)
LEMMA AppendType ==
  ASSUME NEW S, NEW s \in Seq(S), NEW e \in S
  PROVE  Append(s, e) \in Seq(S) /\ << >> \in Seq(S)
BY AppendProperties, EmptySeq

(* A queue of one message holds just that.                                      *)
LEMMA SingletonType ==
  ASSUME NEW S, NEW e \in S
  PROVE  <<e>> \in Seq(S) /\ \A i \in 1 .. Len(<<e>>) : <<e>>[i] = e
OBVIOUS

(* An answer of the server to a message that it takes from a queue.            *)
LEMMA ReceivesTypes ==
  ASSUME SocketTypes, NEW n \in Num, NEW type, Receives(n, type)
  PROVE  /\ toServer' \in [Num -> Seq(Message)] /\ Head(toServer[n]) \in Message
         /\ Len(toServer'[n]) < Len(toServer[n])
<1>1. toServer[n] \in Seq(Message) /\ toServer[n] # << >>
  BY DEF SocketTypes, Receives
<1>2. /\ Head(toServer[n]) \in Message /\ Tail(toServer[n]) \in Seq(Message)
      /\ Len(Tail(toServer[n])) < Len(toServer[n])
  BY <1>1, TailType
<1> QED BY <1>2 DEF SocketTypes, Receives

(* An answer goes into a queue of texts.                                        *)
LEMMA SendTypes ==
  ASSUME SocketTypes, NEW n \in Num, NEW text \in Text, sendTXT(n, text)
  PROVE  toPage' \in [Num -> Seq(Text)]
<1>1. Append(toPage[n], text) \in Seq(Text)
  BY AppendType DEF SocketTypes
<1> QED BY <1>1 DEF SocketTypes, sendTXT

(* A message that is taken from its queue leaves the rest in order.            *)
LEMMA ReceivesOrderly ==
  ASSUME Sockets, NEW n \in Num, NEW type, Receives(n, type),
         \/ client' = client
         \/ type = "CLOSE" /\ client' = [client EXCEPT ![n] = "none"]
  PROVE  Orderly' /\ client[n] # "none"
<1> DEFINE s == toServer[n]
<1>1. s \in Seq(Message) /\ s # << >> /\ Head(s).type = type
  BY DEF Sockets, SocketTypes, Receives
<1>2. /\ Head(s) \in Message /\ Tail(s) \in Seq(Message) /\ Len(s) \in Nat
      /\ Len(Tail(s)) = Len(s) - 1 /\ \A i \in 1 .. Len(Tail(s)) : Tail(s)[i] = s[i + 1]
  BY <1>1, HeadTailProperties, LenProperties
<1>3. toServer' = [toServer EXCEPT ![n] = Tail(s)] /\ toServer'[n] = Tail(s)
  BY DEF Receives, Sockets, SocketTypes
<1>4. client[n] # "none"
  BY <1>1 DEF Sockets, Orderly
<1>5. \A i \in 1 .. Len(Tail(s)) :
        Tail(s)[i] = CLOSE => i = Len(Tail(s)) /\ client[n] = "closing"
  BY <1>2 DEF Sockets, Orderly
<1>6. CASE client' = client
  BY <1>3, <1>4, <1>5, <1>6 DEF Sockets, SocketTypes, Orderly
<1>7. CASE type = "CLOSE" /\ client' = [client EXCEPT ![n] = "none"]
  <2>1. s[1] = CLOSE /\ 1 \in 1 .. Len(s)
    BY <1>1, <1>2, <1>7, EmptySeq DEF Message, CLOSE
  <2>2. 1 = Len(s)
    BY <2>1 DEF Sockets, Orderly
  <2>3. Tail(s) = << >>
    BY <1>1, <2>2, SingleTail
  <2>4. client' \in [Num -> {"none", "page", "tool", "closing", "cut"}] /\ client'[n] = "none"
    BY <1>7 DEF Sockets, SocketTypes
  <2>5. 1 .. Len(toServer'[n]) = {}
    <3>1. toServer'[n] = << >>
      BY <1>3, <2>3
    <3>2. Len(toServer'[n]) = 0
      BY <3>1, EmptySeq
    <3> QED BY <3>2
  <2> HIDE DEF s
  <2>6. ASSUME NEW m \in Num \ {n}
        PROVE  toServer'[m] = toServer[m] /\ client'[m] = client[m]
    BY <1>3, <1>7 DEF Sockets, SocketTypes
  <2>7. Orderly'
    <3> SUFFICES ASSUME NEW m \in Num
                 PROVE  /\ client'[m] = "none" => toServer'[m] = << >>
                        /\ \A i \in 1 .. Len(toServer'[m]) :
                             toServer'[m][i] = CLOSE
                               => i = Len(toServer'[m]) /\ client'[m] = "closing"
      BY DEF Orderly
    <3>1. CASE m = n
      BY <1>3, <2>3, <2>5, <3>1
    <3>2. CASE m # n
      BY <2>6, <3>2 DEF Sockets, Orderly
    <3> QED BY <3>1, <3>2
  <2> QED BY <1>4, <2>7
<1> QED BY <1>6, <1>7

(* So does a message that is added by a client that is connected.              *)
LEMMA SendsOrderly ==
  ASSUME Sockets, NEW n \in Num, NEW s \in Seq(Message), NEW m \in Message,
         client[n] \in {"page", "tool", "cut"}, s \in {toServer[n], << >>},
         toServer' = [toServer EXCEPT ![n] = Append(s, m)],
         client' = IF m = CLOSE THEN [client EXCEPT ![n] = "closing"] ELSE client
  PROVE  Orderly' /\ toServer' \in [Num -> Seq(Message)]
<1>1. /\ Append(s, m) \in Seq(Message) /\ Len(Append(s, m)) = Len(s) + 1 /\ Len(s) \in Nat
      /\ \A i \in 1 .. Len(s) : Append(s, m)[i] = s[i]
      /\ Append(s, m)[Len(s) + 1] = m
  BY AppendProperties, LenProperties
<1>2. \A i \in 1 .. Len(s) : s[i] # CLOSE
  BY EmptySeq DEF Sockets, Orderly
<1>3. \A i \in 1 .. Len(Append(s, m)) :
        Append(s, m)[i] = CLOSE => i = Len(Append(s, m)) /\ m = CLOSE
  BY <1>1, <1>2
<1>4. client'[n] # "none" /\ (m = CLOSE => client'[n] = "closing")
  BY DEF Sockets, SocketTypes
<1> QED BY <1>1, <1>3, <1>4 DEF Sockets, SocketTypes, Orderly

(* The end of a connection.                                                    *)
LEMMA CloseTypes ==
  ASSUME Sockets, NEW n \in Num, CloseEnd(n)
  PROVE  Sockets' /\ \A m \in Num : client[m] # "none" => client'[m] # "none"
<1>1. << >> \in Seq(Text) /\ CLOSE \in Message /\ toServer[n] \in Seq(Message)
  BY EmptySeq DEF Message, Sockets, SocketTypes
<1>2. Orderly' /\ toServer' \in [Num -> Seq(Message)]
  <2>1. CASE client[n] = "page"
    BY <1>1, <2>1, SendsOrderly DEF CloseEnd
  <2>2. CASE client[n] # "page"
    BY <2>2 DEF CloseEnd, Sockets, SocketTypes, Orderly
  <2> QED BY <2>1, <2>2
<1> QED BY <1>1, <1>2 DEF Sockets, SocketTypes, CloseEnd

(* A request that is broken off is still a request.                            *)
LEMMA BrokenTypes ==
  ASSUME RequestTypes
  PROVE  [i \in DOMAIN posts |-> [posts[i] EXCEPT !.broken = TRUE]] \in Seq(Post)
<1> DEFINE e(i) == [posts[i] EXCEPT !.broken = TRUE]
<1>1. Len(posts) \in Nat /\ DOMAIN posts = 1 .. Len(posts) /\ posts \in [1 .. Len(posts) -> Post]
  BY LenProperties DEF RequestTypes
<1>2. \A i \in 1 .. Len(posts) : e(i) \in Post
  BY <1>1 DEF Post
<1> HIDE DEF e
<1>3. [i \in 1 .. Len(posts) |-> e(i)] \in Seq(Post)
  BY <1>1, <1>2, IsASeq
<1> QED BY <1>1, <1>3 DEF e
-----------------------------------------------------------------------------
(* The upload.                                                                 *)

(* Connections that end, and all else, leave the upload alone.                 *)
LEMMA RestKept ==
  ASSUME UploadSafe, UNCHANGED rest,
         \A m \in Num : client[m] # "none" => client'[m] # "none"
  PROVE  UploadSafe'
BY DEF UploadSafe, FileTypes, BusyHasOwner, IncompleteIsOwned, rest, upload

(* abortWsUpload() ends it.                                                    *)
LEMMA AbortSafe ==
  ASSUME UploadSafe, wsUploadInProgress, abortWsUpload, running' \in BOOLEAN
  PROVE  UploadSafe' /\ ~wsUploadInProgress'
BY UploadAssumption
   DEF UploadSafe, FileTypes, BusyHasOwner, IncompleteIsOwned, abortWsUpload, NotInProgress, Put

(* An upload starts where there is none, and then has its owner.               *)
LEMMA StartSafe ==
  ASSUME UploadSafe, ~wsUploadInProgress, running, UNCHANGED <<running, client>>,
         NEW n \in Num, NEW path \in Path, NEW created, StartAccepted(n, path, created),
         client[n] # "none"
  PROVE  UploadSafe'
<1>1. ASSUME NEW file \in {None, "whole"}, Put(path, file), wsUploadReceived' \in Nat,
             wsUploadInProgress' = FALSE, wsUploadFile' = FALSE, wsUploadClientNum' = None
      PROVE  UploadSafe'
  <2>1. wsUploadPath' = path
    BY DEF StartAccepted
  <2>2. card' = [card EXCEPT ![path] = file] /\ file # "uploading"
    BY <1>1, UploadAssumption DEF Put
  <2>3. FileTypes'
    BY <1>1, <2>1, <2>2 DEF UploadSafe, FileTypes
  <2>4. BusyHasOwner'
    BY <1>1 DEF BusyHasOwner
  <2>5. IncompleteIsOwned'
    BY <2>2 DEF UploadSafe, FileTypes, IncompleteIsOwned
  <2> QED BY <2>3, <2>4, <2>5 DEF UploadSafe
<1>2. ASSUME wsUploadInProgress' = TRUE, wsUploadFile' = TRUE, wsUploadClientNum' = n,
             wsUploadReceived' = 0, Put(path, "uploading"), wsUploadPath' = path
      PROVE  UploadSafe'
  BY <1>2, UploadAssumption
     DEF UploadSafe, FileTypes, BusyHasOwner, IncompleteIsOwned, Put
<1>3. wsUploadInProgress = FALSE /\ wsUploadClientNum = None /\ wsUploadReceived \in Nat
  BY DEF UploadSafe, FileTypes, BusyHasOwner
<1>4. \/ Put(path, None) /\ NotInProgress
      \/ /\ Put(path, "whole") /\ wsUploadFile' = FALSE
         /\ UNCHANGED <<wsUploadInProgress, wsUploadClientNum, wsUploadReceived>>
      \/ /\ wsUploadInProgress' = TRUE /\ wsUploadFile' = TRUE /\ wsUploadClientNum' = n
         /\ wsUploadReceived' = 0 /\ Put(path, "uploading") /\ wsUploadPath' = path
  BY DEF StartAccepted
<1>5. CASE Put(path, None) /\ NotInProgress
  <2>1. /\ wsUploadReceived' \in Nat /\ wsUploadInProgress' = FALSE
        /\ wsUploadFile' = FALSE /\ wsUploadClientNum' = None
    BY <1>5 DEF NotInProgress
  <2> QED BY <1>1, <1>5, <2>1
<1>6. CASE /\ Put(path, "whole") /\ wsUploadFile' = FALSE
           /\ UNCHANGED <<wsUploadInProgress, wsUploadClientNum, wsUploadReceived>>
  <2>1. /\ wsUploadReceived' \in Nat /\ wsUploadInProgress' = FALSE
        /\ wsUploadFile' = FALSE /\ wsUploadClientNum' = None
    BY <1>3, <1>6
  <2> QED BY <1>1, <1>6, <2>1
<1> QED BY <1>2, <1>4, <1>5, <1>6

(* A client that leaves while it owns no upload, or whose upload ends.          *)
LEMMA LeavesSafe ==
  ASSUME UploadSafe, NEW n \in Num, UNCHANGED <<running, card, upload>>,
         ~(n = wsUploadClientNum /\ wsUploadInProgress /\ wsUploadFile),
         SocketTypes, client' = [client EXCEPT ![n] = "none"]
  PROVE  UploadSafe'
BY DEF UploadSafe, FileTypes, BusyHasOwner, IncompleteIsOwned, upload, SocketTypes
-----------------------------------------------------------------------------
(* The callbacks.                                                              *)
ServerSafe == UploadSafe /\ Sockets /\ RequestTypes

(* START keeps the invariant: accepted, its sender owns the upload.             *)
LEMMA StartServed ==
  ASSUME ServerSafe, NEW n \in Num, NEW created \in BOOLEAN, OnStart(n, created)
  PROVE  ServerSafe'
<1>1. /\ Receives(n, "START") /\ running /\ UNCHANGED <<running, client, requests>>
  BY DEF OnStart, Receives
<1>2. /\ toServer' \in [Num -> Seq(Message)] /\ Head(toServer[n]) \in Message
      /\ Orderly' /\ client[n] # "none" /\ Head(toServer[n]).type = "START"
  BY <1>1, ReceivesTypes, ReceivesOrderly DEF ServerSafe, Sockets, Receives
<1>3. Head(toServer[n]).path \in Path
  BY <1>2 DEF Message, CLOSE
<1>4. CASE StartRejected(n)
  <2>1. toPage' \in [Num -> Seq(Text)] /\ UNCHANGED rest
    BY <1>1, <1>4, SendTypes DEF ServerSafe, Sockets, StartRejected, Text, rest
  <2>2. UploadSafe'
    BY <1>1, <2>1, RestKept DEF ServerSafe
  <2> QED BY <1>1, <1>2, <2>1, <2>2 DEF ServerSafe, Sockets, SocketTypes, RequestTypes, requests
<1>5. CASE ~wsUploadInProgress /\ StartAccepted(n, Head(toServer[n]).path, created)
  <2>1. UploadSafe'
    BY <1>1, <1>2, <1>3, <1>5, StartSafe DEF ServerSafe
  <2>2. \E text \in {"READY", "DONE", "ERROR"} : sendTXT(n, text)
    BY <1>5 DEF StartAccepted
  <2>3. toPage' \in [Num -> Seq(Text)]
    BY <2>2, SendTypes DEF ServerSafe, Sockets, Text
  <2> QED BY <1>1, <1>2, <2>1, <2>3 DEF ServerSafe, Sockets, SocketTypes, RequestTypes, requests
<1> QED BY <1>4, <1>5 DEF OnStart

(* Data keeps it: the upload goes on, is complete, or is taken back.            *)
LEMMA BinServed ==
  ASSUME ServerSafe, NEW n \in Num, NEW written \in BOOLEAN, OnBin(n, written)
  PROVE  ServerSafe'
<1>1. /\ Receives(n, "BIN") /\ running /\ UNCHANGED <<running, client, requests>>
  BY DEF OnBin, Receives
<1>2. /\ toServer' \in [Num -> Seq(Message)] /\ Head(toServer[n]) \in Message
      /\ Orderly' /\ Head(toServer[n]).type = "BIN"
  BY <1>1, ReceivesTypes, ReceivesOrderly DEF ServerSafe, Sockets, Receives
<1>3. Head(toServer[n]).length \in Nat
  BY <1>2 DEF Message, CLOSE
<1> DEFINE received == wsUploadReceived + Head(toServer[n]).length
<1>4. received \in Nat /\ running' \in BOOLEAN
  BY <1>1, <1>3 DEF ServerSafe, UploadSafe, FileTypes
<1> HIDE DEF received
<1>5. \/ sendTXT(n, "ERROR") /\ UNCHANGED <<card, upload>>
      \/ wsUploadInProgress /\ wsUploadFile /\ BinFails(n)
      \/ wsUploadInProgress /\ wsUploadFile /\ BinWritten(n, received)
  BY DEF OnBin, received
<1>6. CASE sendTXT(n, "ERROR") /\ UNCHANGED <<card, upload>>
  <2>1. toPage' \in [Num -> Seq(Text)] /\ UNCHANGED rest
    BY <1>1, <1>6, SendTypes DEF ServerSafe, Sockets, Text, rest
  <2>2. UploadSafe'
    BY <1>1, <2>1, RestKept DEF ServerSafe
  <2> QED BY <1>1, <1>2, <2>1, <2>2 DEF ServerSafe, Sockets, SocketTypes, RequestTypes, requests
<1>7. CASE wsUploadInProgress /\ wsUploadFile /\ BinFails(n)
  <2>1. toPage' \in [Num -> Seq(Text)]
    BY <1>7, SendTypes DEF ServerSafe, Sockets, Text, BinFails
  <2>2. UploadSafe'
    BY <1>4, <1>7, AbortSafe DEF ServerSafe, BinFails
  <2> QED BY <1>1, <1>2, <2>1, <2>2 DEF ServerSafe, Sockets, SocketTypes, RequestTypes, requests
<1>8. CASE wsUploadInProgress /\ wsUploadFile /\ BinWritten(n, received)
  <2>1. CASE received < Chunks[wsUploadPath]
    <3>1. /\ UNCHANGED <<card, wsUploadFile, wsUploadInProgress, wsUploadClientNum, toPage>>
          /\ wsUploadReceived' = received /\ wsUploadPath' = wsUploadPath
      BY <1>8, <2>1 DEF BinWritten
    <3>2. UploadSafe'
      BY <1>1, <1>4, <3>1
         DEF ServerSafe, UploadSafe, FileTypes, BusyHasOwner, IncompleteIsOwned
    <3> QED BY <1>1, <1>2, <3>1, <3>2
            DEF ServerSafe, Sockets, SocketTypes, RequestTypes, requests
  <2>2. CASE ~(received < Chunks[wsUploadPath])
    <3>1. /\ NotInProgress /\ sendTXT(n, "DONE") /\ wsUploadPath' = wsUploadPath
          /\ IF EntryIsOurs THEN Put(wsUploadPath, "whole") ELSE UNCHANGED card
      BY <1>8, <2>2 DEF BinWritten
    <3>2. toPage' \in [Num -> Seq(Text)]
      BY <3>1, SendTypes DEF ServerSafe, Sockets, Text
    <3>3. FileTypes' /\ BusyHasOwner'
      BY <1>1, <1>4, <3>1 DEF ServerSafe, UploadSafe, FileTypes, BusyHasOwner, NotInProgress, Put
    <3>4. IncompleteIsOwned'
      BY <3>1 DEF ServerSafe, UploadSafe, FileTypes, IncompleteIsOwned, Put, EntryIsOurs
    <3> QED BY <1>1, <1>2, <3>2, <3>3, <3>4
            DEF ServerSafe, UploadSafe, Sockets, SocketTypes, RequestTypes, requests
  <2> QED BY <2>1, <2>2
<1> QED BY <1>5, <1>6, <1>7, <1>8

(* The end of a connection keeps it: its upload goes, its slot is free.         *)
LEMMA DisconnectedServed ==
  ASSUME ServerSafe, NEW n \in Num, OnDisconnected(n)
  PROVE  ServerSafe'
<1>1. /\ Receives(n, "CLOSE") /\ client' = [client EXCEPT ![n] = "none"]
      /\ UNCHANGED <<running, toPage, requests>>
  BY DEF OnDisconnected
<1>2. Sockets' /\ RequestTypes'
  BY <1>1, ReceivesTypes, ReceivesOrderly
     DEF ServerSafe, Sockets, SocketTypes, RequestTypes, requests
<1>3. CASE n = wsUploadClientNum /\ wsUploadInProgress /\ wsUploadFile
  BY <1>1, <1>2, <1>3, AbortSafe DEF OnDisconnected, ServerSafe, UploadSafe, FileTypes
<1>4. CASE ~(n = wsUploadClientNum /\ wsUploadInProgress /\ wsUploadFile)
  BY <1>1, <1>2, <1>4, LeavesSafe DEF OnDisconnected, ServerSafe, Sockets
<1> QED BY <1>3, <1>4
-----------------------------------------------------------------------------
(* The requests, and the start and the stop of the server.                     *)

(* What a request does to a file that is not about to be incomplete.           *)
LEMMA CardSafe ==
  ASSUME UploadSafe, UNCHANGED <<running, upload, client>>,
         card' \in [Path -> {None, "whole", "uploading", "broken"}],
         \A p \in Path : card'[p] = "uploading" => card[p] = "uploading"
  PROVE  UploadSafe'
BY DEF UploadSafe, FileTypes, BusyHasOwner, IncompleteIsOwned, upload

(* A POST keeps it, also over the file of the upload in progress.               *)
LEMMA UploadServed ==
  ASSUME ServerSafe, NEW outcome \in Outcome, handleUpload(outcome)
  PROVE  ServerSafe'
<1>1. posts \in Seq(Post) /\ posts # << >>
  BY DEF ServerSafe, RequestTypes, handleUpload
<1>2. Head(posts) \in Post /\ posts' \in Seq(Post)
  BY <1>1, TailType DEF handleUpload
<1>3. Head(posts).path \in Path /\ Leaves(outcome) \in {None, "whole", "broken"}
  BY <1>2 DEF Post, Outcome, Leaves
<1>4. /\ card' = [card EXCEPT ![Head(posts).path] = Leaves(outcome)]
      /\ UNCHANGED <<running, upload, sockets>>
      /\ answer' \in {answer, "ok", "error"}
  BY DEF handleUpload, Put
<1>5. UploadSafe'
  BY <1>3, <1>4, CardSafe, UploadAssumption DEF ServerSafe, UploadSafe, FileTypes, sockets
<1> QED BY <1>2, <1>4, <1>5
        DEF ServerSafe, Sockets, SocketTypes, Orderly, RequestTypes, sockets

(* So do the removal and the renaming of a file.                                *)
LEMMA FilesServed ==
  ASSUME ServerSafe, NEW p \in Path, NEW q \in Path, handleDelete(p) \/ handleRename(p, q)
  PROVE  ServerSafe'
<1>1. UNCHANGED <<running, upload, sockets, requests>>
  BY DEF handleDelete, handleRename
<1>2. \/ card' = [card EXCEPT ![p] = None]
      \/ card' = [card EXCEPT ![p] = None,
                              ![q] = IF card[p] = "uploading" THEN "broken" ELSE card[p]]
  BY DEF handleDelete, handleRename, Put
<1>3. card \in [Path -> {None, "whole", "uploading", "broken"}] /\ None # "uploading"
  BY UploadAssumption DEF ServerSafe, UploadSafe, FileTypes
<1>4. /\ card' \in [Path -> {None, "whole", "uploading", "broken"}]
      /\ \A r \in Path : card'[r] = "uploading" => card[r] = "uploading"
  BY <1>2, <1>3
<1>5. UploadSafe'
  BY <1>1, <1>4, CardSafe DEF ServerSafe, sockets
<1> QED BY <1>1, <1>5
        DEF ServerSafe, Sockets, SocketTypes, Orderly, RequestTypes, sockets, requests

(* The start of the server finds no upload.                                     *)
LEMMA BeginSafe ==
  ASSUME ServerSafe, begin
  PROVE  ServerSafe'
<1>1. UploadSafe'
  BY DEF begin, ServerSafe, UploadSafe, FileTypes, BusyHasOwner, IncompleteIsOwned, upload, sockets
<1> QED BY <1>1
        DEF begin, ServerSafe, Sockets, SocketTypes, Orderly, RequestTypes, sockets, requests

(* Without a server no connection and no request is left.                       *)
LEMMA CutOffServed ==
  ASSUME ServerSafe, NEW told \in BOOLEAN, CutOff(told)
  PROVE  Sockets' /\ RequestTypes'
<1>1. SocketTypes'
  <2>1. \A n \in Num : Append(toPage[n], "CLOSE") \in Seq(Text)
    BY AppendType DEF ServerSafe, Sockets, SocketTypes, Text
  <2>2. << >> \in Seq(Message)
    BY EmptySeq
  <2> QED BY <2>1, <2>2 DEF CutOff, ServerSafe, Sockets, SocketTypes
<1>2. Orderly'
  <2>1. \A n \in Num : toServer'[n] = << >>
    BY DEF CutOff
  <2>2. \A n \in Num : 1 .. Len(toServer'[n]) = {}
    <3>1. Len(<< >>) = 0 /\ 1 .. 0 = {}
      BY EmptySeq
    <3> QED BY <2>1, <3>1
  <2> QED BY <2>1, <2>2 DEF Orderly
<1>3. RequestTypes'
  BY EmptySeq DEF CutOff, ServerSafe, RequestTypes
<1> QED BY <1>1, <1>2, <1>3 DEF Sockets

(* The stop of the server ends the upload.                                      *)
LEMMA StopSafe ==
  ASSUME ServerSafe, NEW told \in BOOLEAN, stop(told)
  PROVE  ServerSafe'
<1>1. running' = FALSE /\ CutOff(told)
  BY DEF stop
<1>2. UploadSafe'
  <2>1. CASE wsUploadInProgress /\ wsUploadFile
    BY <1>1, <2>1, AbortSafe DEF stop, ServerSafe
  <2>2. CASE ~(wsUploadInProgress /\ wsUploadFile)
    BY <1>1, <2>2 DEF stop, ServerSafe, UploadSafe, FileTypes, BusyHasOwner, IncompleteIsOwned,
                      upload
  <2> QED BY <2>1, <2>2
<1> QED BY <1>1, <1>2, CutOffServed DEF ServerSafe

(* So does a power failure: no file counts as being written after it.           *)
LEMMA PowerFailsSafe ==
  ASSUME ServerSafe, PowerFails
  PROVE  ServerSafe'
<1>1. /\ running' = FALSE /\ CutOff(FALSE) /\ NotInProgress /\ wsUploadPath' = None
      /\ card' = [p \in Path |-> IF card[p] = "uploading" THEN "broken" ELSE card[p]]
  BY DEF PowerFails
<1>2. /\ card' \in [Path -> {None, "whole", "uploading", "broken"}]
      /\ \A p \in Path : card'[p] # "uploading"
  BY <1>1 DEF ServerSafe, UploadSafe, FileTypes
<1>3. UploadSafe'
  BY <1>1, <1>2 DEF NotInProgress, UploadSafe, FileTypes, BusyHasOwner, IncompleteIsOwned
<1> QED BY <1>1, <1>3, CutOffServed DEF ServerSafe
-----------------------------------------------------------------------------
(* The page.                                                                   *)

(* A batch that is over.                                                       *)
LEMMA GivenUpTypes ==
  ASSUME Fresh, Idle, failures' = FALSE, operationCancelled' \in BOOLEAN,
         reported' \subseteq Path
  PROVE  PageTypeOK'
<1>1. << >> \in Seq(Path)
  BY EmptySeq
<1>2. /\ phase' = "idle" /\ files' = << >> /\ currentIndex' = 1 /\ useWebSocket' = TRUE
      /\ ws' = None /\ closing' = FALSE /\ uploadStarted' = FALSE /\ sent' = 0 /\ posted' = FALSE
  BY TransferAssumption DEF Fresh, Idle
<1>3. files' \in Seq(Path) /\ currentIndex' \in Nat \ {0}
  BY <1>1, <1>2
<1>4. Uploading' => currentIndex' \in DOMAIN files'
  BY <1>2 DEF Uploading
<1>5. /\ phase' \in {"idle", "ws", "http", "fallback", "gone"} /\ useWebSocket' \in BOOLEAN
      /\ ws' \in Num \union {None} /\ closing' \in BOOLEAN /\ uploadStarted' \in BOOLEAN
      /\ sent' \in Nat /\ posted' \in BOOLEAN /\ failures' \in BOOLEAN
  BY <1>2
<1> QED BY <1>3, <1>4, <1>5 DEF PageTypeOK

(* What uploadNextFile() and restoreAfterCancel() leave behind has its types.   *)
LEMMA NextFileTypes ==
  ASSUME PageTypeOK, Uploading, NEW done \in SUBSET Path, NEW failed \in BOOLEAN,
         NEW cancelled \in BOOLEAN, uploadNextFile(done, failed, cancelled)
  PROVE  PageTypeOK'
<1>1. /\ ws' = None /\ closing' = FALSE /\ uploadStarted' = FALSE /\ sent' = 0 /\ posted' = FALSE
  BY TransferAssumption DEF uploadNextFile, Fresh
<1>2. reported' \subseteq Path
  BY DEF uploadNextFile, PageTypeOK
<1>3. Len(files) \in Nat /\ DOMAIN files = 1 .. Len(files) /\ currentIndex \in 1 .. Len(files)
  BY LenProperties DEF PageTypeOK
<1>4. CASE currentIndex < Len(files)
  <2>1. /\ currentIndex' = currentIndex + 1 /\ failures' = failed /\ files' = files
        /\ phase' \in {"ws", "http"} /\ operationCancelled' = cancelled
        /\ useWebSocket' = useWebSocket
    BY <1>4 DEF uploadNextFile
  <2>2. currentIndex' \in Nat \ {0} /\ currentIndex' \in DOMAIN files'
    BY <1>3, <1>4, <2>1
  <2> QED BY <1>1, <1>2, <2>1, <2>2 DEF PageTypeOK
<1>5. CASE ~(currentIndex < Len(files))
  <2>1. /\ phase' = "idle" /\ files' = << >> /\ currentIndex' = 1 /\ useWebSocket' = TRUE
        /\ failures' = FALSE /\ operationCancelled' = (cancelled /\ failed)
    BY <1>5 DEF uploadNextFile, Idle
  <2>2. (cancelled /\ failed) \in BOOLEAN
    BY Zenon
  <2> QED BY <1>2, <1>5, <2>1, <2>2, GivenUpTypes DEF uploadNextFile, Idle
<1> QED BY <1>4, <1>5

(* The page after a file that is complete.                                      *)
LEMMA CompleteTypes ==
  ASSUME PageTypeOK, Uploading, onComplete
  PROVE  PageTypeOK'
<1>1. Current \in Path
  BY ElementOfSeq, LenProperties DEF PageTypeOK, Current
<1>2. {Current} \in SUBSET Path /\ failures \in BOOLEAN /\ operationCancelled \in BOOLEAN
  BY <1>1 DEF PageTypeOK
<1> QED BY <1>2, NextFileTypes DEF onComplete

(* The page after a file that failed.                                           *)
LEMMA ErrorTypes ==
  ASSUME PageTypeOK, Uploading, NEW network \in BOOLEAN, onError(network)
  PROVE  PageTypeOK'
<1>1. CASE network
  BY <1>1, GivenUpTypes DEF onError, PageTypeOK, Idle, Fresh
<1>2. CASE ~network
  <2>1. uploadNextFile({}, TRUE, operationCancelled) /\ operationCancelled \in BOOLEAN
    BY <1>2 DEF onError, PageTypeOK
  <2> QED BY <2>1, NextFileTypes
<1> QED BY <1>1, <1>2

(* The page after a cancelled batch.                                            *)
LEMMA CancelTypes ==
  ASSUME PageTypeOK, restoreAfterCancel
  PROVE  PageTypeOK'
BY GivenUpTypes DEF restoreAfterCancel, PageTypeOK

(* The page after a promise that was rejected.                                  *)
LEMMA RejectedTypes ==
  ASSUME PageTypeOK, Uploading, NEW failed \in BOOLEAN, NEW network \in BOOLEAN,
         Rejected(failed, network)
  PROVE  PageTypeOK'
<1>1. CASE restoreAfterCancel
  BY <1>1, CancelTypes
<1>2. CASE onError(network)
  BY <1>2, ErrorTypes
<1>3. CASE /\ phase' = "fallback" /\ useWebSocket' = FALSE
           /\ Fresh /\ UNCHANGED <<files, currentIndex, failures, operationCancelled, reported>>
  BY <1>3, TransferAssumption DEF PageTypeOK, Fresh, Uploading
<1> QED BY <1>1, <1>2, <1>3 DEF Rejected

(* The page after a request that failed.                                        *)
LEMMA RequestErrorTypes ==
  ASSUME PageTypeOK, phase \in {"http", "fallback"}, NEW network \in BOOLEAN,
         onRequestError(network)
  PROVE  PageTypeOK'
<1>1. Uploading
  BY DEF Uploading
<1> QED BY <1>1, ErrorTypes, RejectedTypes DEF onRequestError
-----------------------------------------------------------------------------
(* The page and the server together.                                           *)
Safe == ServerSafe /\ PageTypeOK

(* What the server and the page contribute is the invariant.                    *)
LEMMA SafeParts == Inv <=> Safe
BY Zenon, InvParts DEF Safe, ServerSafe

(* A step of the page that leaves the files alone and its own types in order    *)
(* does what it does with its connections and its request.                     *)
LEMMA PageStepSafe ==
  ASSUME Safe, PageTypeOK', UNCHANGED rest, Sockets', RequestTypes',
         \A m \in Num : client[m] # "none" => client'[m] # "none"
  PROVE  Safe'
BY RestKept DEF Safe, ServerSafe

(* Connections left alone stay as they should be.                               *)
LEMMA SocketsKept ==
  ASSUME Safe, UNCHANGED sockets
  PROVE  Sockets' /\ \A m \in Num : client[m] # "none" => client'[m] # "none"
BY DEF Safe, ServerSafe, Sockets, SocketTypes, Orderly, sockets

(* So do the requests.                                                          *)
LEMMA RequestsKept ==
  ASSUME Safe, UNCHANGED requests
  PROVE  RequestTypes'
BY DEF Safe, ServerSafe, RequestTypes, requests

(* The server does not care whether anybody waits for its answer.               *)
LEMMA BreakOffSafe ==
  ASSUME Safe, PageTypeOK', BreakOff
  PROVE  Safe'
<1>1. RequestTypes'
  BY BrokenTypes DEF Safe, ServerSafe, RequestTypes, BreakOff
<1>2. UNCHANGED rest /\ UNCHANGED sockets
  BY DEF BreakOff
<1> QED BY <1>1, <1>2, SocketsKept, PageStepSafe

(* What leaves the server alone keeps its part.                                 *)
LEMMA ServerUntouched ==
  ASSUME Safe, PageTypeOK', UNCHANGED serverVars
  PROVE  Safe'
<1>1. UNCHANGED rest /\ UNCHANGED sockets /\ UNCHANGED requests
  BY DEF serverVars, rest
<1> QED BY <1>1, SocketsKept, RequestsKept, PageStepSafe

(* What leaves the page alone keeps its part.                                   *)
LEMMA PageUntouched ==
  ASSUME Safe, ServerSafe', UNCHANGED pageVars
  PROVE  Safe'
BY DEF Safe, PageTypeOK, Uploading, pageVars, batch, transfer

(* A new connection of the page has its START under way.                        *)
LEMMA OpensSafe ==
  ASSUME Safe, NEW n \in Num, Opens(n)
  PROVE  Safe'
<1>1. /\ phase = "ws" /\ client[n] = "none" /\ ws' = n
      /\ UNCHANGED <<phase, batch, closing, uploadStarted, sent, posted,
                     operationCancelled, reported>>
      /\ client' = [client EXCEPT ![n] = "page"]
      /\ toServer' = [toServer EXCEPT ![n] = <<START(Current, TRUE)>>]
      /\ UNCHANGED <<rest, toPage, requests>>
  BY DEF Opens, onopen
<1>2. PageTypeOK'
  BY <1>1 DEF Safe, PageTypeOK, batch, Uploading
<1>3. START(Current, TRUE) \in Message /\ START(Current, TRUE) # CLOSE
  <2>1. Current \in Path
    BY <1>1, ElementOfSeq, LenProperties DEF Safe, PageTypeOK, Uploading, Current
  <2>2. START(Current, TRUE).type = "START" /\ CLOSE.type = "CLOSE"
    BY DEF START, CLOSE
  <2> QED BY <2>1, <2>2 DEF START, Message
<1> DEFINE m == START(Current, TRUE)
<1>4. m \in Message /\ m # CLOSE /\ toServer' = [toServer EXCEPT ![n] = <<m>>]
  BY <1>1, <1>3
<1> HIDE DEF m
<1>5. Sockets'
  <2>1. <<m>> \in Seq(Message) /\ \A i \in 1 .. Len(<<m>>) : <<m>>[i] # CLOSE
    BY <1>4, SingletonType
  <2>2. toServer'[n] = <<m>> /\ client'[n] = "page"
    BY <1>1, <1>4 DEF Safe, ServerSafe, Sockets, SocketTypes
  <2>3. ASSUME NEW k \in Num \ {n}
        PROVE  toServer'[k] = toServer[k] /\ client'[k] = client[k]
    BY <1>1, <1>4 DEF Safe, ServerSafe, Sockets, SocketTypes
  <2>4. Orderly'
    BY <2>1, <2>2, <2>3 DEF Safe, ServerSafe, Sockets, Orderly
  <2>5. SocketTypes'
    BY <1>1, <1>4, <2>1 DEF Safe, ServerSafe, Sockets, SocketTypes
  <2> QED BY <2>4, <2>5 DEF Sockets
<1>6. \A k \in Num : client[k] # "none" => client'[k] # "none"
  BY <1>1 DEF Safe, ServerSafe, Sockets, SocketTypes
<1> QED BY <1>1, <1>2, <1>5, <1>6, RequestsKept, PageStepSafe

(* What the page hears changes its own end only.                                *)
LEMMA HearsSafe ==
  ASSUME Safe, HearsReady \/ HearsEnd
  PROVE  Safe'
<1>1. phase = "ws" /\ ws \in Num /\ Uploading /\ PageTypeOK /\ Sockets
  BY TransferAssumption
     DEF HearsReady, HearsEnd, Hears, Uploading, Safe, ServerSafe, PageTypeOK
<1>2. CASE HearsReady
  <2>1. /\ onReady /\ toPage[ws] # << >> /\ toPage' = [toPage EXCEPT ![ws] = Tail(@)]
        /\ UNCHANGED <<rest, client, toServer, requests>>
    BY <1>2 DEF HearsReady, Hears
  <2>2. PageTypeOK'
    BY <1>1, <2>1 DEF PageTypeOK, onReady, Uploading, batch
  <2>3. Tail(toPage[ws]) \in Seq(Text)
    BY <1>1, <2>1, TailType DEF Sockets, SocketTypes
  <2>4. Sockets'
    BY <1>1, <2>1, <2>3 DEF Sockets, SocketTypes, Orderly
  <2> QED BY <2>1, <2>2, <2>4, RequestsKept, PageStepSafe
<1>3. CASE HearsEnd
  <2>1. /\ onDone \/ onErrorMessage \/ onclose \/ onerror
        /\ CloseEnd(ws) /\ UNCHANGED <<rest, requests>>
    BY <1>3 DEF HearsEnd
  <2>2. PageTypeOK'
    <3>1. CASE onDone
      BY <1>1, <3>1, CompleteTypes DEF onDone
    <3>2. CASE onErrorMessage \/ onclose
      BY <1>1, <3>2, RejectedTypes DEF onErrorMessage, onclose
    <3>3. CASE onerror
      BY <1>1, <3>3, RejectedTypes DEF onerror, PageTypeOK
    <3> QED BY <2>1, <3>1, <3>2, <3>3
  <2> QED BY <1>1, <2>1, <2>2, CloseTypes, RequestsKept, PageStepSafe
<1> QED BY <1>2, <1>3

(* Data goes behind what is under way, unless the connection has ended.         *)
LEMMA SendsSafe ==
  ASSUME Safe, Sends
  PROVE  Safe'
<1>1. /\ phase = "ws" /\ ws \in Num /\ SendChunk(Chunks[Current])
      /\ toServer' = IF client[ws] = "page" THEN [toServer EXCEPT ![ws] = Append(@, BIN(1))]
                     ELSE toServer
      /\ toPage' \in {toPage, [toPage EXCEPT ![ws] = IF @ = << >> THEN <<"LOST">> ELSE @]}
      /\ UNCHANGED <<rest, client, requests>>
  BY TransferAssumption DEF Sends, Safe, PageTypeOK
<1>2. PageTypeOK'
  BY <1>1 DEF Safe, PageTypeOK, SendChunk, Uploading, batch
<1> DEFINE m == BIN(1)
<1>3. m \in Message /\ m # CLOSE
  <2>1. BIN(1).type = "BIN" /\ CLOSE.type = "CLOSE"
    BY DEF BIN, CLOSE
  <2> QED BY <2>1 DEF BIN, Message
<1>4. toServer' = IF client[ws] = "page" THEN [toServer EXCEPT ![ws] = Append(toServer[ws], m)]
                  ELSE toServer
  BY <1>1
<1> HIDE DEF m
<1>5. Sockets'
  <2> <<"LOST">> \in Seq(Text)
    BY SingletonType DEF Text
  <2>1. toPage' \in [Num -> Seq(Text)]
    BY <1>1 DEF Safe, ServerSafe, Sockets, SocketTypes
  <2>2. CASE client[ws] = "page"
    <3>1. toServer[ws] \in Seq(Message) /\ Sockets
      BY <1>1 DEF Safe, ServerSafe, Sockets, SocketTypes
    <3>2. Orderly' /\ toServer' \in [Num -> Seq(Message)]
      BY <1>1, <1>3, <1>4, <2>2, <3>1, SendsOrderly
    <3> QED BY <1>1, <2>1, <3>1, <3>2 DEF Sockets, SocketTypes
  <2>3. CASE client[ws] # "page"
    BY <1>1, <1>4, <2>1, <2>3 DEF Safe, ServerSafe, Sockets, SocketTypes, Orderly
  <2> QED BY <2>2, <2>3
<1>6. \A n \in Num : client[n] # "none" => client'[n] # "none"
  BY <1>1
<1> QED BY <1>1, <1>2, <1>5, <1>6, RequestsKept, PageStepSafe

(* A request of the page joins those that wait.                                 *)
LEMMA PostsSafe ==
  ASSUME Safe, Posts
  PROVE  Safe'
<1>1. /\ SendRequest /\ posts' = Append(posts, [path |-> Current, broken |-> FALSE])
      /\ answer' = None /\ UNCHANGED rest /\ UNCHANGED sockets
  BY DEF Posts
<1>2. PageTypeOK'
  BY <1>1 DEF Safe, PageTypeOK, SendRequest, Uploading, batch
<1>3. Current \in Path
  BY <1>1, ElementOfSeq, LenProperties DEF SendRequest, Safe, PageTypeOK, Uploading, Current
<1>4. [path |-> Current, broken |-> FALSE] \in Post
  BY <1>3 DEF Post
<1>5. RequestTypes'
  BY <1>1, <1>4, AppendType DEF Safe, ServerSafe, RequestTypes
<1> QED BY <1>1, <1>2, <1>5, SocketsKept, PageStepSafe

(* The end of a request, however it comes.                                      *)
LEMMA RequestEndsSafe ==
  ASSUME Safe, RequestFails \/ RequestLost \/ Answered \/ (CancelRequest /\ BreakOff)
  PROVE  Safe'
<1>1. BreakOff /\ PageTypeOK /\ answer \in {None, "ok", "error", "lost"}
  BY DEF RequestFails, RequestLost, Answered, Safe, ServerSafe, RequestTypes
<1>2. PageTypeOK'
  <2>1. CASE RequestFails \/ RequestLost
    BY <1>1, <2>1, RequestErrorTypes DEF RequestFails, RequestLost
  <2>2. CASE Answered
    <3>1. phase \in {"http", "fallback"} /\ Uploading
      BY <2>2 DEF Answered, Uploading
    <3>2. CASE onComplete
      BY <1>1, <3>1, <3>2, CompleteTypes
    <3>3. CASE onRequestError(answer = "lost")
      <4>1. (answer = "lost") \in BOOLEAN
        OBVIOUS
      <4> QED BY <1>1, <3>1, <3>3, <4>1, RequestErrorTypes
    <3> QED BY <2>2, <3>2, <3>3 DEF Answered
  <2>3. CASE CancelRequest
    <3>1. Uploading /\ (restoreAfterCancel \/ uploadNextFile({}, TRUE, TRUE))
      BY <2>3 DEF CancelRequest, Uploading
    <3>2. {} \in SUBSET Path
      OBVIOUS
    <3> QED BY <1>1, <3>1, <3>2, CancelTypes, NextFileTypes
  <2> QED BY <2>1, <2>2, <2>3
<1> QED BY <1>1, <1>2, BreakOffSafe

(* The end of a WebSocket, however it comes.                                    *)
LEMMA WebSocketEndsSafe ==
  ASSUME Safe, OpenFails \/ CancelDone \/ CancelsWebSocket
  PROVE  Safe'
<1>1. phase = "ws" /\ Uploading /\ PageTypeOK /\ Sockets
  BY DEF OpenFails, CancelDone, CancelsWebSocket, CancelWebSocket, Uploading, Safe, ServerSafe
<1>2. CASE OpenFails
  <2>1. PageTypeOK' /\ UNCHANGED serverVars
    BY <1>1, <1>2, RejectedTypes DEF OpenFails, onerror, PageTypeOK
  <2> QED BY <2>1, ServerUntouched
<1>3. CASE CancelDone
  <2>1. PageTypeOK' /\ UNCHANGED serverVars
    BY <1>1, <1>3, RejectedTypes DEF CancelDone, onclose
  <2> QED BY <2>1, ServerUntouched
<1>4. CASE CancelsWebSocket
  <2>1. PageTypeOK'
    BY <1>1, <1>4 DEF CancelsWebSocket, CancelWebSocket, PageTypeOK, Uploading, batch
  <2>2. CASE ws = None
    BY <1>4, <2>1, <2>2, ServerUntouched DEF CancelsWebSocket
  <2>3. CASE ws # None
    <3>1. ws \in Num /\ CloseEnd(ws) /\ UNCHANGED <<rest, requests>>
      BY <1>1, <1>4, <2>3, TransferAssumption DEF CancelsWebSocket, PageTypeOK
    <3> QED BY <1>1, <2>1, <3>1, CloseTypes, RequestsKept, PageStepSafe
  <2> QED BY <2>2, <2>3
<1> QED BY <1>2, <1>3, <1>4

(* A new batch is a list of files, the first of which is current.               *)
LEMMA ChosenSafe ==
  ASSUME Safe, NEW chosen \in Batches, Browser(uploadFile(chosen))
  PROVE  Safe'
<1>1. chosen \in Seq(Path) /\ chosen # << >> /\ 1 \in DOMAIN chosen
  BY TransferAssumption, EmptySeq, LenProperties
<1>2. uploadFile(chosen) /\ UNCHANGED serverVars
  BY DEF Browser
<1>3. /\ ws' = None /\ closing' = FALSE /\ uploadStarted' = FALSE /\ sent' = 0 /\ posted' = FALSE
  BY <1>2, TransferAssumption DEF uploadFile, Fresh
<1>4. /\ phase' = "ws" /\ files' = chosen /\ currentIndex' = 1 /\ useWebSocket' = TRUE
      /\ failures' = FALSE /\ reported' \subseteq reported
      /\ operationCancelled' = operationCancelled
  BY <1>2 DEF uploadFile
<1>5. files' \in Seq(Path) /\ currentIndex' \in Nat \ {0} /\ currentIndex' \in DOMAIN files'
  BY <1>1, <1>4
<1>6. operationCancelled' \in BOOLEAN /\ reported' \subseteq Path
  BY <1>4 DEF Safe, PageTypeOK
<1>7. PageTypeOK'
  BY <1>3, <1>4, <1>5, <1>6 DEF PageTypeOK
<1> QED BY <1>2, <1>7, ServerUntouched

(* The laptop may fall asleep at any time.                                      *)
LEMMA VanishesSafe ==
  ASSUME Safe, Vanishes
  PROVE  Safe'
<1>1. PageTypeOK'
  BY DEF Vanishes, PageLeaves, Safe, PageTypeOK, Uploading, batch, transfer
<1>2. RequestTypes'
  BY BrokenTypes DEF Vanishes, Safe, ServerSafe, RequestTypes
<1>3. UNCHANGED rest /\ UNCHANGED sockets
  BY DEF Vanishes
<1> QED BY <1>1, <1>2, <1>3, SocketsKept, PageStepSafe

(* A lost connection ends what is under way on it.                              *)
LEMMA LinkLostSafe ==
  ASSUME Safe, NEW n \in Num, NEW kept \in BOOLEAN, LinkLost(n, kept)
  PROVE  Safe'
<1> DEFINE s == IF kept THEN toServer[n] ELSE << >>
           t == IF kept THEN toPage[n] ELSE << >>
<1>1. /\ client[n] \in {"page", "tool", "cut"} /\ UNCHANGED pageVars /\ UNCHANGED rest
      /\ UNCHANGED requests
      /\ toPage' = IF client[n] = "page" THEN [toPage EXCEPT ![n] = Append(t, "LOST")]
                   ELSE toPage
      /\ client' = [client EXCEPT ![n] = "closing"]
      /\ toServer' = [toServer EXCEPT ![n] = Append(s, CLOSE)]
  BY DEF LinkLost, rest
<1>2. /\ s \in Seq(Message) /\ s \in {toServer[n], << >>} /\ CLOSE \in Message
      /\ t \in Seq(Text) /\ "LOST" \in Text
  BY EmptySeq DEF Safe, ServerSafe, Sockets, SocketTypes, Message, Text
<1> HIDE DEF s, t
<1>3. Orderly' /\ toServer' \in [Num -> Seq(Message)]
  BY <1>1, <1>2, SendsOrderly DEF Safe, ServerSafe
<1>4. Append(t, "LOST") \in Seq(Text)
  BY <1>2, AppendType
<1>5. Sockets' /\ \A m \in Num : client[m] # "none" => client'[m] # "none"
  BY <1>1, <1>3, <1>4 DEF Safe, ServerSafe, Sockets, SocketTypes
<1>6. PageTypeOK'
  BY <1>1 DEF Safe, PageTypeOK, Uploading, pageVars, batch, transfer
<1> QED BY <1>1, <1>5, <1>6, RequestsKept, PageStepSafe

(* A link that dies has nothing under way, or its end.                          *)
LEMMA LinkCutSafe ==
  ASSUME Safe, NEW n \in Num, LinkCut(n)
  PROVE  Safe'
<1>1. /\ client[n] = "page" /\ toServer[n] = << >> /\ toPage' = [toPage EXCEPT ![n] = << >>]
      /\ UNCHANGED pageVars /\ UNCHANGED rest /\ UNCHANGED requests
      /\ \/ client' = [client EXCEPT ![n] = "cut"] /\ UNCHANGED toServer
         \/ client' = [client EXCEPT ![n] = "closing"] /\ toServer' = [toServer EXCEPT ![n] = <<CLOSE>>]
  BY DEF LinkCut, rest
<1>2. /\ << >> \in Seq(Text) /\ <<CLOSE>> \in Seq(Message) /\ Len(<< >>) = 0
      /\ 1 .. 0 = {} /\ Len(<<CLOSE>>) = 1
  BY EmptySeq, SingletonType DEF Message
<1>3. SocketTypes' /\ \A m \in Num : client[m] # "none" => client'[m] # "none"
  BY <1>1, <1>2 DEF Safe, ServerSafe, Sockets, SocketTypes
<1>4. Orderly'
  <2>1. ASSUME NEW k \in Num \ {n}
        PROVE  toServer'[k] = toServer[k] /\ client'[k] = client[k]
    BY <1>1 DEF Safe, ServerSafe, Sockets, SocketTypes
  <2>2. \/ client'[n] = "cut" /\ toServer'[n] = << >>
        \/ client'[n] = "closing" /\ toServer'[n] = <<CLOSE>>
    BY <1>1 DEF Safe, ServerSafe, Sockets, SocketTypes
  <2>3. /\ client'[n] # "none"
        /\ \A i \in 1 .. Len(toServer'[n]) :
             toServer'[n][i] = CLOSE => i = Len(toServer'[n]) /\ client'[n] = "closing"
    <3>1. CASE client'[n] = "cut" /\ toServer'[n] = << >>
      <4>1. 1 .. Len(toServer'[n]) = {}
        BY <1>2, <3>1
      <4> QED BY <3>1, <4>1
    <3>2. CASE client'[n] = "closing" /\ toServer'[n] = <<CLOSE>>
      BY <1>2, <3>2
    <3> QED BY <2>2, <3>1, <3>2
  <2> QED BY <2>1, <2>3 DEF Safe, ServerSafe, Sockets, Orderly
<1>5. PageTypeOK'
  BY <1>1 DEF Safe, PageTypeOK, Uploading, pageVars, batch, transfer
<1> QED BY <1>1, <1>3, <1>4, <1>5, RequestsKept, PageStepSafe DEF Sockets

(* So does a request that nobody hears of.                                      *)
LEMMA RequestCutSafe ==
  ASSUME Safe, RequestCut
  PROVE  Safe'
<1>1. UNCHANGED rest /\ UNCHANGED sockets /\ UNCHANGED pageVars
  BY DEF RequestCut
<1>2. RequestTypes'
  BY BrokenTypes DEF RequestCut, Safe, ServerSafe, RequestTypes
<1>3. PageTypeOK'
  BY <1>1 DEF Safe, PageTypeOK, Uploading, pageVars, batch, transfer
<1> QED BY <1>1, <1>2, <1>3, SocketsKept, PageStepSafe

(* Another client, whatever it sends, is one more connection.                   *)
LEMMA ToolSafe ==
  ASSUME Safe, NEW n \in Num, NEW message \in ToolMessage,
         ToolOpens(n) \/ ToolSends(n, message)
  PROVE  Safe'
<1>1. UNCHANGED pageVars /\ UNCHANGED rest /\ UNCHANGED requests /\ UNCHANGED toPage
  BY DEF ToolOpens, ToolSends, Device, rest
<1>2. PageTypeOK'
  BY <1>1 DEF Safe, PageTypeOK, Uploading, pageVars, batch, transfer
<1>3. CASE ToolOpens(n)
  <2>1. /\ client' = [client EXCEPT ![n] = "tool"] /\ UNCHANGED toServer /\ client[n] = "none"
    BY <1>3 DEF ToolOpens, Device
  <2>2. SocketTypes' /\ \A m \in Num : client[m] # "none" => client'[m] # "none"
    BY <1>1, <2>1 DEF Safe, ServerSafe, Sockets, SocketTypes
  <2>3. 1 .. Len(toServer[n]) = {}
    <3>1. toServer[n] = << >> /\ Len(<< >>) = 0 /\ 1 .. 0 = {}
      BY <2>1, EmptySeq DEF Safe, ServerSafe, Sockets, Orderly
    <3> QED BY <3>1
  <2>4. Orderly'
    BY <2>1, <2>2, <2>3 DEF Safe, ServerSafe, Sockets, SocketTypes, Orderly
  <2> QED BY <1>1, <1>2, <2>2, <2>4, RequestsKept, PageStepSafe DEF Sockets
<1>4. CASE ToolSends(n, message)
  <2>1. /\ client[n] = "tool" /\ toServer[n] = << >>
        /\ toServer' = [toServer EXCEPT ![n] = <<message>>]
        /\ client' = [client EXCEPT ![n] = IF message = CLOSE THEN "closing" ELSE @]
    BY <1>4 DEF ToolSends
  <2>2. message \in Message
    <3>1. \/ \E p \in Path, valid \in BOOLEAN : message = START(p, valid)
          \/ message \in {BIN(1), BIN(2)} \/ message = CLOSE
      BY UploadAssumption DEF ToolMessage
    <3>2. CASE \E p \in Path, valid \in BOOLEAN : message = START(p, valid)
      BY <3>2 DEF Message, START
    <3>3. CASE message \in {BIN(1), BIN(2)} \/ message = CLOSE
      BY <3>3 DEF Message, BIN
    <3> QED BY <3>1, <3>2, <3>3
  <2>3. /\ <<message>> \in Seq(Message) /\ Len(<<message>>) = 1
        /\ \A i \in 1 .. Len(<<message>>) : <<message>>[i] = message
    BY <2>2, SingletonType
  <2>4. SocketTypes' /\ \A m \in Num : client[m] # "none" => client'[m] # "none"
    BY <1>1, <2>1, <2>3 DEF Safe, ServerSafe, Sockets, SocketTypes
  <2>5. /\ client'[n] # "none" /\ (message = CLOSE => client'[n] = "closing")
        /\ toServer'[n] = <<message>>
    BY <2>1 DEF Safe, ServerSafe, Sockets, SocketTypes
  <2>6. ASSUME NEW k \in Num \ {n}
        PROVE  toServer'[k] = toServer[k] /\ client'[k] = client[k]
    BY <2>1 DEF Safe, ServerSafe, Sockets, SocketTypes
  <2>7. Orderly'
    <3>1. \A i \in 1 .. Len(toServer'[n]) :
            toServer'[n][i] = CLOSE => i = Len(toServer'[n]) /\ client'[n] = "closing"
      BY <2>3, <2>5
    <3> QED BY <2>5, <2>6, <3>1 DEF Safe, ServerSafe, Sockets, Orderly
  <2> QED BY <1>1, <1>2, <2>4, <2>7, RequestsKept, PageStepSafe DEF Sockets
<1> QED BY <1>3, <1>4
-----------------------------------------------------------------------------
(* The invariant is inductive.                                                 *)
LEMMA InitSafe == Init => Safe
<1> SUFFICES ASSUME Init PROVE Safe
  OBVIOUS
<1>1. << >> \in Seq(Message) /\ << >> \in Seq(Text) /\ << >> \in Seq(Post) /\ << >> \in Seq(Path)
      /\ 1 .. Len(<< >>) = {}
  <2>1. Len(<< >>) = 0 /\ 1 .. 0 = {}
    BY EmptySeq
  <2> QED BY <2>1, EmptySeq
<1>2. UploadSafe
  BY UploadAssumption
     DEF Init, ServerInit, UploadSafe, FileTypes, BusyHasOwner, IncompleteIsOwned
<1>3. Sockets /\ RequestTypes
  BY <1>1 DEF Init, ServerInit, Sockets, SocketTypes, Orderly, RequestTypes
<1>4. PageTypeOK
  <2>1. /\ files \in Seq(Path) /\ currentIndex \in Nat \ {0} /\ ws = None /\ reported \subseteq Path
        /\ sent \in Nat /\ ~Uploading
    BY <1>1, TransferAssumption DEF Init, PageInit, Uploading
  <2> QED BY <2>1 DEF Init, PageInit, PageTypeOK
<1> QED BY <1>2, <1>3, <1>4 DEF Safe, ServerSafe

(* Every step keeps the invariant.                                              *)
LEMMA NextSafe == Safe /\ [Next]_vars => Safe'
<1> SUFFICES ASSUME Safe, [Next]_vars PROVE Safe'
  OBVIOUS
<1> USE DEF Safe
<1>1. ASSUME NEW n \in Num, Callback(n) PROVE Safe'
  BY <1>1, StartServed, BinServed, DisconnectedServed, PageUntouched DEF Callback, Device
<1>2. CASE Serve
  BY <1>2, UploadServed, PageUntouched DEF Serve, Device
<1>3. CASE PageGoesOn
  BY <1>3, OpensSafe, HearsSafe, SendsSafe, PostsSafe, RequestEndsSafe, WebSocketEndsSafe
     DEF PageGoesOn
<1>4. ASSUME NEW chosen \in Batches, Browser(uploadFile(chosen)) PROVE Safe'
  BY <1>4, ChosenSafe
<1>5. CASE Cancels
  BY <1>5, RequestEndsSafe, WebSocketEndsSafe DEF Cancels
<1>6. ASSUME NEW n \in Num, NEW kept \in BOOLEAN, LinkLost(n, kept) PROVE Safe'
  BY <1>6, LinkLostSafe
<1>7. CASE (\E n \in Num : LinkCut(n)) \/ RequestLost \/ RequestCut \/ Vanishes
  BY <1>7, LinkCutSafe, RequestEndsSafe, RequestCutSafe, VanishesSafe
<1>8. CASE Others
  <2>1. ASSUME NEW n \in Num, ToolOpens(n) PROVE Safe'
    <3>1. CLOSE \in ToolMessage
      BY DEF ToolMessage
    <3> QED BY <2>1, <3>1, ToolSafe
  <2>2. ASSUME NEW n \in Num, NEW message \in ToolMessage, ToolSends(n, message) PROVE Safe'
    BY <2>2, ToolSafe
  <2>3. ASSUME NEW p \in Path, NEW q \in Path, Device(handleDelete(p) \/ handleRename(p, q))
        PROVE  Safe'
    BY <2>3, FilesServed, PageUntouched DEF Device
  <2> QED BY <1>8, <2>1, <2>2, <2>3 DEF Others
<1>9. CASE Device(begin \/ PowerFails \/ \E told \in BOOLEAN : stop(told))
  BY <1>9, BeginSafe, PowerFailsSafe, StopSafe, PageUntouched DEF Device
<1>10. CASE UNCHANGED vars
  BY <1>10, ServerUntouched DEF vars, PageTypeOK, Uploading, pageVars, batch, transfer
<1> QED BY <1>1, <1>2, <1>3, <1>4, <1>5, <1>6, <1>7, <1>8, <1>9, <1>10 DEF Next

(* The same, for the invariant as it is stated.                                 *)
LEMMA InvStep == Inv /\ [Next]_vars => Inv'
<1> SUFFICES ASSUME Inv, [Next]_vars PROVE Inv'
  OBVIOUS
<1>1. Safe'
  BY SafeParts, NextSafe
<1>2. Safe' => Inv'
  <2>1. TypeOK' /\ BusyHasOwner' /\ IncompleteIsOwned' /\ Orderly'
    BY Zenon, <1>1 DEF Safe, ServerSafe, UploadSafe, Sockets, RequestTypes, PageTypeOK,
                       TypeOK, ServerTypeOK, FileTypes, SocketTypes, Text, Post
  <2> QED BY <2>1 DEF Inv
<1> QED BY <1>1, <1>2

(* Every reachable state satisfies the invariant, whatever the clients, their    *)
(* connections and the files are.                                              *)
THEOREM Invariant == Spec => []Inv
<1>1. Init => Inv
  BY InitSafe, SafeParts
<1> QED BY <1>1, InvStep, PTL DEF Spec

(* Both ends of a transfer keep their types; the page never runs off its list.  *)
THEOREM TypesHold == Spec => []TypeOK
<1>1. Inv => TypeOK
  BY DEF Inv
<1> QED BY <1>1, Invariant, PTL

(* Nothing of an upload outlives it, but what a power failure leaves: an upload  *)
(* in progress has an open handle, a running server and a client that is there,  *)
(* and no other file is being written.                                         *)
THEOREM OwnedHolds == Spec => []OwnedUpload
<1>1. Inv => OwnedUpload
  BY DEF Inv, OwnedUpload
<1> QED BY <1>1, Invariant, PTL
-----------------------------------------------------------------------------
(* What a step may do to an upload, and to a whole file.                       *)

(* Everything but the callbacks, the requests and the end of the server leaves   *)
(* them alone.                                                                 *)
LEMMA OthersKeep ==
  ASSUME Next
  PROVE  \/ UNCHANGED <<card, upload>>
         \/ \E n \in Num : Callback(n)
         \/ Serve
         \/ \E p, q \in Path : Device(handleDelete(p) \/ handleRename(p, q))
         \/ PowerFails \/ \E told \in BOOLEAN : stop(told)
<1>1. ASSUME PageGoesOn PROVE UNCHANGED rest
  BY <1>1 DEF PageGoesOn, Opens, OpenFails, HearsReady, HearsEnd, Sends, Posts, RequestFails,
              Answered, BreakOff, CancelDone, serverVars, rest
<1>2. ASSUME Cancels PROVE UNCHANGED rest
  BY <1>2 DEF Cancels, CancelsWebSocket, BreakOff, serverVars, rest
<1>3. ASSUME \/ \E chosen \in Batches : Browser(uploadFile(chosen))
             \/ \E n \in Num, kept \in BOOLEAN : LinkLost(n, kept)
             \/ \E n \in Num : LinkCut(n)
             \/ RequestLost \/ RequestCut \/ Vanishes
      PROVE  UNCHANGED rest
  BY <1>3 DEF Browser, LinkLost, LinkCut, RequestLost, BreakOff, RequestCut, Vanishes,
              serverVars, rest
<1>4. ASSUME NEW n \in Num, ToolOpens(n) \/ \E message \in ToolMessage : ToolSends(n, message)
      PROVE  UNCHANGED rest
  BY <1>4 DEF ToolOpens, ToolSends, Device, rest
<1>5. ASSUME Device(begin) PROVE UNCHANGED <<card, upload>>
  BY <1>5 DEF Device, begin
<1>6. UNCHANGED rest => UNCHANGED <<card, upload>>
  BY DEF rest
<1>7. Device(begin \/ PowerFails \/ \E told \in BOOLEAN : stop(told))
        => Device(begin) \/ PowerFails \/ \E told \in BOOLEAN : stop(told)
  BY DEF Device
<1> QED BY <1>1, <1>2, <1>3, <1>4, <1>5, <1>6, <1>7 DEF Next, Others

OwnerEnds ==
  wsUploadInProgress
    /\ <<wsUploadInProgress, wsUploadClientNum, wsUploadPath>>'
         # <<wsUploadInProgress, wsUploadClientNum, wsUploadPath>>
  => \/ ~running'
     \/ Len(toServer'[wsUploadClientNum]) < Len(toServer[wsUploadClientNum])

(* Every step leaves the upload alone but its owner's and the server's end.     *)
LEMMA OwnerEndsStep == Inv /\ [Next]_vars => OwnerEnds
<1> SUFFICES ASSUME Inv, [Next]_vars, wsUploadInProgress PROVE OwnerEnds
  BY DEF OwnerEnds
<1>1. SocketTypes
  BY InvParts DEF Sockets
<1>2. CASE UNCHANGED <<card, upload>>
  BY <1>2 DEF OwnerEnds, upload
<1>3. ASSUME NEW n \in Num, Callback(n)
      PROVE  OwnerEnds
  <2>1. CASE UNCHANGED upload
    BY <2>1 DEF OwnerEnds, upload
  <2>2. CASE ~UNCHANGED upload
    <3>1. /\ n = wsUploadClientNum
          /\ \E type : Receives(n, type)
      BY <1>3, <2>2 DEF Callback, Device, OnStart, StartRejected, OnBin, OnDisconnected
    <3> QED BY <1>1, <3>1, ReceivesTypes DEF OwnerEnds
  <2> QED BY <2>1, <2>2
<1>4. CASE Serve \/ \E p, q \in Path : Device(handleDelete(p) \/ handleRename(p, q))
  BY <1>4 DEF Serve, Device, handleUpload, handleDelete, handleRename, OwnerEnds, upload
<1>5. CASE PowerFails \/ \E told \in BOOLEAN : stop(told)
  BY <1>5 DEF PowerFails, stop, OwnerEnds
<1>6. CASE UNCHANGED vars
  BY <1>6 DEF vars, serverVars, upload, OwnerEnds
<1> QED BY <1>2, <1>3, <1>4, <1>5, <1>6, OthersKeep

(* Nobody but its own client, or the stop of the server, ends an upload.        *)
THEOREM EndsByOwnerHolds == Spec => EndsByOwner
<1>1. Spec => []Inv /\ [][Next]_vars
  BY Invariant, PTL DEF Spec
<1>2. [][Next]_vars /\ []Inv => [][OwnerEnds]_vars
  BY OwnerEndsStep, PTL
<1> QED BY <1>1, <1>2 DEF EndsByOwner, OwnerEnds

FilesStay ==
  \A p \in Path :
    card[p] = "whole" /\ card'[p] # "whole"
      => Names(p) \/ (wsUploadInProgress /\ wsUploadPath = p)

(* What is put under a name changes no other file.                             *)
LEMMA PutOne ==
  ASSUME FileTypes, NEW path, NEW file, Put(path, file), NEW p \in Path, card'[p] # card[p]
  PROVE  p = path
BY DEF FileTypes, Put

(* Every step leaves whole files alone but those it names.                      *)
LEMMA FilesStayStep == Inv /\ [Next]_vars => FilesStay
<1> SUFFICES ASSUME Inv, [Next]_vars, NEW p \in Path, card[p] = "whole", card'[p] # "whole"
             PROVE  Names(p) \/ (wsUploadInProgress /\ wsUploadPath = p)
  BY DEF FilesStay
<1>1. FileTypes /\ SocketTypes /\ card' # card
  BY InvParts DEF UploadSafe, Sockets
<1>2. ASSUME NEW n \in Num, Callback(n)
      PROVE  Names(p) \/ (wsUploadInProgress /\ wsUploadPath = p)
  <2>1. ASSUME NEW created \in BOOLEAN, OnStart(n, created)
        PROVE  Names(p)
    <3>1. /\ Receives(n, "START") /\ StartAccepted(n, Head(toServer[n]).path, created)
      BY <1>1, <2>1 DEF OnStart, StartRejected
    <3>2. \E file : Put(Head(toServer[n]).path, file)
      BY <3>1 DEF StartAccepted
    <3>3. p = Head(toServer[n]).path
      BY <1>1, <3>2, PutOne
    <3>4. toServer'[n] = Tail(toServer[n])
      BY <1>1, <3>1 DEF Receives, SocketTypes
    <3> QED BY <3>1, <3>3, <3>4 DEF Receives, Names
  <2>2. ASSUME NEW written \in BOOLEAN, OnBin(n, written)
        PROVE  wsUploadInProgress /\ wsUploadPath = p
    <3>1. wsUploadInProgress /\ \E file : Put(wsUploadPath, file)
      BY <1>1, <2>2 DEF OnBin, BinFails, BinWritten, abortWsUpload
    <3> QED BY <1>1, <3>1, PutOne
  <2>3. ASSUME OnDisconnected(n)
        PROVE  wsUploadInProgress /\ wsUploadPath = p
    <3>1. wsUploadInProgress /\ \E file : Put(wsUploadPath, file)
      BY <1>1, <2>3 DEF OnDisconnected, abortWsUpload
    <3> QED BY <1>1, <3>1, PutOne
  <2> QED BY <1>2, <2>1, <2>2, <2>3 DEF Callback, Device
<1>3. CASE Serve
  <2>1. /\ posts # << >> /\ posts' = Tail(posts)
        /\ \E file : Put(Head(posts).path, file)
    BY <1>3 DEF Serve, Device, handleUpload
  <2> QED BY <1>1, <2>1, PutOne DEF Names
<1>4. ASSUME NEW q \in Path, NEW r \in Path, Device(handleDelete(q) \/ handleRename(q, r))
      PROVE  Names(p)
  <2>1. p \in {q, r} /\ p \in Managed
    <3>1. CASE handleDelete(q)
      BY <1>1, <3>1, PutOne DEF handleDelete
    <3>2. CASE handleRename(q, r)
      BY <1>1, <3>2 DEF handleRename, FileTypes
    <3> QED BY <1>4, <3>1, <3>2 DEF Device
  <2> QED BY <1>4, <2>1 DEF Device, handleDelete, handleRename, Names
<1>5. CASE PowerFails \/ \E told \in BOOLEAN : stop(told)
  <2>1. ~PowerFails
    BY <1>1 DEF PowerFails, FileTypes
  <2>2. wsUploadInProgress /\ \E file : Put(wsUploadPath, file)
    BY <1>1, <1>5, <2>1 DEF stop, abortWsUpload
  <2> QED BY <1>1, <2>2, PutOne
<1>6. CASE UNCHANGED vars
  BY <1>1, <1>6 DEF vars, serverVars
<1> QED BY <1>1, <1>2, <1>3, <1>4, <1>5, <1>6, OthersKeep

(* A whole file leaves the card by a request that names it only, unless it is    *)
(* under the name of the upload in progress: that file also goes with what ends *)
(* the upload.                                                                 *)
THEOREM StoredStaysHolds == Spec => StoredStays
<1>1. Spec => []Inv /\ [][Next]_vars
  BY Invariant, PTL DEF Spec
<1>2. [][Next]_vars /\ []Inv => [][FilesStay]_vars
  BY FilesStayStep, PTL
<1> QED BY <1>1, <1>2 DEF StoredStays, FilesStay
=============================================================================
