----------------------------- MODULE FilesPage -----------------------------
(* The script of FilesPage.html, the page a browser shows of the reader's card: *)
(* it uploads the chosen files one after the other, by WebSocket, or by POST    *)
(* once a WebSocket could not be opened, and stops when the user cancels.  What *)
(* one event of the browser runs up to its next await is one step.             *)
EXTENDS Integers, Sequences

CONSTANTS
  Batches,   \* the lists of files the user chooses
  PageNone   \* no WebSocket

VARIABLES
  phase,     \* what uploadNextFile() awaits: nothing, a WebSocket upload, a POST,
             \* or the POST in its catch block; "gone": the laptop is asleep
  files, currentIndex, useWebSocket,
  ws,        \* the connection of the pending promise, once it is open
  closing,   \* ... its close() has been called
  uploadStarted,  \* ... READY has been seen
  sent,      \* ... binary messages sent
  posted,    \* the POST is under way
  failures,  \* failedFiles is not empty
  operationCancelled,
  reported   \* history: files that the page has told the user are complete

batch == <<files, currentIndex, useWebSocket, failures>>
transfer == <<ws, closing, uploadStarted, sent, posted>>
pageVars == <<phase, batch, transfer, operationCancelled, reported>>

Uploading == phase \in {"ws", "http", "fallback"}
Current == files[currentIndex]

(* A new promise; until the next event nothing of it has happened.             *)
Fresh ==
  /\ ws' = PageNone /\ closing' = FALSE /\ uploadStarted' = FALSE
  /\ sent' = 0 /\ posted' = FALSE
Idle == phase' = "idle" /\ files' = << >> /\ currentIndex' = 1 /\ useWebSocket' = TRUE

(* uploadNextFile() after a file.  At the end of a batch without failures the   *)
(* page is loaded again, with new variables.                                   *)
uploadNextFile(done, failed, cancelled) ==
  /\ Fresh
  /\ reported' = (reported \union done) \ {files[i] : i \in {currentIndex + 1} \cap DOMAIN files}
  /\ IF currentIndex < Len(files)
     THEN /\ currentIndex' = currentIndex + 1 /\ failures' = failed
          /\ phase' = IF useWebSocket THEN "ws" ELSE "http"
          /\ operationCancelled' = cancelled /\ UNCHANGED <<files, useWebSocket>>
     ELSE /\ Idle /\ failures' = FALSE /\ operationCancelled' = (cancelled /\ failed)

onComplete == uploadNextFile({Current}, failures, operationCancelled)

(* onError(): a network error gives up the rest of the batch.                  *)
onError(network) ==
  IF network
  THEN Fresh /\ Idle /\ failures' = FALSE /\ UNCHANGED <<operationCancelled, reported>>
  ELSE uploadNextFile({}, TRUE, operationCancelled)

restoreAfterCancel ==
  /\ operationCancelled' = FALSE
  /\ Fresh /\ Idle /\ failures' = FALSE /\ UNCHANGED reported

(* The catch block of uploadNextFile().  The POST it may start is awaited with  *)
(* a catch block of its own.                                                   *)
Rejected(connectionFailed, network) ==
  \/ operationCancelled /\ restoreAfterCancel
  \/ /\ ~operationCancelled
     /\ IF useWebSocket /\ connectionFailed
        THEN /\ phase' = "fallback" /\ useWebSocket' = FALSE
             /\ Fresh /\ UNCHANGED <<files, currentIndex, failures, operationCancelled, reported>>
        ELSE onError(network)
-----------------------------------------------------------------------------
(* The user.                                                                   *)
uploadFile(chosen) ==
  /\ phase = "idle" /\ files' = chosen /\ currentIndex' = 1
  /\ phase' = "ws" /\ useWebSocket' = TRUE /\ failures' = FALSE
  /\ reported' = reported \ {chosen[1]}
  /\ Fresh /\ UNCHANGED operationCancelled

(* handleCancelUploadModal().                                                  *)
CancelWebSocket ==
  /\ phase = "ws" /\ ~closing
  /\ operationCancelled' = TRUE /\ closing' = TRUE
  /\ UNCHANGED <<phase, batch, ws, uploadStarted, sent, posted, reported>>

(* The same, with the rejection that xhr.abort() causes at once.  The catch     *)
(* block of the fallback does not look at operationCancelled.                  *)
CancelRequest ==
  /\ phase \in {"http", "fallback"}
  /\ IF phase = "http" THEN restoreAfterCancel ELSE uploadNextFile({}, TRUE, TRUE)
-----------------------------------------------------------------------------
(* uploadFileWebSocket().                                                      *)
onopen(n) ==
  /\ phase = "ws" /\ ws = PageNone /\ ~closing /\ ws' = n
  /\ UNCHANGED <<phase, batch, closing, uploadStarted, sent, posted, operationCancelled, reported>>

onReady ==
  /\ uploadStarted' = TRUE
  /\ UNCHANGED <<phase, batch, ws, closing, sent, posted, operationCancelled, reported>>

SendChunk(total) ==
  /\ phase = "ws" /\ ~closing /\ uploadStarted /\ sent < total
  /\ sent' = sent + 1
  /\ UNCHANGED <<phase, batch, ws, closing, uploadStarted, posted, operationCancelled, reported>>

onDone == onComplete
onErrorMessage == Rejected(FALSE, FALSE)
onerror == Rejected(~uploadStarted, FALSE)
DeafOnClose == UNCHANGED pageVars   \* as if only errors rejected the promise
onclose == Rejected(FALSE, FALSE)

(* uploadFileHTTP(): the request, and the end of it.                           *)
SendRequest ==
  /\ phase \in {"http", "fallback"} /\ ~posted /\ posted' = TRUE
  /\ UNCHANGED <<phase, batch, ws, closing, uploadStarted, sent, operationCancelled, reported>>

onRequestError(network) ==
  IF phase = "fallback" THEN onError(network) ELSE Rejected(FALSE, network)

PageLeaves == phase' = "gone" /\ UNCHANGED <<batch, transfer, operationCancelled, reported>>

PageInit ==
  /\ phase = "idle" /\ files = << >> /\ currentIndex = 1 /\ useWebSocket = TRUE
  /\ ws = PageNone /\ closing = FALSE /\ uploadStarted = FALSE /\ sent = 0 /\ posted = FALSE
  /\ failures = FALSE /\ operationCancelled = FALSE /\ reported = {}
=============================================================================
