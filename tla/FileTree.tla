------------------------------ MODULE FileTree ------------------------------
(* What a mounted card promises: a tree of folders and files, on which what a  *)
(* request asks for is done at once or not at all.  A PUT replaces a file      *)
(* without a moment in which it is missing, but may lose it as long as it is   *)
(* not done; a MOVE takes along all that lies in a folder, and into itself      *)
(* nowhere; a PUT or a COPY may leave a part of a file.  What a request does   *)
(* not name it does not touch.                                                 *)
EXTENDS Integers, Sequences

CONSTANTS Path, None

VARIABLES
  tree,      \* each path: nothing, a folder, the content of a file, or a part
  request,   \* the one being served: its method, path, destination, content
  stage      \* of a PUT: "begun", "stored" but not for good, or "done"

vars == <<tree, request, stage>>

(* p is on the way to r, or r itself.                                          *)
Within(p, r) == Len(p) <= Len(r) /\ SubSeq(r, 1, Len(p)) = p
HasFolder(p) == Len(p) > 1 => tree[SubSeq(p, 1, Len(p) - 1)] = "dir"
Free(p) == tree[p] = None /\ HasFolder(p)
Empty(p) == \A r \in Path : Within(p, r) /\ r # p => tree[r] = None

Places(p, item) == tree' = [tree EXCEPT ![p] = item]
Removes(p) == tree[p] # None /\ Empty(p) /\ Places(p, None)

Asks(method) == request # None /\ request.method = method
Ends == request' = None /\ stage' = "begun"

(* A request begins; MOVE and COPY make room first, COPY later if need be.      *)
Begin ==
  /\ request = None /\ request' # None /\ UNCHANGED stage
  /\ UNCHANGED tree \/ (request'.method \in {"MOVE", "COPY"} /\ Removes(request'.dest))
MakeRoom == Asks("COPY") /\ Removes(request.dest) /\ UNCHANGED <<request, stage>>
End == request # None /\ stage # "stored" /\ Ends /\ UNCHANGED tree

Store ==
  /\ Asks("PUT") /\ stage = "begun" /\ stage' = "stored" /\ UNCHANGED request
  /\ tree[request.path] # "dir" /\ HasFolder(request.path)
  /\ Places(request.path, request.content) \/ Places(request.path, "torn")
Settle == Asks("PUT") /\ stage # "done" /\ stage' = "done" /\ UNCHANGED <<tree, request>>
Lose ==
  /\ stage = "stored" /\ Removes(request.path)
  /\ Ends \/ (stage' = "done" /\ UNCHANGED request)

(* Where that which is r once p has become q comes from.  Whatever is within p   *)
(* goes; with q within p there is nothing that comes.                          *)
Source(p, q, r) == p \o SubSeq(r, Len(q) + 1, Len(r))
Moved(p, q) ==
  [r \in Path |->
     IF Within(p, r) THEN None
     ELSE IF ~Within(q, r) THEN tree[r]
     ELSE IF Source(p, q, r) \in Path THEN tree[Source(p, q, r)]
     ELSE None]
Move ==
  /\ Asks("MOVE") /\ tree[request.path] # None
  /\ Free(request.dest)
  /\ tree' = Moved(request.path, request.dest) /\ Ends

Copy ==
  /\ Asks("COPY") /\ tree[request.path] \notin {None, "dir"} /\ Free(request.dest) /\ Ends
  /\ Places(request.dest, tree[request.path]) \/ Places(request.dest, "torn")

Delete(p) == request = None /\ Removes(p) /\ UNCHANGED <<request, stage>>
MakeFolder(p) == request = None /\ Free(p) /\ Places(p, "dir") /\ UNCHANGED <<request, stage>>

Init == tree = [p \in Path |-> None] /\ request = None /\ stage = "begun"
Next == \/ Begin \/ MakeRoom \/ End \/ Store \/ Settle \/ Lose \/ Move \/ Copy
        \/ \E p \in Path : Delete(p) \/ MakeFolder(p)

Spec == Init /\ [][Next]_vars
=============================================================================
