--------------------------- MODULE WebDav_proofs ---------------------------
(* Proofs about WebDAV: types, that a PUT has the original or the new content   *)
(* whole on the card, where a part of a file comes from, that an answer says    *)
(* what has happened, that the tree of files stays a tree, and that the handler *)
(* implements FileTree.                                                        *)
EXTENDS WebDav, SequenceTheorems, TLAPS

(* What each step of a request may rely on: the steps before it.               *)
Stage ==
  /\ pc \in {"writing", "replace", "rename", "answer"} => request.method = "PUT"
  /\ pc \in {"writing", "replace", "rename"} => request.content \in Content
  /\ pc = "writing" => card[request.path] = before[request.path]
  /\ pc \in {"replace", "rename"} =>
       temp[request.path] = request.content \/ (temp[request.path] = "torn" /\ ~flushed)
  /\ pc = "move" => request.method = "MOVE" /\ request.dest \in Path
  /\ pc \in {"create", "copy"} => request.method = "COPY" /\ request.dest \in Path
  /\ pc # "idle" => answer = None

Inv == TypeOK /\ Stage

(* Its own type for the content of a temporary file.                           *)
TempItem == Content \union {None, "torn"}

(* A request that has begun is one.                                            *)
LEMMA BeginsRequest ==
  ASSUME NEW method \in {"PUT", "MOVE", "COPY"}, NEW p \in Path, NEW q \in Path \union {None},
         NEW c \in Content \union {None}, NEW step, Begins(method, p, q, c, step)
  PROVE  /\ request' \in Request /\ request' # None
         /\ request'.method = method /\ request'.path = p /\ request'.dest = q
         /\ request'.content = c
BY DavAssumption DEF Begins, Request

(* Removing keeps types, and changes a path to nothing only.                   *)
LEMMA RemoveTypes ==
  ASSUME NEW p \in Path, card \in [Path -> Item], Remove(p)
  PROVE  card' \in [Path -> Item] /\ \A q \in Path : card'[q] \in {card[q], None}
BY DEF Remove, Item

(* Moving a tree puts nothing under any path that was nowhere before.           *)
LEMMA RenamedValues ==
  ASSUME NEW S, NEW f \in [Path -> S], None \in S, NEW p, NEW q, NEW tree \in SUBSET Path
  PROVE  /\ Renamed(f, p, q, tree) \in [Path -> S]
         /\ \A r \in Path : \E s \in Path : Renamed(f, p, q, tree)[r] \in {None, f[s]}
<1> DEFINE Source(r) == CHOOSE s \in tree : Rebased(p, q, s) = r
           Value(r) == IF r \in tree THEN None
                       ELSE IF \E s \in tree : Rebased(p, q, s) = r THEN f[Source(r)] ELSE f[r]
<1>1. ASSUME NEW r \in Path
      PROVE  \E s \in Path : Value(r) \in {None, f[s]}
  <2>1. CASE \E s \in tree : Rebased(p, q, s) = r
    <3>1. Source(r) \in Path
      BY <2>1
    <3> QED BY <3>1
  <2> QED BY <1>1, <2>1
<1>2. Renamed(f, p, q, tree) = [r \in Path |-> Value(r)]
  BY DEF Renamed
<1> HIDE DEF Value
<1>3. \A r \in Path : Value(r) \in S
  BY <1>1
<1> QED BY <1>1, <1>2, <1>3
-----------------------------------------------------------------------------
(* At the start nothing is served.                                             *)
LEMMA InitInv == Init => Inv
BY DavAssumption DEF Init, Inv, TypeOK, Stage, NoCard, Item, TempItem

(* Each step of a PUT finds what the ones before it left.                      *)
LEMMA RawStartInv ==
  ASSUME Inv, NEW p \in Puts, NEW c \in Content, NEW created \in BOOLEAN, RawStart(p, c, created)
  PROVE  Inv'
<1>1. p \in Path /\ c \in Content \union {None} /\ c # None
  BY DavAssumption
<1>2. Begins("PUT", p, None, c, "writing") /\ card' = card
  BY DEF RawStart
<1>3. /\ request' \in Request /\ request' # None /\ request'.method = "PUT"
      /\ request'.path = p /\ request'.content = c
  BY <1>1, <1>2, BeginsRequest
<1>4. pc' = "writing" /\ answer' = None /\ before' = card /\ flushed' = TRUE
  BY <1>2 DEF Begins
<1>5. /\ temp' \in [Path -> Content \union {None, "torn"}]
      /\ putFile' \in BOOLEAN /\ putOk' \in BOOLEAN /\ putExisted' \in BOOLEAN
  BY DEF RawStart, RemoveTemp, Inv, TypeOK
<1>6. TypeOK'
  BY <1>2, <1>3, <1>4, <1>5 DEF Inv, TypeOK
<1>7. Stage'
  BY <1>1, <1>2, <1>3, <1>4 DEF Stage
<1> QED BY <1>6, <1>7 DEF Inv

(* The other steps of a PUT, but for its rename.                                *)
LEMMA PutStepInv ==
  ASSUME Inv, \/ \E closed \in BOOLEAN : RawEnd(closed)
              \/ RawWriteFails \/ RawReplace \/ RawAborted \/ handlePut
  PROVE  Inv'
<1>1. CASE RawWriteFails
  BY <1>1 DEF Inv, TypeOK, Stage, RawWriteFails
<1>2. ASSUME NEW closed \in BOOLEAN, RawEnd(closed)
      PROVE  Inv'
  <2>1. request \in Request /\ request.path \in Path /\ request.content \in Content
    BY <1>2 DEF RawEnd, Inv, TypeOK, Stage, Request
  <2>2. TypeOK'
    BY <1>2, <2>1 DEF RawEnd, Closes, Inv, TypeOK, Steps
  <2>3. Stage'
    BY <1>2, <2>1 DEF RawEnd, Closes, Inv, TypeOK, Stage, Steps
  <2> QED BY <2>2, <2>3 DEF Inv
<1>3. CASE RawReplace
  <2>1. request \in Request /\ request.path \in Path
    BY <1>3 DEF RawReplace, Inv, TypeOK, Request
  <2>2. card' \in [Path -> Item]
    BY <1>3, <2>1, RemoveTypes DEF RawReplace, Inv, TypeOK
  <2>3. TypeOK'
    BY <1>3, <2>2 DEF RawReplace, Inv, TypeOK, Steps, put
  <2>4. Stage'
    BY <1>3, <2>1 DEF RawReplace, Inv, TypeOK, Stage, Steps, put
  <2> QED BY <2>3, <2>4 DEF Inv
<1>4. CASE RawAborted
  <2>1. Ends(None) /\ TypeOK
    BY <1>4 DEF RawAborted, Inv
  <2>2. TypeOK'
    BY <1>4, <2>1, DavAssumption DEF RawAborted, RemoveTemp, TypeOK, Ends, NoCard, Item
  <2>3. Stage'
    BY <2>1 DEF Ends, Stage
  <2> QED BY <2>2, <2>3 DEF Inv
<1>5. CASE handlePut
  <2>1. TypeOK'
    BY <1>5, DavAssumption DEF handlePut, RemoveTemp, Inv, TypeOK, Ends, NoCard, Item, put
  <2>2. Stage'
    BY <1>5 DEF handlePut, Ends, Stage
  <2> QED BY <2>1, <2>2 DEF Inv
<1> QED BY <1>1, <1>2, <1>3, <1>4, <1>5

(* The rename puts what the temporary file held under the name.                 *)
LEMMA RawRenameInv ==
  ASSUME Inv, NEW renamed \in BOOLEAN, RawRename(renamed)
  PROVE  Inv'
<1>1. request \in Request /\ request.path \in Path /\ request.content \in Content
  BY DEF RawRename, Inv, TypeOK, Stage, Request
<1>2. temp[request.path] \in Item
  BY <1>1 DEF Inv, TypeOK, Item
<1>3. TypeOK'
  BY <1>1, <1>2 DEF RawRename, RemoveTemp, Inv, TypeOK, Steps
<1>4. Stage'
  BY <1>1 DEF RawRename, Inv, TypeOK, Stage, Steps
<1> QED BY <1>3, <1>4 DEF Inv

(* Requests of one operation serve nobody, before and after.                   *)
LEMMA SingleInv ==
  ASSUME Inv, NEW p \in Path, NEW q \in Path, NEW ok \in BOOLEAN,
         handleDelete(p, ok) \/ handleMkcol(p, ok) \/ Refuse(p, q, ok)
  PROVE  Inv'
<1>1. /\ pc = "idle" /\ UNCHANGED <<temp, request, pc, put, before, flushed>>
      /\ answer' \in {"ok", "error"}
  BY DEF handleDelete, handleMkcol, Refuse, Answers
<1>2. card' \in [Path -> Item]
  BY DEF handleDelete, handleMkcol, Refuse, Inv, TypeOK, Item
<1>3. TypeOK'
  BY <1>1, <1>2 DEF Inv, TypeOK, put
<1>4. Stage'
  BY <1>1 DEF Stage
<1> QED BY <1>3, <1>4 DEF Inv

(* MOVE and COPY begin with a destination.                                      *)
LEMMA BeginMoveOrCopy ==
  ASSUME Inv, NEW p \in Path, NEW q \in Path, NEW ok \in BOOLEAN,
         handleMove(p, q, ok) \/ handleCopy(p, q, ok)
  PROVE  Inv'
<1>1. ASSUME NEW method \in {"MOVE", "COPY"}, NEW step,
             step = IF method = "MOVE" THEN "move" ELSE "create",
             Begins(method, p, q, None, step), Remove(q), UNCHANGED <<temp, put>>
      PROVE  Inv'
  <2>1. /\ request' \in Request /\ request' # None
        /\ request'.method = method /\ request'.dest = q
    BY <1>1, BeginsRequest
  <2>2. pc' = step /\ answer' = None /\ before' = card /\ flushed' = TRUE
    BY <1>1 DEF Begins
  <2>3. card' \in [Path -> Item]
    BY <1>1, RemoveTypes DEF Inv, TypeOK
  <2>4. TypeOK'
    BY <1>1, <2>1, <2>2, <2>3 DEF Inv, TypeOK, put
  <2>5. Stage'
    BY <1>1, <2>1, <2>2 DEF Stage
  <2> QED BY <2>4, <2>5 DEF Inv
<1>2. CASE handleMove(p, q, ok)
  BY <1>1, <1>2 DEF handleMove
<1>3. CASE handleCopy(p, q, ok)
  BY <1>1, <1>3 DEF handleCopy
<1> QED BY <1>2, <1>3

(* A finished request leaves the types, and no step to rely on.                *)
LEMMA EndsInv ==
  ASSUME Inv, NEW result \in {"ok", "error"}, Ends(result), UNCHANGED put,
         card' \in [Path -> Item], temp' \in [Path -> TempItem]
  PROVE  Inv'
<1>1. TypeOK'
  BY DEF Inv, TypeOK, Ends, NoCard, Item, TempItem, put
<1>2. Stage'
  BY DEF Ends, Stage
<1> QED BY <1>1, <1>2 DEF Inv

(* The rename of a MOVE, with what lies below.                                  *)
LEMMA MoveRenameInv ==
  ASSUME Inv, NEW renamed \in BOOLEAN, MoveRename(renamed)
  PROVE  Inv'
<1> DEFINE p == request.path
           q == request.dest
<1>1. card \in [Path -> Item] /\ temp \in [Path -> TempItem] /\ UNCHANGED put
  BY DEF MoveRename, Inv, TypeOK, TempItem
<1>2. CASE renamed
  <2>1. request \in Request /\ p \in Path
    BY DEF MoveRename, Inv, TypeOK, Request
  <2>2. /\ card' = Renamed(card, p, q, Below(p) \union {p})
        /\ temp' = Renamed(temp, p, q, Below(p)) /\ Ends("ok")
    BY <1>2 DEF MoveRename
  <2>3. Below(p) \in SUBSET Path /\ Below(p) \union {p} \in SUBSET Path
    BY <2>1 DEF Below
  <2>4. card' \in [Path -> Item]
    BY <1>1, <2>2, <2>3, RenamedValues DEF Item
  <2>5. temp' \in [Path -> TempItem]
    BY <1>1, <2>2, <2>3, RenamedValues DEF TempItem
  <2> QED BY <1>1, <2>2, <2>4, <2>5, EndsInv
<1>3. CASE ~renamed
  BY <1>1, <1>3, EndsInv DEF MoveRename
<1> QED BY <1>2, <1>3

(* The steps of a COPY.                                                         *)
LEMMA CopyInv ==
  ASSUME Inv, \/ \E ok \in BOOLEAN : CopyCreate(ok)
              \/ \E how \in {"whole", "short", "full", "left"} : CopyData(how)
  PROVE  Inv'
<1>1. /\ card \in [Path -> Item] /\ temp \in [Path -> TempItem]
      /\ request \in Request /\ request.path \in Path /\ UNCHANGED <<temp, put>>
  BY DEF CopyCreate, CopyData, Inv, TypeOK, TempItem, Request
<1>2. CASE CopyCreate(TRUE)
  <2>1. /\ card' = [card EXCEPT ![request.dest] = "torn"]
        /\ pc = "create" /\ pc' = "copy" /\ UNCHANGED <<request, answer, before, flushed>>
    BY <1>2 DEF CopyCreate, Steps
  <2>2. TypeOK'
    BY <1>1, <2>1 DEF Inv, TypeOK, Item, put
  <2>3. Stage'
    BY <2>1 DEF Inv, Stage
  <2> QED BY <2>2, <2>3 DEF Inv
<1>3. CASE CopyCreate(FALSE)
  BY <1>1, <1>3, EndsInv DEF CopyCreate
<1>4. ASSUME NEW how \in {"whole", "short", "full", "left"}, CopyData(how)
      PROVE  Inv'
  <2>1. card' \in [Path -> Item]
    BY <1>1, <1>4 DEF CopyData, Item
  <2> QED BY <1>1, <1>4, <2>1, EndsInv DEF CopyData
<1> QED BY <1>2, <1>3, <1>4

(* The battery may be out at any step.                                          *)
LEMMA PowerLossInv == ASSUME Inv, PowerLoss PROVE Inv'
BY DavAssumption DEF Inv, TypeOK, Stage, PowerLoss, NoCard, Item

(* Every step keeps the invariant.                                              *)
LEMMA NextInv == Inv /\ [Next]_davVars => Inv'
<1> SUFFICES ASSUME Inv, [Next]_davVars PROVE Inv'
  OBVIOUS
<1>1. CASE Put
  BY <1>1, RawStartInv, PutStepInv, RawRenameInv DEF Put
<1>2. CASE Move
  BY <1>2, BeginMoveOrCopy, MoveRenameInv DEF Move
<1>3. CASE Copy
  BY <1>3, BeginMoveOrCopy, CopyInv DEF Copy
<1>4. CASE PowerLoss
  BY <1>4, PowerLossInv
<1>5. CASE \E p \in Path, ok \in BOOLEAN : handleDelete(p, ok) \/ handleMkcol(p, ok)
  BY <1>5, SingleInv
<1>6. CASE \E p, q \in Path, ok \in BOOLEAN : Refuse(p, q, ok)
  BY <1>6, SingleInv
<1>7. CASE UNCHANGED davVars
  BY <1>7 DEF davVars, Inv, TypeOK, Stage
<1> QED BY <1>1, <1>2, <1>3, <1>4, <1>5, <1>6, <1>7 DEF Next

(* The types, and what each step of a request relies on, hold at all times.     *)
THEOREM Invariant == Spec => []Inv
<1> QED BY InitInv, NextInv, PTL DEF Spec

(* Every variable keeps its type.                                              *)
THEOREM TypesHold == Spec => []TypeOK
<1>1. Inv => TypeOK
  BY DEF Inv
<1> QED BY Invariant, <1>1, PTL

(* A PUT has the original or the new content whole on the card until its rename,*)
(* unless its close() failed.                                                  *)
THEOREM PutKeepsOneHolds == Spec => []PutKeepsOne
<1>1. Inv => PutKeepsOne
  BY DEF Inv, Stage, PutKeepsOne
<1> QED BY Invariant, <1>1, PTL
-----------------------------------------------------------------------------
(* Paths are sequences of names; those that come before a path are its folders. *)

(* What lies under what, name by name.                                         *)
LEMMA UnderByNames ==
  ASSUME NEW p \in Path, NEW q \in Path
  PROVE  /\ p \in Seq(STRING) /\ Len(p) \in Nat \ {0}
         /\ Under(p, q) <=> Len(p) < Len(q) /\ \A i \in 1..Len(p) : q[i] = p[i]
<1>1. p \in Seq(STRING) /\ q \in Seq(STRING) /\ Len(p) \in Nat \ {0} /\ Len(q) \in Nat
  BY DavAssumption, EmptySeq, LenProperties
<1>2. ASSUME Len(p) < Len(q)
      PROVE  SubSeq(q, 1, Len(p)) = p <=> \A i \in 1..Len(p) : q[i] = p[i]
  <2>1. \A i \in 1..Len(p) : q[i] \in STRING
    BY <1>1, <1>2, ElementOfSeq
  <2>2. /\ SubSeq(q, 1, Len(p)) \in Seq(STRING) /\ Len(SubSeq(q, 1, Len(p))) = Len(p)
        /\ \A i \in 1..Len(p) : SubSeq(q, 1, Len(p))[i] = q[i]
    BY <1>1, <2>1, SubSeqProperties
  <2> QED BY <1>1, <2>2, SeqEqual
<1> QED BY <1>1, <1>2 DEF Under

(* What lies under something lies under all that is above it.                  *)
LEMMA UnderTransitive ==
  ASSUME NEW p \in Path, NEW q \in Path, NEW r \in Path, Under(p, q), Under(q, r)
  PROVE  Under(p, r)
BY UnderByNames

(* A path has its folders on one line.                                         *)
LEMMA UnderLinear ==
  ASSUME NEW p \in Path, NEW q \in Path, NEW r \in Path, Under(p, r), Under(q, r)
  PROVE  p = q \/ Under(p, q) \/ Under(q, p)
<1>1. \A i \in 1..Len(p) : r[i] = p[i]
  BY UnderByNames
<1>2. \A i \in 1..Len(q) : r[i] = q[i]
  BY UnderByNames
<1>3. p \in Seq(STRING) /\ q \in Seq(STRING) /\ Len(p) \in Nat /\ Len(q) \in Nat
  BY UnderByNames
<1>4. CASE Len(p) = Len(q)
  BY <1>1, <1>2, <1>3, <1>4, SeqEqual
<1>5. CASE Len(p) < Len(q)
  BY <1>1, <1>2, <1>3, <1>5, UnderByNames
<1>6. CASE Len(q) < Len(p)
  BY <1>1, <1>2, <1>3, <1>6, UnderByNames
<1> QED BY <1>3, <1>4, <1>5, <1>6

(* The folder of a path is the last of those above it.                         *)
LEMMA ParentIsLast ==
  ASSUME NEW p \in Path, Len(p) > 1
  PROVE  /\ Parent(p) \in Path /\ Under(Parent(p), p)
         /\ \A a \in Path : Under(a, p) => a = Parent(p) \/ Under(a, Parent(p))
<1>1. p \in Seq(STRING) /\ Len(p) \in Nat \ {0}
  BY UnderByNames
<1>2. Parent(p) \in Path
  BY <1>1, TreeAssumption DEF Parent
<1>3. \A i \in 1..Len(p) - 1 : p[i] \in STRING
  BY <1>1, ElementOfSeq
<1>4. Len(Parent(p)) = Len(p) - 1 /\ \A i \in 1..Len(p) - 1 : Parent(p)[i] = p[i]
  BY <1>1, <1>3, SubSeqProperties DEF Parent
<1>5. Under(Parent(p), p)
  BY <1>1, <1>2, <1>4, UnderByNames
<1>6. ASSUME NEW a \in Path, Under(a, p)
      PROVE  a = Parent(p) \/ Under(a, Parent(p))
  <2>1. ~Under(Parent(p), a)
    BY <1>1, <1>2, <1>4, <1>6, UnderByNames
  <2> QED BY <1>2, <1>5, <1>6, <2>1, UnderLinear
<1> QED BY <1>2, <1>5, <1>6

(* Only what is under something has a folder.                                   *)
LEMMA UnderIsDeep ==
  ASSUME NEW a \in Path, NEW p \in Path, Under(a, p)
  PROVE  Len(p) > 1 /\ ~Under(p, a) /\ a # p
BY UnderByNames

(* Path r has the names of q, then those that s has below p.                    *)
Moved(p, q, s, r) ==
  /\ r \in Seq(STRING) /\ Len(r) = Len(q) + Len(s) - Len(p)
  /\ \A i \in 1..Len(q) : r[i] = q[i]
  /\ \A i \in Len(p) + 1 .. Len(s) : r[i - Len(p) + Len(q)] = s[i]

(* What is moved keeps its names below the one that is moved.                   *)
LEMMA RebasedByNames ==
  ASSUME NEW p \in Path, NEW q \in Path, NEW s \in Path, s = p \/ Under(p, s)
  PROVE  Moved(p, q, s, Rebased(p, q, s))
<1> DEFINE rest == SubSeq(s, Len(p) + 1, Len(s))
<1>1. /\ p \in Seq(STRING) /\ q \in Seq(STRING) /\ s \in Seq(STRING)
      /\ Len(p) \in Nat /\ Len(q) \in Nat /\ Len(s) \in Nat /\ Len(p) <= Len(s)
  BY UnderByNames
<1>2. \A i \in Len(p) + 1 .. Len(s) : s[i] \in STRING
  BY <1>1, ElementOfSeq
<1>3. /\ rest \in Seq(STRING) /\ Len(rest) = Len(s) - Len(p)
      /\ \A i \in 1 .. Len(s) - Len(p) : rest[i] = s[Len(p) + i]
  BY <1>1, <1>2, SubSeqProperties
<1> HIDE DEF rest
<1>4. /\ q \o rest \in Seq(STRING) /\ Len(q \o rest) = Len(q) + Len(rest)
      /\ \A i \in 1 .. Len(q) + Len(rest) :
           (q \o rest)[i] = IF i <= Len(q) THEN q[i] ELSE rest[i - Len(q)]
  BY <1>1, <1>3, ConcatProperties
<1>5. \A i \in Len(p) + 1 .. Len(s) : (q \o rest)[i - Len(p) + Len(q)] = s[i]
  <2> SUFFICES ASSUME NEW i \in Len(p) + 1 .. Len(s)
               PROVE  (q \o rest)[i - Len(p) + Len(q)] = s[i]
    OBVIOUS
  <2> DEFINE j == i - Len(p) + Len(q)
  <2>1. j \in 1 .. Len(q) + Len(rest) /\ ~(j <= Len(q)) /\ j - Len(q) = i - Len(p)
    BY <1>1, <1>3
  <2>2. (q \o rest)[j] = rest[i - Len(p)]
    BY <1>4, <2>1
  <2>3. i - Len(p) \in 1 .. Len(s) - Len(p) /\ Len(p) + (i - Len(p)) = i
    BY <1>1
  <2> QED BY <1>3, <2>2, <2>3
<1>6. Rebased(p, q, s) = q \o rest
  BY DEF Rebased, rest
<1> QED BY <1>1, <1>3, <1>4, <1>5, <1>6 DEF Moved

(* The names of what is moved say where to, and the names of where to say what.  *)
LEMMA MovedIsOne ==
  ASSUME NEW p \in Path, NEW q \in Path, NEW s \in Path, NEW r, Moved(p, q, s, r),
         s = p \/ Under(p, s)
  PROVE  /\ \A u : Moved(p, q, s, u) => u = r
         /\ \A t \in Path : (t = p \/ Under(p, t)) /\ Moved(p, q, t, r) => t = s
<1>1. /\ p \in Seq(STRING) /\ q \in Seq(STRING) /\ s \in Seq(STRING)
      /\ Len(p) \in Nat /\ Len(q) \in Nat /\ Len(s) \in Nat /\ Len(p) <= Len(s)
      /\ \A i \in 1..Len(p) : s[i] = p[i]
  BY UnderByNames
<1>2. /\ r \in Seq(STRING) /\ Len(r) = Len(q) + Len(s) - Len(p)
      /\ \A i \in 1..Len(q) : r[i] = q[i]
      /\ \A i \in Len(p) + 1 .. Len(s) : r[i - Len(p) + Len(q)] = s[i]
  BY DEF Moved
<1>3. ASSUME NEW u, Moved(p, q, s, u)
      PROVE  u = r
  <2>1. /\ u \in Seq(STRING) /\ Len(u) = Len(q) + Len(s) - Len(p)
        /\ \A i \in 1..Len(q) : u[i] = q[i]
        /\ \A i \in Len(p) + 1 .. Len(s) : u[i - Len(p) + Len(q)] = s[i]
    BY <1>3 DEF Moved
  <2>2. ASSUME NEW j \in 1..Len(r), Len(q) < j
        PROVE  u[j] = r[j]
    <3> DEFINE i == j - Len(q) + Len(p)
    <3>1. i \in Len(p) + 1 .. Len(s) /\ i - Len(p) + Len(q) = j
      BY <1>1, <1>2, <2>2
    <3>2. u[j] = s[i] /\ r[j] = s[i]
      BY <1>2, <2>1, <3>1
    <3> QED BY <3>2
  <2>3. ASSUME NEW j \in 1..Len(r)
        PROVE  u[j] = r[j]
    <3>1. CASE Len(q) < j
      BY <2>2, <3>1
    <3>2. CASE ~ (Len(q) < j)
      <4>1. j \in 1..Len(q)
        BY <1>1, <1>2, <3>2
      <4> QED BY <1>2, <2>1, <4>1
    <3> QED BY <3>1, <3>2
  <2>4. Len(u) = Len(r)
    BY <1>2, <2>1
  <2> QED BY <1>2, <2>1, <2>3, <2>4, SeqEqual
<1>4. ASSUME NEW t \in Path, t = p \/ Under(p, t), Moved(p, q, t, r)
      PROVE  t = s
  <2>1. /\ t \in Seq(STRING) /\ Len(t) \in Nat
        /\ \A i \in 1..Len(p) : t[i] = p[i]
    BY <1>4, UnderByNames
  <2>2. /\ Len(r) = Len(q) + Len(t) - Len(p)
        /\ \A i \in Len(p) + 1 .. Len(t) : r[i - Len(p) + Len(q)] = t[i]
    BY <1>4 DEF Moved
  <2>3. Len(t) = Len(s)
    BY <1>1, <1>2, <2>1, <2>2
  <2>4. \A i \in Len(p) + 1 .. Len(s) : t[i] = s[i]
    BY <1>2, <2>2, <2>3
  <2>5. \A i \in 1..Len(s) : t[i] = s[i]
    BY <1>1, <2>1, <2>4
  <2> QED BY <1>1, <2>1, <2>3, <2>5, SeqEqual
<1> QED BY <1>3, <1>4

(* No two are moved to one place.                                              *)
LEMMA RebasedInjective ==
  ASSUME NEW p \in Path, NEW q \in Path, NEW s \in Path, NEW t \in Path,
         s = p \/ Under(p, s), t = p \/ Under(p, t), Rebased(p, q, s) = Rebased(p, q, t)
  PROVE  s = t
<1>1. Moved(p, q, s, Rebased(p, q, s)) /\ Moved(p, q, t, Rebased(p, q, s))
  BY RebasedByNames
<1> QED BY <1>1, MovedIsOne

(* What is moved comes to lie under the new name.                               *)
LEMMA RebasedIsUnder ==
  ASSUME NEW p \in Path, NEW q \in Path, NEW s \in Path, s = p \/ Under(p, s)
  PROVE  /\ s = p => Rebased(p, q, s) = q
         /\ Under(p, s) /\ Rebased(p, q, s) \in Path => Under(q, Rebased(p, q, s))
<1>1. /\ q \in Seq(STRING) /\ Len(p) \in Nat /\ Len(q) \in Nat /\ Len(s) \in Nat
  BY UnderByNames
<1>2. /\ Rebased(p, q, s) \in Seq(STRING)
      /\ Len(Rebased(p, q, s)) = Len(q) + Len(s) - Len(p)
      /\ \A i \in 1..Len(q) : Rebased(p, q, s)[i] = q[i]
  BY RebasedByNames DEF Moved
<1>3. ASSUME s = p PROVE Rebased(p, q, s) = q
  BY <1>1, <1>2, <1>3, SeqEqual
<1>4. ASSUME Under(p, s), Rebased(p, q, s) \in Path PROVE Under(q, Rebased(p, q, s))
  <2>1. Len(p) < Len(s)
    BY <1>4, UnderByNames
  <2>2. Len(q) < Len(Rebased(p, q, s))
    BY <1>1, <1>2, <2>1
  <2> QED BY <1>2, <1>4, <2>2, UnderByNames
<1> QED BY <1>3, <1>4

(* Between the new name and what is moved lies what was between it and the old. *)
LEMMA RebasedFolders ==
  ASSUME NEW p \in Path, NEW q \in Path, NEW s \in Path, Under(p, s),
         Rebased(p, q, s) \in Path, NEW a \in Path, Under(q, a), Under(a, Rebased(p, q, s))
  PROVE  \E t \in Path : Under(p, t) /\ Under(t, s) /\ Rebased(p, q, t) = a
<1> DEFINE n == Len(a) - Len(q) + Len(p)
<1>1. PICK r \in Path : r = Rebased(p, q, s)
  OBVIOUS
<1>2. /\ Len(r) = Len(q) + Len(s) - Len(p)
      /\ \A i \in Len(p) + 1 .. Len(s) : r[i - Len(p) + Len(q)] = s[i]
  <2>1. Moved(p, q, s, r)
    BY <1>1, RebasedByNames
  <2> QED BY <2>1 DEF Moved
<1>3. /\ s \in Seq(STRING) /\ a \in Seq(STRING)
      /\ Len(p) \in Nat /\ Len(q) \in Nat /\ Len(s) \in Nat /\ Len(a) \in Nat
      /\ Len(p) > 0 /\ Len(q) < Len(a) /\ Len(a) < Len(r) /\ Len(p) < Len(s)
      /\ \A i \in 1..Len(p) : s[i] = p[i]
      /\ \A i \in 1..Len(q) : a[i] = q[i]
      /\ \A i \in 1..Len(a) : r[i] = a[i]
  BY <1>1, UnderByNames
<1>4. n \in Int /\ Len(p) < n /\ n < Len(s)
  BY <1>2, <1>3
<1>5. PICK t \in Path : Len(t) = n /\ \A i \in 1..n : t[i] = s[i]
  <2>1. \A i \in 1..n : s[i] \in STRING
    BY <1>3, <1>4, ElementOfSeq
  <2>2. SubSeq(s, 1, n) \in Path
    BY <1>3, <1>4, TreeAssumption
  <2>3. Len(SubSeq(s, 1, n)) = n /\ \A i \in 1..n : SubSeq(s, 1, n)[i] = s[i]
    BY <1>4, <2>1, SubSeqProperties
  <2> QED BY <2>2, <2>3
<1>6. Under(t, s)
  BY <1>4, <1>5, UnderByNames
<1>7. Under(p, t)
  <2>1. \A i \in 1..Len(p) : t[i] = p[i]
    BY <1>3, <1>4, <1>5
  <2> QED BY <1>4, <1>5, <2>1, UnderByNames
<1>8. Moved(p, q, t, a)
  <2>1. Len(a) = Len(q) + Len(t) - Len(p)
    BY <1>3, <1>5
  <2>2. ASSUME NEW i \in Len(p) + 1 .. Len(t)
        PROVE  a[i - Len(p) + Len(q)] = t[i]
    <3> DEFINE j == i - Len(p) + Len(q)
    <3>1. i \in Len(p) + 1 .. Len(s) /\ j \in 1..Len(a) /\ i \in 1..n
      BY <1>3, <1>4, <1>5, <2>1
    <3>2. r[j] = s[i]
      BY <1>2, <3>1
    <3>3. r[j] = a[j] /\ t[i] = s[i]
      BY <1>3, <1>5, <3>1
    <3> QED BY <3>2, <3>3
  <2> QED BY <1>3, <2>1, <2>2 DEF Moved
<1>9. Rebased(p, q, t) = a
  BY <1>7, <1>8, RebasedByNames, MovedIsOne
<1> QED BY <1>6, <1>7, <1>9
-----------------------------------------------------------------------------
(* After the move of a tree from p to q, v is what lies at r.                   *)
Takes(f, p, q, tree, r, v) ==
  \/ r \in tree /\ v = None
  \/ r \notin tree /\ (\A s \in tree : Rebased(p, q, s) # r) /\ v = f[r]
  \/ r \notin tree /\ \E s \in tree : Rebased(p, q, s) = r /\ v = f[s]

(* What lies in the tree goes to its new names, what does not stays.           *)
LEMMA RenamedPlaces ==
  ASSUME NEW f, NEW p \in Path, NEW q \in Path, NEW tree \in SUBSET (Below(p) \union {p}),
         NEW r \in Path
  PROVE  Takes(f, p, q, tree, r, Renamed(f, p, q, tree)[r])
<1> USE DEF Below
<1>1. Renamed(f, p, q, tree)[r] =
        IF r \in tree THEN None
        ELSE IF \E s \in tree : Rebased(p, q, s) = r
             THEN f[CHOOSE s \in tree : Rebased(p, q, s) = r] ELSE f[r]
  BY DEF Renamed
<1>2. ASSUME NEW s \in tree, Rebased(p, q, s) = r
      PROVE  (CHOOSE t \in tree : Rebased(p, q, t) = r) = s
  <2> DEFINE t == CHOOSE u \in tree : Rebased(p, q, u) = r
  <2>1. t \in tree /\ Rebased(p, q, t) = r
    BY <1>2
  <2> HIDE DEF t
  <2>2. t = s
    BY <1>2, <2>1, RebasedInjective
  <2> QED BY <2>2 DEF t
<1> QED BY <1>1, <1>2 DEF Takes

(* The step behind TornByCopy.                                                 *)
TornIsCopied ==
  \A p \in Path : card'[p] = "torn" /\ card[p] # "torn" =>
       LET from == request.path  to == request.dest IN
       /\ request # None
       /\ CASE request.method = "COPY" -> p = to
            [] request.method = "MOVE" ->
                 \E s \in Below(from) \union {from} : card[s] = "torn" /\ Rebased(from, to, s) = p
            [] request.method = "PUT" -> p = from /\ ~flushed

(* A part that is new under a name has been copied, moved there, or put there    *)
(* after a close() that failed.                                                *)
LEMMA TornStep == Inv /\ [Next]_davVars => TornIsCopied
<1> SUFFICES ASSUME Inv, [Next]_davVars, NEW p \in Path, card'[p] = "torn", card[p] # "torn"
             PROVE  /\ request # None
                    /\ \/ request.method = "COPY" /\ p = request.dest
                       \/ /\ request.method = "MOVE"
                          /\ \E s \in Below(request.path) \union {request.path} :
                               card[s] = "torn" /\ Rebased(request.path, request.dest, s) = p
                       \/ request.method = "PUT" /\ p = request.path /\ ~flushed
  BY DEF TornIsCopied
<1>1. card \in [Path -> Item] /\ card' # card
  BY DEF Inv, TypeOK
<1>2. None # "torn" /\ "torn" \notin Content
  BY DavAssumption
<1>3. \A q \in Path : ~Remove(q)
  BY <1>1, <1>2, RemoveTypes
<1>4. CASE Put
  <2>1. ~RawReplace
    BY <1>1, <1>3 DEF RawReplace, Inv, TypeOK, Stage, Request
  <2>2. PICK renamed \in BOOLEAN : RawRename(renamed)
    BY <1>1, <1>4, <2>1 DEF Put, RawStart, RawWriteFails, RawEnd, RawAborted, handlePut
  <2>3. /\ request # None /\ request.method = "PUT"
        /\ request.path \in Path /\ request.content \in Content
        /\ temp[request.path] = request.content \/ ~flushed
    BY <2>2 DEF RawRename, Inv, TypeOK, Stage, Request
  <2>4. card' = [card EXCEPT ![request.path] = temp[request.path]]
    BY <1>1, <2>2 DEF RawRename
  <2> QED BY <1>1, <1>2, <2>3, <2>4
<1>5. CASE Move
  <2>1. MoveRename(TRUE)
    BY <1>1, <1>3, <1>5 DEF Move, handleMove, MoveRename
  <2> DEFINE from == request.path
             to == request.dest
             tree == Below(from) \union {from}
  <2>2. request # None /\ request.method = "MOVE" /\ from \in Path /\ to \in Path
    BY <2>1 DEF MoveRename, Inv, TypeOK, Stage, Request
  <2>3. card' = Renamed(card, from, to, tree)
    BY <2>1 DEF MoveRename
  <2>4. tree \in SUBSET (Below(from) \union {from})
    OBVIOUS
  <2> HIDE DEF tree
  <2>5. Takes(card, from, to, tree, p, card'[p])
    BY <2>2, <2>3, <2>4, RenamedPlaces
  <2>6. \E s \in tree : Rebased(from, to, s) = p /\ card[s] = "torn"
    BY <1>2, <2>5 DEF Takes
  <2> QED BY <2>2, <2>6 DEF tree
<1>6. CASE Copy
  <2>1. \/ \E ok \in BOOLEAN : CopyCreate(ok)
        \/ \E how \in {"whole", "short", "full", "left"} : CopyData(how)
    BY <1>3, <1>6 DEF Copy, handleCopy
  <2>2. request # None /\ request.method = "COPY"
    BY <2>1 DEF CopyCreate, CopyData, Inv, TypeOK, Stage
  <2>3. \E item : card' = [card EXCEPT ![request.dest] = item]
    BY <1>1, <2>1 DEF CopyCreate, CopyData
  <2> QED BY <1>1, <2>2, <2>3
<1>7. CASE PowerLoss
  BY <1>1, <1>7 DEF PowerLoss
<1>8. CASE \E q \in Path, ok \in BOOLEAN : handleDelete(q, ok) \/ handleMkcol(q, ok)
  BY <1>1, <1>2, <1>8 DEF handleDelete, handleMkcol
<1>9. CASE \E q, r \in Path, ok \in BOOLEAN : Refuse(q, r, ok)
  BY <1>1, <1>9 DEF Refuse
<1> QED BY <1>1, <1>4, <1>5, <1>6, <1>7, <1>8, <1>9 DEF Next, davVars

(* A part of a file gets under a name by a COPY to it or a MOVE of that part, and *)
(* by a PUT only if its close() failed.                                        *)
THEOREM TornByCopyHolds == Spec => TornByCopy
<1>1. Spec => []Inv /\ [][Next]_davVars
  BY Invariant, PTL DEF Spec
<1>2. [][Next]_davVars /\ []Inv => [][TornIsCopied]_davVars
  BY TornStep, PTL
<1> QED BY <1>1, <1>2 DEF TornByCopy, TornIsCopied

(* Of a folder moved into itself nothing comes to lie outside.                  *)
LEMMA IntoItself ==
  ASSUME NEW p \in Path, NEW q \in Path, Under(p, q), NEW s \in Path, s = p \/ Under(p, s),
         Rebased(p, q, s) \in Path
  PROVE  Under(p, Rebased(p, q, s))
<1>1. PICK r \in Path : r = Rebased(p, q, s)
  OBVIOUS
<1>2. r = q \/ Under(q, r)
  BY <1>1, RebasedIsUnder
<1>3. Under(p, r)
  BY <1>2, UnderTransitive
<1> QED BY <1>1, <1>3
-----------------------------------------------------------------------------
(* What a request has done so far, as far as its answer tells of it.           *)
Serving ==
  /\ pc = "writing" /\ putOk => temp[request.path] # None
  /\ pc = "replace" => card[request.path] = before[request.path]
  /\ pc = "rename" => card[request.path] \in {before[request.path], None}
  /\ pc = "answer" /\ putOk => /\ temp[request.path] = None
                               /\ flushed => card[request.path] = request.content
  /\ pc = "answer" /\ ~putOk => card[request.path] \in {before[request.path], None}
  /\ pc \in {"move", "create", "copy"} =>
       /\ request.dest # request.path
       /\ card[request.path] = before[request.path] /\ before[request.path] # None
  /\ pc = "create" => card[request.dest] \in {None, before[request.dest]}
  /\ pc = "copy" => card[request.dest] = "torn"

(* A PUT that goes on has its temporary file, one that is done its file, and one *)
(* that has failed what was there, or nothing.                                 *)
LEMMA PutServing ==
  ASSUME Inv, Serving, Put
  PROVE  Serving'
<1>1. None # "torn" /\ \A c \in Content : c # None
  BY DavAssumption
<1>2. card \in [Path -> Item] /\ temp \in [Path -> TempItem]
  BY DEF Inv, TypeOK, TempItem
<1>3. ASSUME NEW p \in Puts, NEW c \in Content, NEW created \in BOOLEAN, RawStart(p, c, created)
      PROVE  Serving'
  <2>1. p \in Path /\ c \in Content \union {None} /\ Begins("PUT", p, None, c, "writing")
    BY <1>3, DavAssumption DEF RawStart
  <2>2. request'.path = p /\ pc' = "writing"
    BY <2>1, BeginsRequest DEF Begins
  <2>3. putOk' => temp'[p] # None
    BY <1>1, <1>2, <1>3, <2>1 DEF RawStart
  <2> QED BY <2>2, <2>3 DEF Serving
<1>4. CASE RawWriteFails
  BY <1>4 DEF RawWriteFails, Serving, Inv, Stage
<1>5. ASSUME NEW closed \in BOOLEAN, RawEnd(closed)
      PROVE  Serving'
  <2>1. /\ pc = "writing" /\ UNCHANGED <<request, card, before, putOk>>
        /\ card[request.path] = before[request.path]
    BY <1>5 DEF RawEnd, Closes, Steps, Inv, Stage
  <2>2. pc' = IF putOk THEN "replace" ELSE "answer"
    BY <1>5 DEF RawEnd, Closes, Steps
  <2> QED BY <2>1, <2>2 DEF Serving
<1>6. CASE RawReplace
  <2>1. /\ pc = "replace" /\ pc' = "rename" /\ UNCHANGED <<request, before>>
        /\ request.path \in Path /\ (card' = card \/ Remove(request.path))
    BY <1>6 DEF RawReplace, Steps, Inv, TypeOK, Request
  <2>2. card'[request.path] \in {card[request.path], None}
    BY <1>2, <2>1, RemoveTypes
  <2> QED BY <2>1, <2>2 DEF Serving
<1>7. ASSUME NEW renamed \in BOOLEAN, RawRename(renamed)
      PROVE  Serving'
  <2>1. /\ pc = "rename" /\ pc' = "answer" /\ UNCHANGED <<request, before, flushed>>
        /\ request \in Request
    BY <1>7 DEF RawRename, Steps, Inv, TypeOK
  <2>2. request.path \in Path /\ (flushed => temp[request.path] = request.content)
    BY <2>1 DEF Inv, Stage, Request
  <2>3. CASE renamed
    <3>1. card'[request.path] = temp[request.path] /\ temp'[request.path] = None /\ putOk'
      BY <1>2, <1>7, <2>2, <2>3 DEF RawRename
    <3> QED BY <2>1, <2>2, <3>1 DEF Serving
  <2>4. CASE ~renamed
    <3>1. UNCHANGED card /\ ~putOk'
      BY <1>7, <2>4 DEF RawRename
    <3> QED BY <2>1, <3>1 DEF Serving
  <2> QED BY <2>3, <2>4
<1>8. CASE RawAborted \/ handlePut
  BY <1>8 DEF RawAborted, handlePut, Ends, Serving
<1> QED BY <1>3, <1>4, <1>5, <1>6, <1>7, <1>8 DEF Put

(* Removing another file leaves a path alone.                                   *)
LEMMA RemoveOther ==
  ASSUME NEW p \in Path, NEW q \in Path, p # q, card \in [Path -> Item], Remove(q)
  PROVE  card'[p] = card[p]
BY DEF Remove

(* MOVE and COPY keep their source until they are answered.                     *)
LEMMA MoveCopyServing ==
  ASSUME Inv, Serving, Move \/ Copy
  PROVE  Serving'
<1>1. card \in [Path -> Item]
  BY DEF Inv, TypeOK
<1>2. ASSUME NEW p \in Path, NEW q \in Path, NEW overwrite \in BOOLEAN,
             handleMove(p, q, overwrite) \/ handleCopy(p, q, overwrite)
      PROVE  Serving'
  <2>1. /\ Remove(q) /\ p # q /\ card[p] # None
        /\ \E step \in {"move", "create"}, method \in {"MOVE", "COPY"} :
             Begins(method, p, q, None, step)
    BY <1>2 DEF handleMove, handleCopy, Accepted
  <2>2. /\ request'.path = p /\ request'.dest = q
        /\ pc' \in {"move", "create"} /\ before' = card
    BY <2>1, BeginsRequest DEF Begins
  <2>3. card'[p] = card[p] /\ card'[q] \in {None, card[q]}
    BY <1>1, <2>1, RemoveOther, RemoveTypes
  <2> QED BY <2>1, <2>2, <2>3 DEF Serving
<1>3. ASSUME NEW ok \in BOOLEAN, MoveRename(ok)
      PROVE  Serving'
  BY <1>3 DEF MoveRename, Ends, Serving
<1>4. ASSUME NEW ok \in BOOLEAN, CopyCreate(ok)
      PROVE  Serving'
  <2>1. CASE ok
    <3>1. /\ pc = "create" /\ pc' = "copy" /\ UNCHANGED <<request, before>>
          /\ card' = [card EXCEPT ![request.dest] = "torn"]
      BY <1>4, <2>1 DEF CopyCreate, Steps
    <3>2. request \in Request /\ request.path \in Path /\ request.dest \in Path
      BY <3>1 DEF Inv, TypeOK, Stage, Request
    <3>3. card'[request.dest] = "torn" /\ card'[request.path] = card[request.path]
      BY <1>1, <3>1, <3>2 DEF Serving
    <3> QED BY <3>1, <3>3 DEF Serving
  <2>2. CASE ~ok
    BY <1>4, <2>2 DEF CopyCreate, Ends, Serving
  <2> QED BY <2>1, <2>2
<1>5. ASSUME NEW how \in {"whole", "short", "full", "left"}, CopyData(how)
      PROVE  Serving'
  BY <1>5 DEF CopyData, Ends, Serving
<1> QED BY <1>2, <1>3, <1>4, <1>5 DEF Move, Copy

(* Every step keeps what the answer is to tell.                                 *)
LEMMA NextServing == Inv /\ Serving /\ [Next]_davVars => Serving'
<1> SUFFICES ASSUME Inv, Serving, [Next]_davVars PROVE Serving'
  OBVIOUS
<1>1. CASE Put
  BY <1>1, PutServing
<1>2. CASE Move \/ Copy
  BY <1>2, MoveCopyServing
<1>3. CASE PowerLoss
  BY <1>3 DEF PowerLoss, Serving
<1>4. CASE \E p \in Path, ok \in BOOLEAN : handleDelete(p, ok) \/ handleMkcol(p, ok)
  BY <1>4 DEF handleDelete, handleMkcol, Answers, Serving
<1>5. CASE \E p, q \in Path, ok \in BOOLEAN : Refuse(p, q, ok)
  BY <1>5 DEF Refuse, Answers, Serving
<1>6. CASE UNCHANGED davVars
  BY <1>6 DEF davVars, Serving
<1> QED BY <1>1, <1>2, <1>3, <1>4, <1>5, <1>6 DEF Next

(* The destination of a MOVE that succeeds has what was at its source, unless it *)
(* lies in it.                                                                 *)
LEMMA MoveTakes ==
  ASSUME Inv, Serving, MoveRename(TRUE)
  PROVE  /\ card'[request.path] = None
         /\ Under(request.path, request.dest) \/ card'[request.dest] = card[request.path]
<1> DEFINE p == request.path
           q == request.dest
           tree == Below(p) \union {p}
<1>1. request \in Request /\ p \in Path /\ q \in Path /\ p # q
  BY DEF MoveRename, Inv, TypeOK, Stage, Serving, Request
<1>2. card' = Renamed(card, p, q, tree)
  BY DEF MoveRename
<1>3. /\ tree \in SUBSET (Below(p) \union {p}) /\ p \in tree /\ (q \in tree => Under(p, q))
      /\ \A s \in tree : s \in Path /\ (s = p \/ Under(p, s))
  BY <1>1 DEF Below
<1> HIDE DEF p, q, tree
<1>4. Rebased(p, q, p) = q
  BY <1>1, RebasedIsUnder
<1>5. \A r \in Path : Takes(card, p, q, tree, r, card'[r])
  BY <1>1, <1>2, <1>3, RenamedPlaces
<1>6. ASSUME ~Under(p, q)
      PROVE  card'[q] = card[p]
  <2>1. PICK s \in tree : Rebased(p, q, s) = q /\ card'[q] = card[s]
    BY <1>1, <1>3, <1>4, <1>5, <1>6 DEF Takes
  <2>2. s = p
    BY <1>1, <1>3, <1>4, <2>1, RebasedInjective
  <2> QED BY <2>1, <2>2
<1>7. card'[p] = None
  BY <1>1, <1>3, <1>5 DEF Takes
<1> QED BY <1>6, <1>7 DEF p, q

(* What a finished request does to its paths.                                  *)
AnswerIsTrue ==
  request # None /\ answer' # None =>
       LET p == request.path  q == request.dest IN
       CASE request.method = "PUT" ->
              IF answer' = "ok" THEN temp'[p] = None /\ (flushed => card'[p] = request.content)
              ELSE card'[p] \in {before[p], None}
         [] request.method = "MOVE" ->
              IF answer' = "ok" THEN card'[p] = None /\ (Under(p, q) \/ card'[q] = before[p])
              ELSE card'[p] = before[p]
         [] request.method = "COPY" ->
              /\ card'[p] = before[p]
              /\ answer' = "error" => card'[q] \in {None, before[q], "torn"}

(* Every answer tells what the steps before it, and its own, have done.         *)
LEMMA AnswerStep == Inv /\ Serving /\ [Next]_davVars => AnswerIsTrue
<1> SUFFICES ASSUME Inv, Serving, [Next]_davVars, request # None, answer' # None
             PROVE  AnswerIsTrue
  BY DEF AnswerIsTrue
<1> DEFINE p == request.path
           q == request.dest
<1>1. /\ pc # "idle" /\ answer = None /\ request \in Request /\ p \in Path
      /\ card \in [Path -> Item] /\ temp \in [Path -> TempItem]
  BY DEF Inv, TypeOK, TempItem, Stage, Request
<1>2. "ok" # None /\ "error" # None
  BY DavAssumption
<1>3. CASE handlePut
  <2>1. request.method = "PUT" /\ answer' = IF putOk THEN "ok" ELSE "error"
    BY <1>3 DEF handlePut, Ends, Inv, Stage
  <2>2. CASE putOk
    <3>1. answer' = "ok" /\ temp'[p] = None /\ (flushed => card'[p] = request.content)
      BY <1>3, <2>1, <2>2 DEF handlePut, Serving
    <3> QED BY <2>1, <3>1 DEF AnswerIsTrue
  <2>3. CASE ~putOk
    <3>1. answer' = "error" /\ card'[p] \in {before[p], None}
      BY <1>3, <2>1, <2>3 DEF handlePut, Serving
    <3> QED BY <2>1, <3>1 DEF AnswerIsTrue
  <2> QED BY <2>2, <2>3
<1>4. ASSUME NEW ok \in BOOLEAN, MoveRename(ok)
      PROVE  AnswerIsTrue
  <2>1. request.method = "MOVE" /\ answer' = IF ok THEN "ok" ELSE "error"
    BY <1>4 DEF MoveRename, Ends, Inv, Stage
  <2>2. card[p] = before[p]
    BY <1>4 DEF MoveRename, Serving
  <2>3. CASE ok
    BY <1>4, <2>1, <2>2, <2>3, MoveTakes DEF AnswerIsTrue
  <2>4. CASE ~ok
    BY <1>4, <2>1, <2>2, <2>4 DEF MoveRename, AnswerIsTrue
  <2> QED BY <2>3, <2>4
<1>5. ASSUME NEW ok \in BOOLEAN, CopyCreate(ok)
      PROVE  AnswerIsTrue
  <2>1. ~ok /\ request.method = "COPY" /\ answer' = "error" /\ UNCHANGED card
    BY <1>1, <1>5 DEF CopyCreate, Steps, Ends, Inv, Stage
  <2>2. card[p] = before[p] /\ card[q] \in {None, before[q]}
    BY <1>5 DEF CopyCreate, Serving
  <2> QED BY <2>1, <2>2 DEF AnswerIsTrue
<1>6. ASSUME NEW how \in {"whole", "short", "full", "left"}, CopyData(how)
      PROVE  AnswerIsTrue
  <2>1. /\ request.method = "COPY" /\ q \in Path /\ p # q /\ card[p] = before[p]
        /\ card[q] = "torn" /\ answer' = IF how \in {"full", "left"} THEN "error" ELSE "ok"
    BY <1>6 DEF CopyData, Ends, Inv, Stage, Serving
  <2>2. card'[p] = card[p]
    BY <1>1, <1>6, <2>1 DEF CopyData
  <2>3. how \in {"full", "left"} => card'[q] \in {None, "torn"}
    BY <1>1, <1>6, <2>1 DEF CopyData
  <2> QED BY <2>1, <2>2, <2>3 DEF AnswerIsTrue
<1>7. handlePut \/ (\E ok \in BOOLEAN : MoveRename(ok) \/ CopyCreate(ok))
      \/ (\E how \in {"whole", "short", "full", "left"} : CopyData(how))
  <2>1. ~PowerLoss
    BY DEF PowerLoss
  <2>2. \A s, t \in Path, ok \in BOOLEAN :
          ~handleDelete(s, ok) /\ ~handleMkcol(s, ok) /\ ~Refuse(s, t, ok)
    BY <1>1 DEF handleDelete, handleMkcol, Refuse
  <2>3. \A s, t \in Path, ok \in BOOLEAN : ~handleMove(s, t, ok) /\ ~handleCopy(s, t, ok)
    BY <1>1 DEF handleMove, handleCopy
  <2>4. /\ \A s \in Puts, c \in Content, ok \in BOOLEAN : ~RawStart(s, c, ok)
        /\ ~RawWriteFails /\ ~RawReplace /\ \A ok \in BOOLEAN : ~RawEnd(ok) /\ ~RawRename(ok)
        /\ ~RawAborted /\ answer' # answer
    BY <1>1 DEF RawStart, RawWriteFails, RawEnd, Closes, RawReplace, RawRename, RawAborted,
                Begins, Steps, Ends
  <2> QED BY <2>1, <2>2, <2>3, <2>4 DEF Next, Put, Move, Copy, davVars
<1> QED BY <1>3, <1>4, <1>5, <1>6, <1>7

(* Nothing is served at the start.                                             *)
LEMMA InitServing == Init => Serving
BY DEF Init, Serving

(* An answer is true, whatever failed on the way to it: but for a close() that   *)
(* failed, and a folder moved into itself.                                     *)
THEOREM AnswersAreTrueHolds == Spec => AnswersAreTrue
<1>1. Spec => []Inv /\ [][Next]_davVars
  BY Invariant, PTL DEF Spec
<1>2. Spec => []Serving
  BY Invariant, InitServing, NextServing, PTL DEF Spec
<1>3. [][Next]_davVars /\ []Inv /\ []Serving => [][AnswerIsTrue]_davVars
  BY AnswerStep, PTL
<1> QED BY <1>1, <1>2, <1>3 DEF AnswersAreTrue, AnswerIsTrue
-----------------------------------------------------------------------------
(* Something lies under a path, or beside it for a while.                     *)
Held(p) == card[p] # None \/ temp[p] # None

(* Everything on the card lies in folders only, all the way up: TreeOK, which    *)
(* looks at the last of them, is too weak to survive the move of a tree.        *)
Reached == \A p \in Path : Held(p) => \A a \in Path : Under(a, p) => card[a] = "dir"

(* Its last folder is one of them.                                             *)
LEMMA ReachedTree == Reached => TreeOK
BY ParentIsLast DEF Reached, Held, TreeOK, ParentIsFolder

(* A path whose folder is there has all the others above it too.                *)
LEMMA AboveFolder ==
  ASSUME Reached, NEW p \in Path, ParentIsFolder(p), NEW a \in Path, Under(a, p)
  PROVE  card[a] = "dir"
<1>1. /\ Parent(p) \in Path /\ card[Parent(p)] = "dir"
      /\ a = Parent(p) \/ Under(a, Parent(p))
  BY UnderIsDeep, ParentIsLast DEF ParentIsFolder
<1>2. Held(Parent(p))
  BY <1>1, DavAssumption DEF Held
<1> QED BY <1>1, <1>2 DEF Reached

(* A step that keeps the folders and puts things into folders only.             *)
LEMMA FoldersKept ==
  ASSUME Reached,
         \A p \in Path : card[p] = "dir" => card'[p] = "dir",
         \A p \in Path : Held(p)' => Held(p) \/ ParentIsFolder(p)
  PROVE  Reached'
<1> SUFFICES ASSUME NEW p \in Path, Held(p)', NEW a \in Path, Under(a, p)
             PROVE  card'[a] = "dir"
  BY DEF Reached
<1>1. card[a] = "dir"
  BY AboveFolder DEF Reached
<1> QED BY <1>1

(* A PUT leaves the folders alone.                                              *)
LEMMA PutReached ==
  ASSUME Inv, Serving, Reached, Put
  PROVE  Reached'
<1>1. card \in [Path -> Item] /\ temp \in [Path -> TempItem]
  BY DEF Inv, TypeOK, TempItem
<1>2. None # "dir" /\ \A c \in Content : c # None /\ c # "dir"
  BY DavAssumption
<1>3. ASSUME NEW p \in Puts, NEW c \in Content, NEW created \in BOOLEAN, RawStart(p, c, created)
      PROVE  Reached'
  <2>1. p \in Path /\ UNCHANGED card
    BY <1>3, DavAssumption DEF RawStart
  <2>2. temp' = temp \/ \E t : temp' = [temp EXCEPT ![p] = t] /\ (t = None \/ ParentIsFolder(p))
    BY <1>3 DEF RawStart, RemoveTemp
  <2> QED BY <1>1, <2>1, <2>2, FoldersKept DEF Held
<1>4. CASE RawWriteFails
  BY <1>4, FoldersKept DEF RawWriteFails, Held
<1>5. ASSUME NEW closed \in BOOLEAN, RawEnd(closed)
      PROVE  Reached'
  <2>1. request.path \in Path /\ UNCHANGED card
    BY <1>5 DEF RawEnd, Inv, TypeOK, Request
  <2>2. temp' = temp \/ (putOk /\ \E t : temp' = [temp EXCEPT ![request.path] = t])
    BY <1>5 DEF RawEnd, Closes
  <2>3. putOk => temp[request.path] # None
    BY <1>5 DEF RawEnd, Serving
  <2> QED BY <1>1, <2>1, <2>2, <2>3, FoldersKept DEF Held
<1>6. CASE RawReplace
  <2>1. request.path \in Path /\ UNCHANGED temp /\ (UNCHANGED card \/ Remove(request.path))
    BY <1>6 DEF RawReplace, Inv, TypeOK, Request
  <2> QED BY <1>1, <1>2, <2>1, FoldersKept DEF Held, Remove, IsFile
<1>7. ASSUME NEW renamed \in BOOLEAN, RawRename(renamed)
      PROVE  Reached'
  <2>1. request.path \in Path /\ temp[request.path] # None
    BY <1>2, <1>7, DavAssumption DEF RawRename, Inv, TypeOK, Stage, Request
  <2>2. /\ temp' = temp \/ temp' = [temp EXCEPT ![request.path] = None]
        /\ \/ UNCHANGED card
           \/ /\ card[request.path] = None
              /\ card' = [card EXCEPT ![request.path] = temp[request.path]]
    BY <1>7 DEF RawRename, RemoveTemp
  <2> QED BY <1>1, <1>2, <2>1, <2>2, FoldersKept DEF Held
<1>8. CASE RawAborted \/ handlePut
  <2>1. /\ UNCHANGED card
        /\ temp' = temp \/ temp' = [temp EXCEPT ![request.path] = None]
    BY <1>8 DEF RawAborted, handlePut, RemoveTemp
  <2>2. request.path \in Path
    BY <1>8 DEF RawAborted, handlePut, Inv, TypeOK, Request
  <2> QED BY <1>1, <2>1, <2>2, FoldersKept DEF Held
<1> QED BY <1>3, <1>4, <1>5, <1>6, <1>7, <1>8 DEF Put

(* Nor does a COPY, or the removal of the destination of a MOVE.                 *)
LEMMA CopyReached ==
  ASSUME Inv, Serving, Reached,
         Copy \/ \E p, q \in Path, overwrite \in BOOLEAN : handleMove(p, q, overwrite)
  PROVE  Reached'
<1>1. card \in [Path -> Item] /\ "torn" # "dir"
  BY DEF Inv, TypeOK
<1>2. None # "dir"
  BY DavAssumption
<1>3. ASSUME NEW p \in Path, NEW q \in Path, NEW overwrite \in BOOLEAN,
             handleMove(p, q, overwrite) \/ handleCopy(p, q, overwrite)
      PROVE  Reached'
  <2>1. Remove(q) /\ UNCHANGED temp
    BY <1>3 DEF handleMove, handleCopy
  <2> QED BY <1>1, <1>2, <2>1, FoldersKept DEF Held, Remove, IsFile
<1>4. ASSUME NEW ok \in BOOLEAN, CopyCreate(ok)
      PROVE  Reached'
  <2>1. UNCHANGED temp /\ request.dest \in Path
    BY <1>4 DEF CopyCreate, Inv, Stage
  <2>2. \/ UNCHANGED card
        \/ /\ card[request.dest] # "dir" /\ ParentIsFolder(request.dest)
           /\ card' = [card EXCEPT ![request.dest] = "torn"]
    BY <1>4 DEF CopyCreate
  <2> QED BY <1>1, <2>1, <2>2, FoldersKept DEF Held
<1>5. ASSUME NEW how \in {"whole", "short", "full", "left"}, CopyData(how)
      PROVE  Reached'
  <2>1. UNCHANGED temp /\ request.dest \in Path /\ card[request.dest] = "torn"
    BY <1>5 DEF CopyData, Inv, Stage, Serving
  <2>2. \E c : card' = [card EXCEPT ![request.dest] = c]
    BY <1>5 DEF CopyData
  <2>3. card[request.dest] # None
    BY <2>1, DavAssumption
  <2> QED BY <1>1, <2>1, <2>2, <2>3, FoldersKept DEF Held
<1> QED BY <1>3, <1>4, <1>5 DEF Copy

(* A folder is removed empty, or stays.                                         *)
LEMMA DeleteReached ==
  ASSUME Inv, Reached, NEW p \in Path, NEW removed \in BOOLEAN, handleDelete(p, removed)
  PROVE  Reached'
<1>1. card \in [Path -> Item] /\ UNCHANGED temp
  BY DEF Inv, TypeOK, handleDelete, Answers
<1>2. SUFFICES ASSUME removed, NEW r \in Path, Held(r)', NEW a \in Path, Under(a, r)
               PROVE  card'[a] = "dir"
  <2>1. CASE ~removed
    BY <1>1, <2>1, FoldersKept DEF handleDelete, Held
  <2> QED BY <2>1 DEF Reached
<1>3. card' = [card EXCEPT ![p] = None] /\ (card[p] = "dir" => IsEmpty(p))
  BY <1>2 DEF handleDelete
<1>4. Held(r) /\ card[a] = "dir"
  BY <1>1, <1>2, <1>3 DEF Held, Reached
<1>5. a # p
  BY <1>2, <1>3, <1>4 DEF IsEmpty, Below, Held
<1> QED BY <1>1, <1>3, <1>4, <1>5

(* A folder is made in a folder.                                                *)
LEMMA MkcolReached ==
  ASSUME Inv, Reached, NEW p \in Path, NEW made \in BOOLEAN, handleMkcol(p, made)
  PROVE  Reached'
<1>1. card \in [Path -> Item] /\ UNCHANGED temp
  BY DEF Inv, TypeOK, handleMkcol, Answers
<1>2. \/ UNCHANGED card
      \/ card[p] = None /\ ParentIsFolder(p) /\ card' = [card EXCEPT ![p] = "dir"]
  BY DEF handleMkcol
<1> QED BY <1>1, <1>2, DavAssumption, FoldersKept DEF Held

(* A tree that is moved into itself is gone whole.                              *)
LEMMA SelfReached ==
  ASSUME Inv, Serving, Reached, MoveRename(TRUE), Under(request.path, request.dest)
  PROVE  Reached'
<1> DEFINE p == request.path
           q == request.dest
           below == Below(p)
           tree == below \union {p}
<1>1. p \in Path /\ q \in Path /\ Under(p, q)
  BY DEF MoveRename, Inv, TypeOK, Stage, Request
<1>2. card' = Renamed(card, p, q, tree) /\ temp' = Renamed(temp, p, q, below)
  BY DEF MoveRename
<1>3. /\ below = {s \in Path : Under(p, s)} /\ tree = below \union {p}
      /\ tree \in SUBSET (Below(p) \union {p}) /\ below \in SUBSET (Below(p) \union {p})
  BY DEF Below
<1> HIDE DEF p, q, below, tree
<1>4. \A x \in Path : Takes(card, p, q, tree, x, card'[x])
  BY <1>1, <1>2, <1>3, RenamedPlaces
<1>5. \A x \in Path : Takes(temp, p, q, below, x, temp'[x])
  BY <1>1, <1>2, <1>3, RenamedPlaces
<1>6. \A s \in tree : Rebased(p, q, s) \in Path => Rebased(p, q, s) \in below
  BY <1>1, <1>3, IntoItself
<1>7. \A x \in Path : card'[x] = IF x \in tree THEN None ELSE card[x]
  BY <1>3, <1>4, <1>6 DEF Takes
<1>8. \A x \in Path : temp'[x] = IF x \in below THEN None ELSE temp[x]
  BY <1>3, <1>5, <1>6 DEF Takes
<1> SUFFICES ASSUME NEW r \in Path, Held(r)', NEW a \in Path, Under(a, r)
             PROVE  card'[a] = "dir"
  BY DEF Reached
<1>9. r \notin below /\ Held(r)
  BY <1>3, <1>7, <1>8 DEF Held
<1>10. card[a] = "dir"
  BY <1>9 DEF Reached
<1>11. a \notin tree
  BY <1>1, <1>3, <1>9, UnderTransitive
<1> QED BY <1>7, <1>10, <1>11

(* A tree that is moved elsewhere is moved whole, to a folder.                  *)
LEMMA MoveReached ==
  ASSUME Inv, Serving, Reached, MoveRename(TRUE), ~Under(request.path, request.dest)
  PROVE  Reached'
<1> DEFINE p == request.path
           q == request.dest
           below == Below(p)
           tree == below \union {p}
<1>1. request \in Request /\ p \in Path /\ q \in Path /\ p # q /\ Held(p)
  BY DEF MoveRename, Inv, TypeOK, Stage, Serving, Request, Held
<1>2. card[q] = None /\ ~Under(p, q) /\ ParentIsFolder(q)
  BY DEF MoveRename
<1>3. card' = Renamed(card, p, q, tree) /\ temp' = Renamed(temp, p, q, below)
  BY DEF MoveRename
<1>4. card'[q] = card[p]
  BY MoveTakes
<1>5. /\ below = {s \in Path : Under(p, s)} /\ tree = below \union {p}
      /\ tree \in SUBSET (Below(p) \union {p}) /\ below \in SUBSET (Below(p) \union {p})
  BY DEF Below
<1>6. None # "dir"
  BY DavAssumption
<1> HIDE DEF p, q, below, tree
<1>7. \A x \in Path : Under(q, x) => ~Held(x)
  BY <1>1, <1>2, <1>6 DEF Reached
<1>8. \A x \in Path : Takes(card, p, q, tree, x, card'[x])
  BY <1>1, <1>3, <1>5, RenamedPlaces
<1>9. \A x \in Path : Takes(temp, p, q, below, x, temp'[x])
  BY <1>1, <1>3, <1>5, RenamedPlaces
<1>10. ASSUME NEW a \in Path, card[a] = "dir", a \notin tree
       PROVE  card'[a] = "dir"
  <2>1. ASSUME NEW s \in tree, Rebased(p, q, s) = a
        PROVE  FALSE
    <3>1. CASE s = p
      BY <1>1, <1>2, <1>6, <1>10, <2>1, <3>1, RebasedIsUnder
    <3>2. CASE Under(p, s)
      <4>1. s \in Path
        BY <1>5, <2>1, <1>1
      <4>2. Under(q, a)
        BY <1>1, <1>10, <2>1, <3>2, <4>1, RebasedIsUnder
      <4> QED BY <1>6, <1>7, <1>10, <4>2 DEF Held
    <3> QED BY <1>5, <2>1, <3>1, <3>2
  <2> QED BY <1>8, <1>10, <2>1 DEF Takes
<1>11. ASSUME NEW a \in Path, Under(a, q)
       PROVE  card'[a] = "dir"
  <2>1. card[a] = "dir"
    BY <1>1, <1>2, <1>11, AboveFolder
  <2>2. a \notin tree
    BY <1>1, <1>2, <1>5, <1>11, UnderTransitive
  <2> QED BY <1>10, <2>1, <2>2
<1>12. ASSUME NEW r \in Path, Held(r), r \notin below, NEW a \in Path, Under(a, r)
       PROVE  card'[a] = "dir"
  <2>1. card[a] = "dir"
    BY <1>12 DEF Reached
  <2>2. a \notin tree
    BY <1>1, <1>5, <1>12, UnderTransitive
  <2> QED BY <1>10, <2>1, <2>2
<1>13. ASSUME NEW s \in below, Held(s), Rebased(p, q, s) \in Path,
              NEW a \in Path, Under(a, Rebased(p, q, s))
       PROVE  card'[a] = "dir"
  <2>1. s \in Path /\ Under(p, s) /\ card[p] = "dir"
    BY <1>1, <1>5, <1>13 DEF Reached
  <2>2. Under(q, Rebased(p, q, s))
    BY <1>1, <1>13, <2>1, RebasedIsUnder
  <2>3. CASE Under(q, a)
    <3>1. PICK t \in Path : Under(p, t) /\ Under(t, s) /\ Rebased(p, q, t) = a
      BY <1>1, <1>13, <2>1, <2>3, RebasedFolders
    <3>2. card[t] = "dir" /\ t \in tree
      BY <1>5, <1>13, <2>1, <3>1 DEF Reached
    <3>3. ~Under(q, p)
      BY <1>1, <1>7
    <3>4. a \notin tree
      BY <1>1, <1>2, <1>5, <2>3, <3>3, UnderLinear
    <3>5. PICK u \in tree : Rebased(p, q, u) = a /\ card'[a] = card[u]
      BY <1>8, <3>1, <3>2, <3>4 DEF Takes
    <3>6. u = t
      BY <1>1, <1>5, <3>1, <3>5, RebasedInjective
    <3> QED BY <3>2, <3>5, <3>6
  <2> QED BY <1>1, <1>4, <1>11, <1>13, <2>1, <2>2, <2>3, UnderLinear
<1>14. ASSUME NEW r \in Path, Held(r)', NEW a \in Path, Under(a, r)
       PROVE  card'[a] = "dir"
  <2>1. CASE card'[r] # None
    <3>1. CASE card'[r] = card[r] /\ r \notin tree
      BY <1>5, <1>12, <1>14, <2>1, <3>1 DEF Held
    <3>2. ASSUME NEW s \in tree, Rebased(p, q, s) = r, card'[r] = card[s]
          PROVE  card'[a] = "dir"
      <4>1. CASE s = p
        BY <1>1, <1>11, <1>14, <3>2, <4>1, RebasedIsUnder
      <4>2. CASE s \in below
        BY <1>13, <1>14, <2>1, <3>2, <4>2 DEF Held
      <4> QED BY <1>5, <4>1, <4>2
    <3> QED BY <1>8, <1>14, <2>1, <3>1, <3>2 DEF Takes
  <2>2. CASE temp'[r] # None
    <3>1. CASE temp'[r] = temp[r] /\ r \notin below
      BY <1>12, <1>14, <2>2, <3>1 DEF Held
    <3>2. ASSUME NEW s \in below, Rebased(p, q, s) = r, temp'[r] = temp[s]
          PROVE  card'[a] = "dir"
      BY <1>13, <1>14, <2>2, <3>2 DEF Held
    <3> QED BY <1>9, <1>14, <2>2, <3>1, <3>2 DEF Takes
  <2> QED BY <1>14, <2>1, <2>2 DEF Held
<1> QED BY <1>14 DEF Reached

(* Every step leaves everything in folders.                                     *)
LEMMA NextReached == Inv /\ Serving /\ Reached /\ [Next]_davVars => Reached'
<1> SUFFICES ASSUME Inv, Serving, Reached, [Next]_davVars PROVE Reached'
  OBVIOUS
<1>1. CASE Put
  BY <1>1, PutReached
<1>2. CASE Copy \/ \E p, q \in Path, overwrite \in BOOLEAN : handleMove(p, q, overwrite)
  BY <1>2, CopyReached
<1>3. CASE MoveRename(TRUE)
  BY <1>3, SelfReached, MoveReached
<1>4. ASSUME UNCHANGED <<card, temp>> PROVE Reached'
  BY <1>4 DEF Reached, Held
<1>5. CASE PowerLoss \/ MoveRename(FALSE) \/ UNCHANGED davVars
           \/ \E p, q \in Path, ok \in BOOLEAN : Refuse(p, q, ok)
  BY <1>4, <1>5 DEF PowerLoss, MoveRename, davVars, Refuse, Answers
<1>6. CASE \E p \in Path, ok \in BOOLEAN : handleDelete(p, ok) \/ handleMkcol(p, ok)
  BY <1>6, DeleteReached, MkcolReached
<1> QED BY <1>1, <1>2, <1>3, <1>5, <1>6 DEF Next, Move

(* The card is empty at the start.                                             *)
LEMMA InitReached == Init => Reached
BY DEF Init, NoCard, Reached, Held

(* Whatever can be named on the card, after failures or a power loss too, lies in *)
(* folders that can: no folder goes, or is moved, without what lies in it.      *)
THEOREM TreeHolds == Spec => []TreeOK
<1>1. Spec => []Inv /\ [][Next]_davVars
  BY Invariant, PTL DEF Spec
<1>2. Spec => []Serving
  BY Invariant, InitServing, NextServing, PTL DEF Spec
<1>3. Spec => []Reached
  BY <1>1, <1>2, InitReached, NextReached, PTL DEF Spec
<1> QED BY <1>3, ReachedTree, PTL
-----------------------------------------------------------------------------
(* What a request may rely on for the tree it shows: no folder is in its way.   *)
Ready ==
  /\ pc = "writing" /\ putOk => card[request.path] # "dir"
  /\ pc \in {"replace", "rename"} => card[request.path] # "dir"
  /\ pc \in {"create", "copy"} => IsFile(request.path)

(* A PUT that writes, and a COPY that does, keep folders out of their way.      *)
LEMMA NextReady == Inv /\ Serving /\ Ready /\ [Next]_davVars => Ready'
<1> SUFFICES ASSUME Inv, Serving, Ready, [Next]_davVars PROVE Ready'
  OBVIOUS
<1>1. card \in [Path -> Item] /\ None # "dir"
  BY DavAssumption DEF Inv, TypeOK
<1>2. ASSUME NEW p \in Puts, NEW c \in Content, NEW created \in BOOLEAN, RawStart(p, c, created)
      PROVE  Ready'
  <2>1. p \in Path /\ c \in Content \union {None} /\ Begins("PUT", p, None, c, "writing")
    BY <1>2, DavAssumption DEF RawStart
  <2>2. request'.path = p /\ pc' = "writing" /\ UNCHANGED card
    BY <1>2, <2>1, BeginsRequest DEF Begins, RawStart
  <2>3. putOk' => card[p] # "dir"
    BY <1>2 DEF RawStart
  <2> QED BY <2>2, <2>3 DEF Ready
<1>3. CASE RawWriteFails \/ \E closed \in BOOLEAN : RawEnd(closed)
  BY <1>3 DEF RawWriteFails, RawEnd, Closes, Steps, Ready
<1>4. CASE RawReplace
  <2>1. request.path \in Path
    BY <1>4 DEF RawReplace, Inv, TypeOK, Request
  <2>2. card'[request.path] \in {card[request.path], None}
    BY <1>1, <1>4, <2>1, RemoveTypes DEF RawReplace
  <2> QED BY <1>1, <1>4, <2>2 DEF RawReplace, Steps, Ready
<1>5. CASE RawAborted \/ handlePut \/ PowerLoss \/ MoveRename(TRUE) \/ MoveRename(FALSE)
           \/ CopyCreate(FALSE) \/ \E how \in {"whole", "short", "full", "left"} : CopyData(how)
  BY <1>5 DEF RawAborted, handlePut, PowerLoss, MoveRename, CopyCreate, CopyData, Ends, Ready
<1>6. CASE \E ok \in BOOLEAN : RawRename(ok)
  BY <1>6 DEF RawRename, Steps, Ready
<1>7. ASSUME NEW p \in Path, NEW q \in Path, NEW overwrite \in BOOLEAN, handleMove(p, q, overwrite)
      PROVE  Ready'
  BY <1>7 DEF handleMove, Begins, Ready
<1>8. ASSUME NEW p \in Path, NEW q \in Path, NEW overwrite \in BOOLEAN, handleCopy(p, q, overwrite)
      PROVE  Ready'
  <2>1. IsFile(p) /\ p # q /\ Remove(q) /\ Begins("COPY", p, q, None, "create")
    BY <1>8 DEF handleCopy, Accepted
  <2>2. request'.path = p /\ pc' = "create"
    BY <2>1, BeginsRequest DEF Begins
  <2>3. card'[p] = card[p]
    BY <1>1, <2>1, RemoveOther
  <2> QED BY <2>1, <2>2, <2>3 DEF Ready, IsFile
<1>9. CASE CopyCreate(TRUE)
  <2>1. /\ pc = "create" /\ pc' = "copy" /\ UNCHANGED request
        /\ card' = [card EXCEPT ![request.dest] = "torn"]
    BY <1>9 DEF CopyCreate, Steps
  <2>2. request.path \in Path /\ request.dest # request.path /\ IsFile(request.path)
    BY <2>1 DEF Inv, TypeOK, Request, Serving, Ready
  <2> QED BY <1>1, <2>1, <2>2 DEF Ready, IsFile
<1>10. CASE \E p, q \in Path, ok \in BOOLEAN :
              handleDelete(p, ok) \/ handleMkcol(p, ok) \/ Refuse(p, q, ok)
  BY <1>10 DEF handleDelete, handleMkcol, Refuse, Answers, Ready
<1>11. CASE UNCHANGED davVars
  BY <1>11 DEF davVars, Ready, IsFile
<1> QED BY <1>2, <1>3, <1>4, <1>5, <1>6, <1>7, <1>8, <1>9, <1>10, <1>11
        DEF Next, Put, Move, Copy

(* Nothing is served at the start.                                             *)
LEMMA InitReady == Init => Ready
BY DEF Init, Ready
-----------------------------------------------------------------------------
(* The tree that is shown: the card, but for the file of a PUT whose original is *)
(* gone, and for a copy that is not complete.                                  *)
SeenIs ==
  /\ Unsettled => /\ Seen = [card EXCEPT ![request.path] = temp[request.path]]
                  /\ PutStage = "stored"
  /\ pc = "copy" => Seen = [card EXCEPT ![request.dest] = None]
  /\ ~Unsettled /\ pc # "copy" => Seen = card
  /\ ~Unsettled => PutStage = IF pc = "answer" THEN "done" ELSE "begun"

LEMMA SeenNow == Inv => SeenIs
<1> SUFFICES ASSUME Inv PROVE SeenIs
  OBVIOUS
<1>1. card \in [Path -> Item]
  BY DEF Inv, TypeOK
<1>2. ASSUME Unsettled PROVE Seen = [card EXCEPT ![request.path] = temp[request.path]]
  <2>1. pc = "rename"
    BY <1>2 DEF Unsettled
  <2> QED BY <1>1, <1>2, <2>1 DEF Seen
<1>3. ASSUME pc = "copy" PROVE Seen = [card EXCEPT ![request.dest] = None]
  BY <1>1, <1>3 DEF Seen, Unsettled
<1>4. ASSUME ~Unsettled, pc # "copy" PROVE Seen = card
  BY <1>1, <1>4 DEF Seen
<1> QED BY <1>2, <1>3, <1>4 DEF SeenIs, PutStage

(* The same after a step.                                                      *)
LEMMA SeenThen == Inv' => SeenIs'
BY SeenNow, PTL

(* Within is under or the same, and the folder of a path is its parent.         *)
LEMMA WithinIsUnder ==
  ASSUME NEW p \in Path, NEW r \in Path
  PROVE  Shown!Within(p, r) <=> r = p \/ Under(p, r)
<1>1. p \in Seq(STRING) /\ r \in Seq(STRING) /\ Len(p) \in Nat /\ Len(r) \in Nat
  BY UnderByNames
<1>2. SubSeq(r, 1, Len(r)) = r
  <2>1. \A i \in 1..Len(r) : r[i] \in STRING
    BY <1>1, ElementOfSeq
  <2>2. /\ SubSeq(r, 1, Len(r)) \in Seq(STRING) /\ Len(SubSeq(r, 1, Len(r))) = Len(r)
        /\ \A i \in 1..Len(r) : SubSeq(r, 1, Len(r))[i] = r[i]
    BY <1>1, <2>1, SubSeqProperties
  <2> QED BY <1>1, <2>2, SeqEqual
<1>3. CASE Len(p) = Len(r)
  BY <1>1, <1>2, <1>3 DEF Shown!Within, Under
<1>4. CASE Len(p) # Len(r)
  BY <1>1, <1>4 DEF Shown!Within, Under
<1> QED BY <1>3, <1>4

(* Below what is no folder there is nothing; above what is there are folders.   *)
LEMMA NothingBelow ==
  ASSUME Inv, Reached, NEW p \in Path, card[p] # "dir",
         pc # "copy", Unsettled => p = request.path
  PROVE  Shown!Empty(p)
<1>1. card \in [Path -> Item]
  BY DEF Inv, TypeOK
<1>2. ASSUME NEW r \in Path, Under(p, r)
      PROVE  card[r] = None /\ r # p
  BY <1>2, UnderIsDeep DEF Reached, Held
<1>3. \/ Seen = card
      \/ p = request.path /\ Seen = [card EXCEPT ![request.path] = temp[request.path]]
  BY SeenNow DEF SeenIs
<1>4. \A r \in Path : Under(p, r) => Seen[r] = None
  BY <1>1, <1>2, <1>3
<1> QED BY <1>4, WithinIsUnder DEF Shown!Empty

LEMMA FoldersShown ==
  ASSUME Inv, Serving, Ready, NEW p \in Path, ParentIsFolder(p)
  PROVE  Shown!HasFolder(p)
<1> SUFFICES ASSUME Len(p) > 1 PROVE Seen[Parent(p)] = "dir"
  BY DEF Shown!HasFolder, Parent
<1>1. card \in [Path -> Item] /\ Parent(p) \in Path /\ card[Parent(p)] = "dir"
  BY ParentIsLast DEF Inv, TypeOK, ParentIsFolder
<1>2. CASE Unsettled
  <2>1. Parent(p) # request.path
    BY <1>1, <1>2, DavAssumption DEF Unsettled
  <2> QED BY <1>1, <1>2, <2>1, SeenNow DEF SeenIs
<1>3. CASE pc = "copy"
  <2>1. Parent(p) # request.dest
    BY <1>1, <1>3 DEF Serving
  <2> QED BY <1>1, <1>3, <2>1, SeenNow DEF SeenIs
<1>4. CASE ~Unsettled /\ pc # "copy"
  BY <1>1, <1>4, SeenNow DEF SeenIs
<1> QED BY <1>2, <1>3, <1>4

(* Whatever there is on the card has its folder.                                *)
LEMMA HeldHasFolder ==
  ASSUME Reached, NEW p \in Path, Held(p)
  PROVE  ParentIsFolder(p)
BY ParentIsLast DEF Reached, ParentIsFolder
-----------------------------------------------------------------------------
(* Where what is moved comes from is told by its names as where it goes to.     *)
LEMMA MovedBack ==
  ASSUME NEW p \in Path, NEW q \in Path, NEW s \in Path, NEW r \in Path,
         s = p \/ Under(p, s), r = q \/ Under(q, r), Moved(p, q, s, r)
  PROVE  Moved(q, p, r, s)
<1>1. /\ s \in Seq(STRING) /\ Len(p) \in Nat /\ Len(q) \in Nat /\ Len(s) \in Nat /\ Len(r) \in Nat
      /\ \A i \in 1..Len(p) : s[i] = p[i]
  BY UnderByNames
<1>2. /\ Len(r) = Len(q) + Len(s) - Len(p)
      /\ \A i \in Len(p) + 1 .. Len(s) : r[i - Len(p) + Len(q)] = s[i]
  BY DEF Moved
<1>3. ASSUME NEW j \in Len(q) + 1 .. Len(r)
      PROVE  s[j - Len(q) + Len(p)] = r[j]
  <2> DEFINE i == j - Len(q) + Len(p)
  <2>1. i \in Len(p) + 1 .. Len(s) /\ i - Len(p) + Len(q) = j
    BY <1>1, <1>2
  <2> QED BY <1>2, <2>1
<1>4. Len(s) = Len(p) + Len(r) - Len(q)
  BY <1>1, <1>2
<1> QED BY <1>1, <1>3, <1>4 DEF Moved

(* What FileTree lets a MOVE make of the tree, were it the card.                *)
Moves(p, q) ==
  [r \in Path |-> IF Shown!Within(p, r) THEN None
                  ELSE IF ~Shown!Within(q, r) THEN card[r]
                  ELSE IF Shown!Source(p, q, r) \in Path THEN card[Shown!Source(p, q, r)]
                  ELSE None]

(* The rename of a MOVE takes along all that lies below, and nothing else.      *)
LEMMA MoveIsMoved ==
  ASSUME Inv, Serving, Reached, MoveRename(TRUE), ~Under(request.path, request.dest)
  PROVE  card' = Moves(request.path, request.dest)
<1> DEFINE p == request.path
           q == request.dest
           tree == Below(p) \union {p}
<1>1. p \in Path /\ q \in Path /\ p # q /\ ~Under(p, q) /\ card[q] = None
  BY DEF MoveRename, Inv, TypeOK, Stage, Serving, Request
<1>2. card' = Renamed(card, p, q, tree)
  BY DEF MoveRename
<1>3. /\ tree \in SUBSET (Below(p) \union {p})
      /\ \A s : s \in tree <=> s \in Path /\ (s = p \/ Under(p, s))
  BY <1>1 DEF Below
<1> HIDE DEF p, q, tree
<1>4. ASSUME NEW r \in Path, r = q \/ Under(q, r)
      PROVE  card[r] = None
  BY <1>1, <1>4, DavAssumption DEF Reached, Held
<1>5. \A r \in Path : Takes(card, p, q, tree, r, card'[r])
  BY <1>1, <1>2, <1>3, RenamedPlaces
<1>6. ASSUME NEW r \in Path
      PROVE  card'[r] = Moves(p, q)[r]
  <2>1. CASE r \in tree
    BY <1>1, <1>3, <1>5, <1>6, <2>1, WithinIsUnder DEF Takes, Moves
  <2>2. CASE r \notin tree /\ ~(r = q \/ Under(q, r))
    <3>1. ASSUME NEW s \in tree, Rebased(p, q, s) = r PROVE FALSE
      BY <1>1, <1>3, <1>6, <2>2, <3>1, RebasedIsUnder
    <3>2. card'[r] = card[r]
      BY <1>5, <1>6, <2>2, <3>1 DEF Takes
    <3> QED BY <1>1, <1>3, <1>6, <2>2, <3>2, WithinIsUnder DEF Moves
  <2>3. CASE r \notin tree /\ (r = q \/ Under(q, r))
    <3> DEFINE u == Rebased(q, p, r)
    <3>1. Moved(q, p, r, u)
      BY <1>1, <1>6, <2>3, RebasedByNames
    <3>2. Moves(p, q)[r] = IF u \in Path THEN card[u] ELSE None
      BY <1>1, <1>3, <1>6, <2>3, WithinIsUnder DEF Moves, Shown!Source, Rebased
    <3> HIDE DEF u
    <3>3. CASE u \in Path
      <4>1. u \in tree
        BY <1>1, <1>3, <1>6, <2>3, <3>3, RebasedIsUnder DEF u
      <4>2. Moved(p, q, u, r) /\ Moved(p, q, u, Rebased(p, q, u))
        BY <1>1, <1>3, <1>6, <2>3, <3>1, <4>1, MovedBack, RebasedByNames
      <4>3. Rebased(p, q, u) = r
        BY <1>1, <1>3, <1>6, <4>1, <4>2, MovedIsOne
      <4>4. PICK s \in tree : Rebased(p, q, s) = r /\ card'[r] = card[s]
        BY <1>5, <1>6, <2>3, <4>1, <4>3 DEF Takes
      <4>5. s = u
        BY <1>1, <1>3, <4>1, <4>3, <4>4, RebasedInjective
      <4> QED BY <3>2, <3>3, <4>4, <4>5
    <3>4. CASE u \notin Path
      <4>1. ASSUME NEW s \in tree, Rebased(p, q, s) = r PROVE FALSE
        <5>1. Moved(p, q, s, r)
          BY <1>1, <1>3, <4>1, RebasedByNames
        <5>2. Moved(q, p, r, s)
          BY <1>1, <1>3, <1>6, <2>3, <4>1, <5>1, MovedBack
        <5>3. s = u
          BY <1>1, <1>6, <2>3, <3>1, <5>2, MovedIsOne
        <5> QED BY <1>3, <3>4, <5>3
      <4>2. card'[r] = card[r] /\ card[r] = None
        BY <1>4, <1>5, <1>6, <2>3, <4>1 DEF Takes
      <4> QED BY <3>2, <3>4, <4>2
    <3> QED BY <3>3, <3>4
  <2> QED BY <2>1, <2>2, <2>3
<1>7. card' = [r \in Path |-> card'[r]]
  BY <1>2 DEF Renamed
<1> QED BY <1>6, <1>7 DEF Moves, p, q

(* Into itself, nothing of it is left.                                         *)
LEMMA SelfIsMoved ==
  ASSUME Inv, MoveRename(TRUE), Under(request.path, request.dest)
  PROVE  card' = Moves(request.path, request.dest)
<1> DEFINE p == request.path
           q == request.dest
           tree == Below(p) \union {p}
<1>1. p \in Path /\ q \in Path /\ Under(p, q)
  BY DEF MoveRename, Inv, TypeOK, Stage, Request
<1>2. card' = Renamed(card, p, q, tree)
  BY DEF MoveRename
<1>3. /\ tree \in SUBSET (Below(p) \union {p})
      /\ \A s : s \in tree <=> s \in Path /\ (s = p \/ Under(p, s))
  BY <1>1 DEF Below
<1> HIDE DEF p, q, tree
<1>4. \A r \in Path : Takes(card, p, q, tree, r, card'[r])
  BY <1>1, <1>2, <1>3, RenamedPlaces
<1>5. \A s \in tree : Rebased(p, q, s) \in Path => Rebased(p, q, s) \in tree
  BY <1>1, <1>3, IntoItself
<1>6. ASSUME NEW r \in Path
      PROVE  card'[r] = Moves(p, q)[r]
  <2>1. card'[r] = IF r \in tree THEN None ELSE card[r]
    BY <1>4, <1>5, <1>6 DEF Takes
  <2>2. r \in tree <=> Shown!Within(p, r)
    BY <1>1, <1>3, <1>6, WithinIsUnder
  <2>3. Shown!Within(q, r) => Shown!Within(p, r)
    BY <1>1, <1>6, WithinIsUnder, UnderTransitive
  <2> QED BY <1>6, <2>1, <2>2, <2>3 DEF Moves
<1>7. card' = [r \in Path |-> card'[r]]
  BY <1>2 DEF Renamed
<1> QED BY <1>6, <1>7 DEF Moves, p, q
-----------------------------------------------------------------------------
(* Each step is one on the tree that is shown, or none.                         *)
Serves == Inv /\ Serving /\ Reached /\ Ready
ShownStep == Shown!Next \/ UNCHANGED Shown!vars

(* A request that begins changes nothing, or makes room.                        *)
LEMMA BeginShown ==
  ASSUME Serves, Inv',
         \/ \E p \in Puts, c \in Content, ok \in BOOLEAN : RawStart(p, c, ok)
         \/ \E p, q \in Path, ok \in BOOLEAN : handleMove(p, q, ok) \/ handleCopy(p, q, ok)
  PROVE  ShownStep
<1>1. /\ pc = "idle" /\ pc' \in {"writing", "move", "create"}
      /\ request = None /\ request' # None
  BY DEF RawStart, handleMove, handleCopy, Begins, Serves, Inv, TypeOK
<1>2. Seen = card /\ Seen' = card' /\ PutStage = "begun" /\ PutStage' = "begun"
  BY <1>1, SeenNow, SeenThen DEF SeenIs, Unsettled, Serves
<1>3. CASE UNCHANGED card
  BY <1>1, <1>2, <1>3 DEF ShownStep, Shown!Next, Shown!Begin
<1>4. CASE ~UNCHANGED card
  <2>1. PICK p \in Path, q \in Path, method \in {"MOVE", "COPY"}, step \in {"move", "create"} :
          Remove(q) /\ Begins(method, p, q, None, step)
    BY <1>4 DEF RawStart, handleMove, handleCopy
  <2>2. request'.method = method /\ request'.dest = q
    BY <2>1, BeginsRequest
  <2>3. card[q] \notin {None, "dir"} /\ card' = [card EXCEPT ![q] = None]
    BY <1>4, <2>1 DEF Remove, IsFile
  <2>4. Shown!Empty(q)
    BY <1>1, <2>3, NothingBelow DEF Unsettled, Serves
  <2> QED BY <1>1, <1>2, <2>2, <2>3, <2>4
          DEF ShownStep, Shown!Next, Shown!Begin, Shown!Removes, Shown!Places
<1> QED BY <1>3, <1>4

(* What a PUT writes is not seen until it is stored.                            *)
LEMMA WriteShown ==
  ASSUME Serves, Inv', \/ \E closed \in BOOLEAN : RawEnd(closed)
                       \/ RawWriteFails \/ RawAborted \/ handlePut
  PROVE  ShownStep
<1>1. pc \in {"writing", "answer"} /\ request # None /\ request.method = "PUT"
  BY DEF RawWriteFails, RawEnd, RawAborted, handlePut, Serves, Inv, Stage, TypeOK
<1>2. Seen = card /\ PutStage = IF pc = "answer" THEN "done" ELSE "begun"
  BY <1>1, SeenNow DEF SeenIs, Unsettled, Serves
<1>3. pc' \in {"writing", "replace", "answer", "idle"} /\ UNCHANGED card
  BY <1>1 DEF RawWriteFails, RawEnd, Closes, RawAborted, handlePut, Steps, Ends
<1>4. Seen' = card' /\ PutStage' = IF pc' = "answer" THEN "done" ELSE "begun"
  BY <1>3, SeenThen DEF SeenIs, Unsettled
<1>5. CASE RawWriteFails
  BY <1>2, <1>3, <1>4, <1>5 DEF RawWriteFails, ShownStep, Shown!vars
<1>6. CASE \E closed \in BOOLEAN : RawEnd(closed)
  <2>1. pc = "writing" /\ pc' \in {"replace", "answer"} /\ UNCHANGED request
    BY <1>6 DEF RawEnd, Closes, Steps
  <2> QED BY <1>1, <1>2, <1>3, <1>4, <2>1
          DEF ShownStep, Shown!vars, Shown!Next, Shown!Settle, Shown!Asks
<1>7. CASE RawAborted \/ handlePut
  <2>1. request' = None /\ pc' = "idle"
    BY <1>7 DEF RawAborted, handlePut, Ends
  <2> QED BY <1>1, <1>2, <1>3, <1>4, <2>1 DEF ShownStep, Shown!Next, Shown!End, Shown!Ends
<1> QED BY <1>5, <1>6, <1>7

(* A PUT is stored when its original is gone.                                   *)
LEMMA ReplaceShown ==
  ASSUME Serves, Inv', RawReplace
  PROVE  ShownStep
<1> DEFINE p == request.path
<1>1. /\ pc = "replace" /\ pc' = "rename" /\ UNCHANGED <<request, temp>>
      /\ card' = card \/ Remove(p)
  BY DEF RawReplace, Steps
<1>2. /\ p \in Path /\ request # None /\ request.method = "PUT"
      /\ temp[p] \in {request.content, "torn"} /\ card[p] # "dir"
      /\ card \in [Path -> Item] /\ temp \in [Path -> TempItem]
  BY <1>1 DEF Serves, Inv, Stage, TypeOK, TempItem, Request, Ready
<1>3. Seen = card /\ PutStage = "begun"
  BY <1>1, SeenNow DEF SeenIs, Unsettled, Serves
<1>4. CASE card'[p] # None
  <2>1. card' = card
    BY <1>1, <1>2, <1>4 DEF Remove
  <2>2. Seen' = card' /\ PutStage' = "begun"
    BY <1>1, <1>4, SeenThen DEF SeenIs, Unsettled
  <2> QED BY <1>1, <1>3, <2>1, <2>2 DEF ShownStep, Shown!vars
<1>5. CASE card'[p] = None
  <2>1. Seen' = [card' EXCEPT ![p] = temp[p]] /\ PutStage' = "stored"
    BY <1>1, <1>5, SeenThen DEF SeenIs, Unsettled
  <2>2. [card' EXCEPT ![p] = temp[p]] = [card EXCEPT ![p] = temp[p]]
    BY <1>1, <1>2 DEF Remove
  <2>3. Held(p)
    <3>1. request.content \in Content
      BY <1>1 DEF Serves, Inv, Stage
    <3> QED BY <1>2, <3>1, DavAssumption DEF Held
  <2>4. Shown!HasFolder(p)
    BY <1>2, <2>3, HeldHasFolder, FoldersShown DEF Serves
  <2> HIDE DEF p
  <2>5. Shown!Store
    BY <1>1, <1>2, <1>3, <2>1, <2>2, <2>4 DEF Shown!Store, Shown!Asks, Shown!Places, p
  <2> QED BY <2>5 DEF ShownStep, Shown!Next
<1> QED BY <1>4, <1>5

(* What is stored and then lost was the file of the PUT only.                   *)
LEMMA LostShown ==
  ASSUME Serves, Unsettled, Seen' = card, UNCHANGED card
  PROVE  Shown!Removes(request.path)
<1> DEFINE p == request.path
<1>1. pc = "rename" /\ card[p] = None
  BY DEF Unsettled
<1>2. p \in Path /\ card \in [Path -> Item] /\ temp[p] # None
  BY <1>1, DavAssumption DEF Serves, Inv, Stage, TypeOK, Request
<1>3. Seen = [card EXCEPT ![p] = temp[p]]
  BY SeenNow DEF SeenIs, Serves
<1>4. Shown!Empty(p)
  BY <1>1, <1>2, DavAssumption, NothingBelow DEF Serves
<1>5. Seen[p] # None /\ Seen' = [Seen EXCEPT ![p] = None]
  BY <1>1, <1>2, <1>3
<1> QED BY <1>4, <1>5 DEF Shown!Removes, Shown!Places

(* The rename settles what was stored, or loses it.                             *)
LEMMA RenameShown ==
  ASSUME Serves, Inv', NEW renamed \in BOOLEAN, RawRename(renamed)
  PROVE  ShownStep
<1>1. /\ pc = "rename" /\ pc' = "answer" /\ UNCHANGED request
      /\ request # None /\ request.method = "PUT"
  BY DEF RawRename, Steps, Serves, Inv, Stage, TypeOK
<1>2. Seen' = card' /\ PutStage' = "done"
  BY <1>1, SeenThen DEF SeenIs, Unsettled
<1>3. PutStage # "done" /\ (Unsettled => PutStage = "stored")
  BY <1>1, SeenNow DEF SeenIs, Serves
<1>4. CASE Unsettled /\ renamed
  <2>1. Seen = card'
    BY <1>4, SeenNow DEF SeenIs, RawRename, Serves
  <2> QED BY <1>1, <1>2, <1>3, <2>1 DEF ShownStep, Shown!Next, Shown!Settle, Shown!Asks
<1>5. CASE Unsettled /\ ~renamed
  <2>1. Shown!Removes(request.path)
    BY <1>2, <1>5, LostShown DEF RawRename
  <2> QED BY <1>1, <1>2, <1>3, <1>5, <2>1 DEF ShownStep, Shown!Next, Shown!Lose
<1>6. CASE ~Unsettled
  <2>1. UNCHANGED card /\ Seen = card
    BY <1>1, <1>6, SeenNow DEF SeenIs, RawRename, Unsettled, Serves
  <2> QED BY <1>1, <1>2, <1>3, <2>1 DEF ShownStep, Shown!Next, Shown!Settle, Shown!Asks
<1> QED BY <1>4, <1>5, <1>6

(* The rename of a MOVE moves the tree that is shown, or ends.                  *)
LEMMA MoveShown ==
  ASSUME Serves, Inv', NEW renamed \in BOOLEAN, MoveRename(renamed)
  PROVE  ShownStep
<1> DEFINE p == request.path
           q == request.dest
<1>1. /\ pc = "move" /\ pc' = "idle" /\ request # None /\ request' = None
      /\ request.method = "MOVE" /\ p \in Path /\ q \in Path /\ p # q /\ card[p] # None
  BY DEF MoveRename, Ends, Serves, Inv, Stage, TypeOK, Request, Serving
<1>2. Seen = card /\ Seen' = card' /\ PutStage = "begun" /\ PutStage' = "begun"
  BY <1>1, SeenNow, SeenThen DEF SeenIs, Unsettled, Serves
<1>3. CASE renamed
  <2>1. card[q] = None /\ ParentIsFolder(q)
    BY <1>3 DEF MoveRename
  <2>2. Shown!HasFolder(q)
    BY <1>1, <2>1, FoldersShown DEF Serves
  <2>3. card' = Moves(p, q)
    BY <1>3, MoveIsMoved, SelfIsMoved DEF Serves
  <2>4. Shown!Moved(p, q) = Moves(p, q)
    BY <1>2 DEF Shown!Moved, Moves
  <2>5. Shown!Move
    BY <1>1, <1>2, <2>1, <2>2, <2>3, <2>4 DEF Shown!Move, Shown!Asks, Shown!Free, Shown!Ends
  <2> QED BY <2>5 DEF ShownStep, Shown!Next
<1>4. CASE ~renamed
  <2>1. UNCHANGED card
    BY <1>4 DEF MoveRename
  <2> QED BY <1>1, <1>2, <2>1 DEF ShownStep, Shown!Next, Shown!End, Shown!Ends
<1> QED BY <1>3, <1>4

(* A COPY makes room for the copy, and shows it when it is complete.            *)
LEMMA CreateShown ==
  ASSUME Serves, Inv', NEW created \in BOOLEAN, CopyCreate(created)
  PROVE  ShownStep
<1> DEFINE q == request.dest
<1>1. /\ pc = "create" /\ request # None /\ request.method = "COPY" /\ q \in Path
      /\ card \in [Path -> Item]
  BY DEF CopyCreate, Serves, Inv, Stage, TypeOK
<1>2. Seen = card /\ PutStage = "begun"
  BY <1>1, SeenNow DEF SeenIs, Unsettled, Serves
<1>3. CASE created
  <2>1. /\ pc' = "copy" /\ UNCHANGED request
        /\ card' = [card EXCEPT ![q] = "torn"] /\ card[q] # "dir"
    BY <1>3 DEF CopyCreate, Steps
  <2>2. Seen' = [card EXCEPT ![q] = None] /\ PutStage' = "begun"
    BY <1>1, <2>1, SeenThen DEF SeenIs, Unsettled
  <2>3. CASE card[q] = None
    BY <1>1, <1>2, <2>1, <2>2, <2>3 DEF ShownStep, Shown!vars
  <2>4. CASE card[q] # None
    <3>1. Shown!Empty(q)
      BY <1>1, <2>1, NothingBelow DEF Unsettled, Serves
    <3>2. Shown!Removes(q)
      BY <1>2, <2>2, <2>4, <3>1 DEF Shown!Removes, Shown!Places
    <3> QED BY <1>1, <1>2, <2>1, <2>2, <3>2 DEF ShownStep, Shown!Next, Shown!MakeRoom, Shown!Asks
  <2> QED BY <2>3, <2>4
<1>4. CASE ~created
  <2>1. request' = None /\ pc' = "idle" /\ UNCHANGED card
    BY <1>4 DEF CopyCreate, Ends
  <2>2. Seen' = card' /\ PutStage' = "begun"
    BY <2>1, SeenThen DEF SeenIs, Unsettled
  <2> QED BY <1>1, <1>2, <2>1, <2>2 DEF ShownStep, Shown!Next, Shown!End, Shown!Ends
<1> QED BY <1>3, <1>4

(* What a copy is, is seen once the request has ended, whatever ended it.       *)
LEMMA CopyEnds ==
  ASSUME Serves, Inv', pc = "copy", request' = None, pc' = "idle",
         \E item \in {card[request.path], "torn", None} :
           card' = [card EXCEPT ![request.dest] = item]
  PROVE  ShownStep
<1> DEFINE p == request.path
           q == request.dest
<1>1. /\ request # None /\ request.method = "COPY" /\ p \in Path /\ q \in Path /\ p # q
      /\ card \in [Path -> Item] /\ card[p] \notin {None, "dir"} /\ card[q] = "torn"
  BY DEF Serves, Inv, Stage, TypeOK, Request, Serving, Ready, IsFile
<1>2. Seen = [card EXCEPT ![q] = None] /\ PutStage = "begun"
  BY SeenNow DEF SeenIs, Unsettled, Serves
<1>3. Seen' = card' /\ PutStage' = "begun"
  BY SeenThen DEF SeenIs, Unsettled
<1>4. PICK item \in {card[p], "torn", None} : card' = [card EXCEPT ![q] = item]
  OBVIOUS
<1>5. Seen[q] = None /\ Seen[p] = card[p] /\ card' = [Seen EXCEPT ![q] = item]
  BY <1>1, <1>2, <1>4
<1>6. CASE item = None
  <2>1. Seen' = Seen
    BY <1>1, <1>2, <1>3, <1>4, <1>6
  <2> QED BY <1>1, <1>2, <1>3, <2>1 DEF ShownStep, Shown!Next, Shown!End, Shown!Ends
<1>7. CASE item # None
  <2>1. Held(q)
    BY <1>1, DavAssumption DEF Held
  <2>2. Shown!HasFolder(q)
    BY <1>1, <2>1, HeldHasFolder, FoldersShown DEF Serves
  <2>3. Shown!Copy
    BY <1>1, <1>3, <1>4, <1>5, <1>7, <2>2
       DEF Shown!Copy, Shown!Asks, Shown!Free, Shown!Ends, Shown!Places
  <2> QED BY <2>3 DEF ShownStep, Shown!Next
<1> QED BY <1>6, <1>7

LEMMA DataShown ==
  ASSUME Serves, Inv', NEW how \in {"whole", "short", "full", "left"}, CopyData(how)
  PROVE  ShownStep
<1>1. pc = "copy" /\ request' = None /\ pc' = "idle"
  BY DEF CopyData, Ends
<1>2. card[request.dest] = "torn"
  BY <1>1 DEF Serves, Serving
<1>3. \E item \in {card[request.path], "torn", None} : card' = [card EXCEPT ![request.dest] = item]
  BY <1>2 DEF CopyData
<1> QED BY <1>1, <1>3, CopyEnds

(* Without power a request has ended; what was stored may be lost.              *)
LEMMA PowerLossShown ==
  ASSUME Serves, Inv', PowerLoss
  PROVE  ShownStep
<1>1. request' = None /\ pc' = "idle" /\ UNCHANGED card
  BY DEF PowerLoss
<1>2. Seen' = card' /\ PutStage' = "begun"
  BY <1>1, SeenThen DEF SeenIs, Unsettled
<1>3. CASE Unsettled
  <2>1. PutStage = "stored"
    BY <1>3, SeenNow DEF SeenIs, Serves
  <2>2. Shown!Removes(request.path)
    BY <1>1, <1>2, <1>3, LostShown
  <2> QED BY <1>1, <1>2, <2>1, <2>2 DEF ShownStep, Shown!Next, Shown!Lose, Shown!Ends
<1>4. CASE pc = "copy"
  <2>1. card[request.dest] = "torn" /\ card \in [Path -> Item]
    BY <1>4 DEF Serves, Serving, Inv, TypeOK
  <2>2. card' = [card EXCEPT ![request.dest] = "torn"]
    BY <1>1, <2>1
  <2> QED BY <1>1, <1>4, <2>2, CopyEnds
<1>5. CASE ~Unsettled /\ pc # "copy"
  <2>1. Seen = card /\ PutStage = IF pc = "answer" THEN "done" ELSE "begun"
    BY <1>5, SeenNow DEF SeenIs, Serves
  <2>2. CASE request = None
    <3>1. pc = "idle"
      BY <2>2 DEF Serves, Inv, TypeOK
    <3> QED BY <1>1, <1>2, <2>1, <2>2, <3>1 DEF ShownStep, Shown!vars
  <2>3. CASE request # None
    BY <1>1, <1>2, <2>1, <2>3 DEF ShownStep, Shown!Next, Shown!End, Shown!Ends
  <2> QED BY <2>2, <2>3
<1> QED BY <1>3, <1>4, <1>5

(* Requests of one operation are one step of the tree that is shown.            *)
LEMMA SingleShown ==
  ASSUME Serves, Inv', NEW p \in Path, NEW q \in Path, NEW ok \in BOOLEAN,
         handleDelete(p, ok) \/ handleMkcol(p, ok) \/ Refuse(p, q, ok)
  PROVE  ShownStep
<1>1. /\ pc = "idle" /\ pc' = "idle" /\ request = None /\ UNCHANGED request
      /\ card \in [Path -> Item]
  BY DEF handleDelete, handleMkcol, Refuse, Answers, Serves, Inv, TypeOK
<1>2. Seen = card /\ Seen' = card' /\ PutStage = "begun" /\ PutStage' = "begun"
  BY <1>1, SeenNow, SeenThen DEF SeenIs, Unsettled, Serves
<1>3. CASE UNCHANGED card
  BY <1>1, <1>2, <1>3 DEF ShownStep, Shown!vars
<1>4. CASE handleDelete(p, ok) /\ ok
  <2>1. card[p] # None /\ card' = [card EXCEPT ![p] = None] /\ (card[p] = "dir" => IsEmpty(p))
    BY <1>4 DEF handleDelete
  <2>2. Shown!Empty(p)
    <3>1. CASE card[p] = "dir"
      BY <1>2, <2>1, <3>1, WithinIsUnder DEF Shown!Empty, IsEmpty, Below
    <3>2. CASE card[p] # "dir"
      BY <1>1, <3>2, NothingBelow DEF Unsettled, Serves
    <3> QED BY <3>1, <3>2
  <2>3. Shown!Delete(p)
    BY <1>1, <1>2, <2>1, <2>2 DEF Shown!Delete, Shown!Removes, Shown!Places
  <2> QED BY <2>3 DEF ShownStep, Shown!Next
<1>5. CASE handleMkcol(p, ok) /\ ok
  <2>1. card[p] = None /\ ParentIsFolder(p) /\ card' = [card EXCEPT ![p] = "dir"]
    BY <1>5 DEF handleMkcol
  <2>2. Shown!HasFolder(p)
    BY <2>1, FoldersShown DEF Serves
  <2>3. Shown!MakeFolder(p)
    BY <1>1, <1>2, <2>1, <2>2 DEF Shown!MakeFolder, Shown!Free, Shown!Places
  <2> QED BY <2>3 DEF ShownStep, Shown!Next
<1> QED BY <1>3, <1>4, <1>5 DEF handleDelete, handleMkcol, Refuse

(* Every step of the handler is a step of the tree that is shown, or none.      *)
LEMMA NextShown == Serves /\ Inv' /\ [Next]_davVars => ShownStep
<1> SUFFICES ASSUME Serves, Inv', [Next]_davVars PROVE ShownStep
  OBVIOUS
<1>1. CASE Put
  BY <1>1, BeginShown, WriteShown, ReplaceShown, RenameShown DEF Put
<1>2. CASE Move
  BY <1>2, BeginShown, MoveShown DEF Move
<1>3. CASE Copy
  BY <1>3, BeginShown, CreateShown, DataShown DEF Copy
<1>4. CASE PowerLoss
  BY <1>4, PowerLossShown
<1>5. CASE \/ \E p \in Path, ok \in BOOLEAN : handleDelete(p, ok) \/ handleMkcol(p, ok)
           \/ \E p, q \in Path, ok \in BOOLEAN : Refuse(p, q, ok)
  BY <1>5, SingleShown
<1>6. CASE UNCHANGED davVars
  BY <1>6 DEF davVars, Seen, PutStage, Unsettled, ShownStep, Shown!vars
<1> QED BY <1>1, <1>2, <1>3, <1>4, <1>5, <1>6 DEF Next

(* The empty card shows an empty tree.                                         *)
LEMMA InitShown == Init => Shown!Init
<1> SUFFICES ASSUME Init PROVE Shown!Init
  OBVIOUS
<1>1. Inv
  BY InitInv
<1>2. Seen = card /\ PutStage = "begun"
  BY <1>1, SeenNow DEF Init, SeenIs, Unsettled
<1> QED BY <1>2 DEF Init, NoCard, Shown!Init

(* The handler is a FileTree: however requests, operations that fail and power   *)
(* losses follow each other, a client sees a tree on which a request is done at *)
(* once or not at all, but for the parts of files FileTree says may be left.    *)
THEOREM TreeServed == Spec => ServesTree
<1>1. Spec => []Inv /\ [][Next]_davVars
  BY Invariant, PTL DEF Spec
<1>2. Spec => []Serving
  BY Invariant, InitServing, NextServing, PTL DEF Spec
<1>3. Spec => []Reached
  BY <1>1, <1>2, InitReached, NextReached, PTL DEF Spec
<1>4. Spec => []Ready
  BY <1>1, <1>2, InitReady, NextReady, PTL DEF Spec
<1>5. Inv /\ Serving /\ Reached /\ Ready => Serves
  BY DEF Serves
<1>6. Serves /\ Inv' /\ [Next]_davVars => [Shown!Next]_(Shown!vars)
  BY NextShown DEF ShownStep
<1>7. Spec => Init
  BY DEF Spec
<1> QED BY <1>1, <1>2, <1>3, <1>4, <1>5, <1>6, <1>7, InitShown, PTL DEF ServesTree, Shown!Spec
=============================================================================
