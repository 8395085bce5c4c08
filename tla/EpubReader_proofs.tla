-------------------------- MODULE EpubReader_proofs --------------------------
(* Proofs about the reader: its types, that the section in memory is that of   *)
(* the spine index, that a navigation is spent on the section it was meant     *)
(* for, that a book resumes where it was left, and that the boot keeps the     *)
(* promise of CrashGuard.                                                      *)
EXTENDS EpubReader, SequenceTheorems, TLAPS

(* What makes TypeOK and SectionOfSpine inductive: the drawing has a section,   *)
(* a page turn that waits for the mutex has one in the book to go to, and the   *)
(* reader is empty when no book is open.                                       *)
Closed ==
  /\ section = None /\ rendering = "no" /\ crossing = "no" /\ resumes = None
  /\ pendingLast = None /\ ~pendingAnchor /\ pendingPercent = None

Shape ==
  /\ SectionOfSpine
  /\ rendering # "no" => section # None
  /\ crossing # "no" => currentSpineIndex \in Spine
  /\ crossing = "prev" => currentSpineIndex > 0
  /\ where # "reader" => Closed

(* PendingSpent, for every section that has been placed, drawn or not.         *)
Spent ==
  (section # None /\ rendering # "build" /\ section.count > 0) =>
    /\ pendingLast = None /\ ~pendingAnchor /\ pendingPercent = None
    /\ cachedChapterTotalPageCount = 0

(* As long as a place is to be resumed, everything that decides on the page     *)
(* leads there.                                                                *)
Resuming ==
  resumes # None =>
    /\ resumes = Place(currentSpineIndex, nextPageNumber)
    /\ currentSpineIndex \in Spine
    /\ nextPageNumber < PageCount[layout][currentSpineIndex]
    /\ pendingLast = None /\ ~pendingAnchor /\ pendingPercent = None
    /\ cachedChapterTotalPageCount \in {0, PageCount[layout][currentSpineIndex]}
    /\ (section # None /\ rendering # "build") => section.page = nextPageNumber
    /\ rendering = "save" => shown = resumes

(* The counter is what CrashGuard calls failed, or the boot's book is open.     *)
Booted ==
  /\ byBoot => loadCount = 1 /\ where \in {"opening", "reader"}
  /\ bootCrash <=> (loadCount > 0 /\ ~byBoot)

Inv == TypeOK /\ Shape /\ Spent /\ Resuming /\ Booted
-----------------------------------------------------------------------------
(* The initial state satisfies the invariant.                                  *)
LEMMA InitInv == Init => Inv
<1> SUFFICES ASSUME Init PROVE Inv
  OBVIOUS
<1> USE BookAssumption
<1>1. TypeOK
  <2>1. savedPositions \in Seq([spine : Spine, page : Nat]) /\ Len(savedPositions) <= MaxFootnoteDepth
    BY DEF Init
  <2>2. /\ openEpub \in BOOLEAN /\ fromReader \in BOOLEAN /\ pendingAnchor \in BOOLEAN
        /\ updating \in BOOLEAN /\ byBoot \in BOOLEAN /\ bootCrash \in BOOLEAN /\ handsOff \in BOOLEAN
    BY DEF Init
  <2> QED BY <2>1, <2>2 DEF Init, TypeOK, Spine
<1>2. Shape /\ Spent /\ Resuming /\ Booted
  BY DEF Init, Shape, SectionOfSpine, Closed, Spent, Resuming, Booted
<1> QED BY <1>1, <1>2 DEF Inv

(* A quotient of naturals is a natural number.                                 *)
LEMMA Quotient ==
  ASSUME NEW a \in Nat, NEW b \in Nat, NEW c \in Nat, c > 0
  PROVE  (a * b) \div c \in Nat
<1>1. a * b \in Nat
  OBVIOUS
<1> QED BY <1>1

(* What is no record is not the record of a place or of a section.             *)
LEMMA Records ==
  ASSUME NEW spine \in Spine, NEW page \in Nat, NEW count \in Nat
  PROVE  /\ Place(spine, page) # None
         /\ [spine |-> spine, count |-> count, page |-> page] # None
<1>1. [spine |-> spine, page |-> page] \in [spine : Spine, page : Nat]
  OBVIOUS
<1>2. [spine |-> spine, count |-> count, page |-> page] \in [spine : Spine, page : Nat, count : Nat]
  OBVIOUS
<1> QED BY <1>1, <1>2, BookAssumption DEF Place
(* A placed section is one of the type.                                        *)
LEMMA PlacedType ==
  ASSUME TypeOK, section \in SectionType, PlacePage
  PROVE  section' \in SectionType
<1> USE BookAssumption
<1>2. PICK page \in AnchorPages :
        section' = [section EXCEPT !.page = IF HitsPercent THEN PercentPage ELSE Rescaled(page)]
  BY DEF PlacePage
<1>3. AskedPage \in Nat
  BY DEF AskedPage, SectionType, Smaller, TypeOK
<1>4. page \in Nat
  BY <1>2, <1>3 DEF AnchorPages, SectionType
<1>5. Rescaled(page) \in Nat
  <2>1. section.count \in Nat /\ cachedChapterTotalPageCount \in Nat
    BY DEF SectionType, TypeOK
  <2>2. cachedChapterTotalPageCount > 0 =>
          (page * section.count) \div cachedChapterTotalPageCount \in Nat
    BY <1>4, <2>1, Quotient
  <2> QED BY <1>4, <2>2 DEF Rescaled
<1>6. HitsPercent => PercentPage \in Nat
  <2> SUFFICES ASSUME HitsPercent PROVE PercentPage \in Nat
    OBVIOUS
  <2>1. pendingPercent[1] \in Nat /\ pendingPercent[2] \in Nat /\ pendingPercent[2] > 0
    BY DEF HitsPercent, TypeOK
  <2>2. section.count \in Nat /\ section.count > 0
    BY DEF HitsPercent, SectionType
  <2>3. (pendingPercent[1] * section.count) \div pendingPercent[2] \in Nat
    BY <2>1, <2>2, Quotient
  <2> QED BY <2>2, <2>3 DEF PercentPage, Smaller
<1> QED BY <1>2, <1>5, <1>6 DEF SectionType
-----------------------------------------------------------------------------
(* The render task keeps the types.                                            *)
LEMMA RenderTypes == TypeOK /\ Shape /\ RenderTask => TypeOK'
<1> SUFFICES ASSUME TypeOK, Shape, RenderTask PROVE TypeOK'
  OBVIOUS
<1> USE BookAssumption
<1>1. RenderStays /\ pendingAnchor' \in {pendingAnchor, FALSE}
  <2>1. RenderStays
    BY DEF RenderTask, StartRender, BuildPages, BuildFails, PlacePage, Draw, LoadFails, Save
  <2>2. pendingAnchor' \in {pendingAnchor, FALSE}
    BY DEF RenderTask, StartRender, BuildPages, BuildFails, PlacePage, Draw, LoadFails, Save, pending
  <2> QED BY <2>1, <2>2
<1>2. /\ where' \in {"off", "home", "opening", "reader"} /\ layout' \in Layouts
      /\ loadCount' \in 0 .. 1 /\ nextPageNumber' \in Nat /\ crossing' \in {"no", "next", "prev"}
  BY <1>1 DEF TypeOK, RenderStays
<1>3. openEpub' \in BOOLEAN /\ fromReader' \in BOOLEAN /\ byBoot' \in BOOLEAN /\ bootCrash' \in BOOLEAN
        /\ handsOff' \in BOOLEAN /\ pendingAnchor' \in BOOLEAN
  BY <1>1 DEF TypeOK, RenderStays
<1>4. savedPositions' \in Seq([spine : Spine, page : Nat]) /\ Len(savedPositions') <= MaxFootnoteDepth
  BY <1>1 DEF TypeOK, RenderStays
<1>5. updating' \in BOOLEAN
  <2>1. updating' \in {updating, TRUE, FALSE}
    BY DEF RenderTask, StartRender, BuildPages, BuildFails, PlacePage, Draw, LoadFails, Save
  <2> QED BY <2>1 DEF TypeOK
<1>6. /\ progress' \in [spine : Spine, page : Nat, count : 0 .. MostPages] \union {None}
      /\ currentSpineIndex' \in -1 .. SpineCount
      /\ pendingLast' \in {"last", None} /\ pendingPercent' \in Fractions \union {None}
      /\ cachedSpineIndex' \in Spine /\ cachedChapterTotalPageCount' \in 0 .. MostPages
      /\ rendering' \in {"no", "build", "draw", "save"}
      /\ resumes' \in [spine : Spine, page : Nat] \union {None}
      /\ shown' \in [spine : Spine, page : Nat] \union {None}
      /\ section' \in SectionType \union {None}
  <2>1. CASE StartRender
    <3>1. Clamped \in 0 .. SpineCount
      BY DEF TypeOK, Clamped, Smaller
    <3>2. Clamped # SpineCount => NewSection(Clamped) \in SectionType
      BY <3>1 DEF NewSection, SectionType, Spine
    <3> QED BY <2>1, <3>1, <3>2 DEF StartRender, RenderStays, TypeOK, pending, cached
  <2>2. CASE BuildPages
    <3>1. section \in SectionType
      BY <2>2 DEF BuildPages, TypeOK, Shape
    <3>2. Pages \in 0 .. MostPages
      BY <3>1 DEF Pages, SectionType, TypeOK
    <3>3. section' \in SectionType
      BY <2>2, <3>1, <3>2 DEF BuildPages, SectionType
    <3> QED BY <2>2, <3>3 DEF BuildPages, RenderStays, TypeOK, pending, cached
  <2>3. CASE BuildFails
    BY <2>3 DEF BuildFails, RenderStays, TypeOK, pending, cached
  <2>4. CASE PlacePage
    <3>1. section \in SectionType
      BY <2>4 DEF PlacePage, TypeOK, Shape
    <3>2. section' \in SectionType
      BY <2>4, <3>1, PlacedType
    <3> QED BY <2>4, <3>2 DEF PlacePage, RenderStays, TypeOK
  <2>5. CASE Draw
    <3>1. section \in SectionType
      BY <2>5 DEF Draw, TypeOK, Shape
    <3>2. Place(section.spine, section.page) \in [spine : Spine, page : Nat]
      BY <3>1 DEF SectionType, Place
    <3> QED BY <2>5, <3>2 DEF Draw, RenderStays, TypeOK, pending, cached
  <2>6. CASE LoadFails
    BY <2>6 DEF LoadFails, RenderStays, TypeOK, pending, cached
  <2>7. CASE Save
    <3>1. section \in SectionType /\ currentSpineIndex \in Spine
      BY <2>7 DEF Save, TypeOK, Shape, SectionOfSpine, SectionType
    <3>2. progress' \in [spine : Spine, page : Nat, count : 0 .. MostPages]
      BY <2>7, <3>1 DEF Save, SectionType, Progress
    <3> QED BY <2>7, <3>2 DEF Save, RenderStays, TypeOK, pending, cached
  <2> QED BY <2>1, <2>2, <2>3, <2>4, <2>5, <2>6, <2>7 DEF RenderTask
<1> QED BY <1>2, <1>3, <1>4, <1>5, <1>6 DEF TypeOK, SectionType, Spine
-----------------------------------------------------------------------------
(* The main task keeps the types.  Those of its variables fall in three parts: *)
(* where the reader stands, what Stays leaves alone, and the rest.             *)
StandTypes ==
  /\ currentSpineIndex \in -1 .. SpineCount /\ nextPageNumber \in Nat
  /\ section \in SectionType \union {None} /\ updating \in BOOLEAN
  /\ resumes \in [spine : Spine, page : Nat] \union {None}

StayTypes ==
  /\ where \in {"off", "home", "opening", "reader"}
  /\ openEpub \in BOOLEAN /\ fromReader \in BOOLEAN /\ loadCount \in 0 .. 1
  /\ rendering \in {"no", "build", "draw", "save"}
  /\ shown \in [spine : Spine, page : Nat] \union {None}
  /\ byBoot \in BOOLEAN /\ bootCrash \in BOOLEAN

OtherTypes ==
  /\ layout \in Layouts
  /\ progress \in [spine : Spine, page : Nat, count : 0 .. MostPages] \union {None}
  /\ pendingLast \in {"last", None} /\ pendingAnchor \in BOOLEAN
  /\ pendingPercent \in Fractions \union {None}
  /\ cachedSpineIndex \in Spine /\ cachedChapterTotalPageCount \in 0 .. MostPages
  /\ savedPositions \in Seq([spine : Spine, page : Nat])
  /\ Len(savedPositions) <= MaxFootnoteDepth
  /\ crossing \in {"no", "next", "prev"} /\ handsOff \in BOOLEAN

(* The three parts make up TypeOK.                                             *)
LEMMA TypeParts == TypeOK <=> StandTypes /\ StayTypes /\ OtherTypes
BY Zenon DEF TypeOK, StandTypes, StayTypes, OtherTypes

(* What an action leaves alone keeps its type.                                 *)
LEMMA StaysTypes == StayTypes /\ Stays => StayTypes'
BY DEF StayTypes, Stays

(* A jump into the book, or next to it, keeps the types of the position.       *)
LEMMA GoToTypes ==
  ASSUME NEW spine \in -1 .. SpineCount, NEW page \in Nat, GoTo(spine, page)
  PROVE  StandTypes'
<1>1. updating' \in BOOLEAN
  BY DEF GoTo
<1> QED BY <1>1 DEF GoTo, StandTypes, SectionType, Spine

(* The stack of footnotes keeps its type.                                      *)
LEMMA StackTypes ==
  ASSUME TypeOK, Shape
  PROVE  /\ Pushed \in Seq([spine : Spine, page : Nat]) /\ Len(Pushed) <= MaxFootnoteDepth
         /\ \A s \in Seq([spine : Spine, page : Nat]) :
              (s # <<>> /\ Len(s) <= MaxFootnoteDepth) =>
                /\ SubSeq(s, 1, Len(s) - 1) \in Seq([spine : Spine, page : Nat])
                /\ Len(SubSeq(s, 1, Len(s) - 1)) <= MaxFootnoteDepth
                /\ s[Len(s)].spine \in Spine /\ s[Len(s)].page \in Nat
<1> USE BookAssumption
<1>1. section # None => Place(currentSpineIndex, section.page) \in [spine : Spine, page : Nat]
  BY DEF TypeOK, Shape, SectionOfSpine, SectionType, Place
<1>2. /\ Pushed \in Seq([spine : Spine, page : Nat]) /\ Len(Pushed) <= MaxFootnoteDepth
  <2> DEFINE P == [spine : Spine, page : Nat]
             place == Place(currentSpineIndex, section.page)
  <2>1. savedPositions \in Seq(P) /\ Len(savedPositions) <= MaxFootnoteDepth /\ Len(savedPositions) \in Nat
    <3>1. savedPositions \in Seq(P) /\ Len(savedPositions) <= MaxFootnoteDepth
      BY DEF TypeOK
    <3> QED BY <3>1, LenProperties
  <2>2. section # None => place \in P
    BY <1>1
  <2> HIDE DEF P, place
  <2>3. section # None => /\ Append(savedPositions, place) \in Seq(P)
                          /\ Len(Append(savedPositions, place)) = Len(savedPositions) + 1
    BY <2>1, <2>2, AppendProperties
  <2>4. Pushed = Append(savedPositions, place) \/ Pushed = savedPositions
    BY DEF Pushed, place
  <2>5. Pushed # savedPositions =>
          section # None /\ Len(savedPositions) < MaxFootnoteDepth /\ Pushed = Append(savedPositions, place)
    BY DEF Pushed, place
  <2>6. Pushed \in Seq(P) /\ Len(Pushed) <= MaxFootnoteDepth
    BY <2>1, <2>3, <2>5
  <2> QED BY <2>6 DEF P
<1>3. ASSUME NEW s \in Seq([spine : Spine, page : Nat]), s # <<>>, Len(s) <= MaxFootnoteDepth
      PROVE  /\ SubSeq(s, 1, Len(s) - 1) \in Seq([spine : Spine, page : Nat])
             /\ Len(SubSeq(s, 1, Len(s) - 1)) <= MaxFootnoteDepth
             /\ s[Len(s)].spine \in Spine /\ s[Len(s)].page \in Nat
  <2> DEFINE P == [spine : Spine, page : Nat]
  <2>1. s \in Seq(P)
    BY <1>3
  <2>a. \A p \in P : p.spine \in Spine /\ p.page \in Nat
    OBVIOUS
  <2> HIDE DEF P
  <2>2. Len(s) \in Nat \ {0}
    BY <1>3, <2>1, EmptySeq
  <2>3. \A i \in 1 .. Len(s) : s[i] \in P
    BY <2>1, ElementOfSeq
  <2>4. s[Len(s)] \in P
    BY <2>2, <2>3
  <2>5. /\ SubSeq(s, 1, Len(s) - 1) \in Seq(P)
        /\ Len(SubSeq(s, 1, Len(s) - 1)) = IF 1 <= Len(s) - 1 THEN Len(s) - 1 - 1 + 1 ELSE 0
    <3>1. \A i \in 1 .. Len(s) - 1 : s[i] \in P
      BY <2>2, <2>3
    <3>2. Len(s) - 1 \in Int /\ 1 \in Int
      BY <2>2
    <3> QED BY <3>1, <3>2, SubSeqProperties
  <2>6. Len(SubSeq(s, 1, Len(s) - 1)) <= MaxFootnoteDepth
    BY <1>3, <2>2, <2>5
  <2> QED BY <2>a, <2>4, <2>5, <2>6 DEF P
<1> QED BY <1>2, <1>3

(* What is left of TypeOK when the reader goes to another section.             *)
LEMMA JumpTypes ==
  ASSUME TypeOK, Shape,
         NEW spine \in -1 .. SpineCount, NEW page \in Nat, GoTo(spine, page), Stays, OtherTypes'
  PROVE  TypeOK'
<1>1. StayTypes'
  BY StaysTypes, TypeParts
<1>2. StandTypes'
  BY GoToTypes
<1>3. (TypeOK <=> StandTypes /\ StayTypes /\ OtherTypes)'
  BY TypeParts, PTL
<1> QED BY <1>1, <1>2, <1>3

(* Every key keeps the types.                                                  *)
LEMMA KeyTypes == TypeOK /\ Shape /\ Key => TypeOK'
<1> SUFFICES ASSUME TypeOK, Shape, Key PROVE TypeOK'
  OBVIOUS
<1> USE BookAssumption
<1>0. StandTypes /\ StayTypes /\ OtherTypes
  BY TypeParts
<1>p. (TypeOK <=> StandTypes /\ StayTypes /\ OtherTypes)'
  BY TypeParts, PTL
<1>s. Spine \subseteq -1 .. SpineCount /\ 0 \in Nat
  BY DEF Spine
<1>1. ASSUME NEW forward \in BOOLEAN, Turn(forward) PROVE TypeOK'
  <2>1. StayTypes'
    BY <1>0, <1>1, StaysTypes DEF Turn
  <2>2. updating' \in BOOLEAN /\ resumes' \in {resumes, None} /\ crossing' \in {crossing, "next", "prev"}
    BY <1>0, <1>1 DEF Turn, StandTypes
  <2>3. section' \in SectionType \union {None}
    <3>1. section = None \/ section \in SectionType
      BY <1>0 DEF StandTypes
    <3>2. CASE section = None
      BY <1>1, <3>2 DEF Turn
    <3>3. CASE section \in SectionType /\ section # None
      <4>1. \/ section' = section
            \/ section' = [section EXCEPT !.page = section.page + 1]
            \/ section' = [section EXCEPT !.page = section.page - 1] /\ section.page > 0
        BY <1>1, <3>3 DEF Turn
      <4> QED BY <3>3, <4>1 DEF SectionType
    <3> QED BY <3>1, <3>2, <3>3
  <2>4. StandTypes'
    BY <1>0, <1>1, <2>2, <2>3 DEF StandTypes, Turn, position
  <2>5. OtherTypes'
    BY <1>0, <1>1, <2>2 DEF OtherTypes, Turn, pending, cached
  <2> QED BY <2>1, <2>4, <2>5, <1>p
<1>2. ASSUME NEW forward \in BOOLEAN, SkipChapter(forward) PROVE TypeOK'
  <2>1. PICK spine \in -1 .. SpineCount : GoTo(spine, 0)
    <3>1. currentSpineIndex + 1 \in -1 .. SpineCount \/ ~forward
      BY <1>0, <1>2 DEF SkipChapter, AtEnd, StandTypes
    <3>2. currentSpineIndex - 1 \in -1 .. SpineCount \/ forward
      BY <1>0, <1>2 DEF SkipChapter, StandTypes
    <3> QED BY <1>2, <3>1, <3>2 DEF SkipChapter
  <2>2. OtherTypes' /\ Stays
    BY <1>0, <1>2 DEF OtherTypes, SkipChapter, pending, cached
  <2> QED BY <2>1, <2>2, <1>s, JumpTypes
<1>3. ASSUME BackFromEnd PROVE TypeOK'
  <2>1. StayTypes'
    BY <1>0, <1>3, StaysTypes DEF BackFromEnd
  <2>2. StandTypes'
    <3>1. updating' \in BOOLEAN
      BY <1>3 DEF BackFromEnd
    <3> QED BY <1>0, <1>3, <3>1 DEF StandTypes, BackFromEnd
  <2>3. OtherTypes'
    BY <1>0, <1>3 DEF OtherTypes, BackFromEnd, cached
  <2> QED BY <2>1, <2>2, <2>3, <1>p
<1>4. ASSUME RestoreSavedPosition PROVE TypeOK'
  <2> DEFINE last == savedPositions[Len(savedPositions)]
  <2>1. last.spine \in Spine /\ last.page \in Nat
    BY <1>0, <1>4, StackTypes DEF OtherTypes, RestoreSavedPosition
  <2>2. GoTo(last.spine, last.page) /\ Stays
    BY <1>4 DEF RestoreSavedPosition
  <2> HIDE DEF last
  <2>3. savedPositions' \in Seq([spine : Spine, page : Nat]) /\ Len(savedPositions') <= MaxFootnoteDepth
    BY <1>0, <1>4, StackTypes DEF OtherTypes, RestoreSavedPosition
  <2>4. OtherTypes'
    BY <1>0, <1>4, <2>3 DEF OtherTypes, RestoreSavedPosition, pending, cached
  <2> QED BY <2>1, <2>2, <2>4, <1>s, JumpTypes
<1>5. ASSUME DeadLink PROVE TypeOK'
  <2>1. StayTypes'
    BY <1>0, <1>5, StaysTypes DEF DeadLink
  <2>2. StandTypes'
    <3>1. updating' \in BOOLEAN
      BY <1>5 DEF DeadLink
    <3> QED BY <1>0, <1>5, <3>1 DEF StandTypes, DeadLink, position
  <2>3. savedPositions' \in Seq([spine : Spine, page : Nat]) /\ Len(savedPositions') <= MaxFootnoteDepth
    <3>1. CASE Pushed = <<>>
      BY <1>5, <3>1, StackTypes DEF DeadLink
    <3>2. CASE Pushed # <<>>
      BY <1>5, <3>2, StackTypes DEF DeadLink
    <3> QED BY <3>1, <3>2
  <2>4. OtherTypes'
    BY <1>0, <1>5, <2>3 DEF OtherTypes, DeadLink, pending, cached
  <2> QED BY <2>1, <2>2, <2>4, <1>p
<1>6. ASSUME NEW spine \in Spine, SelectChapter(spine) PROVE TypeOK'
  <2>1. OtherTypes' /\ Stays /\ GoTo(spine, 0)
    BY <1>0, <1>6 DEF OtherTypes, SelectChapter, pending, cached
  <2> QED BY <2>1, <1>s, JumpTypes
<1>7. ASSUME NEW spine \in Spine, NEW f \in Fractions, JumpToPercent(spine, f) PROVE TypeOK'
  <2>1. OtherTypes' /\ Stays /\ GoTo(spine, 0)
    BY <1>0, <1>7 DEF OtherTypes, JumpToPercent, cached
  <2> QED BY <2>1, <1>s, JumpTypes
<1>8. ASSUME NEW spine \in Spine, NEW page \in 0 .. MostPages - 1, Sync(spine, page) PROVE TypeOK'
  <2>1. page \in Nat
    OBVIOUS
  <2>2. progress' \in [spine : Spine, page : Nat, count : 0 .. MostPages]
    BY <1>8, <2>1 DEF Sync, Progress
  <2>3. OtherTypes' /\ Stays /\ GoTo(spine, page)
    BY <1>0, <1>8, <2>2 DEF OtherTypes, Sync
  <2> QED BY <2>1, <2>3, <1>s, JumpTypes
<1>9. ASSUME NEW spine \in Spine, NEW fragment \in BOOLEAN, NavigateToHref(spine, fragment) PROVE TypeOK'
  <2>1. pendingAnchor' \in BOOLEAN
    BY <1>9 DEF NavigateToHref
  <2>2. savedPositions' \in Seq([spine : Spine, page : Nat]) /\ Len(savedPositions') <= MaxFootnoteDepth
    BY <1>9, StackTypes DEF NavigateToHref
  <2>3. OtherTypes' /\ Stays /\ GoTo(spine, 0)
    BY <1>0, <1>9, <2>1, <2>2 DEF OtherTypes, NavigateToHref, cached
  <2> QED BY <2>3, <1>s, JumpTypes
<1>10. ASSUME NEW l \in Layouts, Reflow(l) PROVE TypeOK'
  <2>1. StayTypes'
    BY <1>0, <1>10, StaysTypes DEF Reflow
  <2>2. section # None => section \in SectionType /\ currentSpineIndex \in Spine
    BY DEF TypeOK, Shape, SectionOfSpine, SectionType
  <2>3. StandTypes'
    <3>1. updating' \in BOOLEAN
      BY <1>10 DEF Reflow
    <3> QED BY <1>0, <1>10, <2>2, <3>1 DEF StandTypes, Reflow, SectionType
  <2>4. OtherTypes'
    BY <1>0, <1>10, <2>2 DEF OtherTypes, Reflow, pending, cached, SectionType
  <2> QED BY <2>1, <2>3, <2>4, <1>p
<1> QED BY <1>1, <1>2, <1>3, <1>4, <1>5, <1>6, <1>7, <1>8, <1>9, <1>10 DEF Key

(* A book that is closed leaves the types right.                               *)
LEMMA ForgottenTypes ==
  ASSUME Forgotten
  PROVE  /\ StandTypes' /\ rendering' = "no" /\ shown' = None
         /\ pendingLast' = None /\ ~pendingAnchor' /\ pendingAnchor' \in BOOLEAN /\ pendingPercent' = None
         /\ cachedSpineIndex' \in Spine /\ cachedChapterTotalPageCount' \in 0 .. MostPages
         /\ savedPositions' \in Seq([spine : Spine, page : Nat]) /\ Len(savedPositions') <= MaxFootnoteDepth
         /\ crossing' = "no"
<1> USE BookAssumption
<1>1. updating' \in BOOLEAN /\ pendingAnchor' \in BOOLEAN
  BY DEF Forgotten
<1>2. StandTypes'
  BY <1>1 DEF Forgotten, StandTypes
<1>3. savedPositions' \in Seq([spine : Spine, page : Nat]) /\ Len(savedPositions') <= MaxFootnoteDepth
  BY DEF Forgotten
<1> QED BY <1>1, <1>2, <1>3 DEF Forgotten, Spine

(* The waiting page turn, the opening, the power key and a crash keep the types.  *)
LEMMA LifeTypes == TypeOK /\ Shape /\ (Cross \/ OnEnter \/ Power \/ PutDown) => TypeOK'
<1> SUFFICES ASSUME TypeOK, Shape, Cross \/ OnEnter \/ Power \/ PutDown PROVE TypeOK'
  OBVIOUS
<1> USE BookAssumption
<1>0. StandTypes /\ StayTypes /\ OtherTypes
  BY TypeParts
<1>p. (TypeOK <=> StandTypes /\ StayTypes /\ OtherTypes)'
  BY TypeParts, PTL
<1>1. ASSUME Cross PROVE TypeOK'
  <2>1. PICK spine \in -1 .. SpineCount : GoTo(spine, 0)
    <3>1. crossing = "next" => currentSpineIndex + 1 \in -1 .. SpineCount
      BY <1>1 DEF Cross, Shape, Spine
    <3>2. crossing # "next" => currentSpineIndex - 1 \in -1 .. SpineCount
      BY <1>1 DEF Cross, Shape, Spine
    <3> QED BY <1>1, <3>1, <3>2 DEF Cross
  <2>2. OtherTypes' /\ Stays
    BY <1>0, <1>1 DEF OtherTypes, Cross, cached
  <2> QED BY <2>1, <2>2, JumpTypes
<1>2. ASSUME OnEnter PROVE TypeOK'
  <2> DEFINE at == IF progress = None THEN Progress(0, 0, 0) ELSE progress
  <2>1. at \in [spine : Spine, page : Nat, count : 0 .. MostPages]
    BY <1>0 DEF OtherTypes, Progress, Spine
  <2>2. /\ currentSpineIndex' = IF at.spine = 0 THEN TextReference ELSE at.spine
        /\ nextPageNumber' = at.page /\ cachedSpineIndex' = at.spine
        /\ cachedChapterTotalPageCount' = at.count
        /\ resumes' \in {Place(at.spine, at.page), None}
    BY <1>2 DEF OnEnter
  <2>3. Place(at.spine, at.page) \in [spine : Spine, page : Nat]
    BY <2>1 DEF Place
  <2>4. openEpub' \in BOOLEAN /\ updating' \in BOOLEAN
    BY <1>2 DEF OnEnter
  <2> HIDE DEF at
  <2>5. StandTypes'
    BY <1>0, <1>2, <2>1, <2>2, <2>3, <2>4 DEF OnEnter, StandTypes, Spine
  <2>6. StayTypes'
    BY <1>0, <1>2, <2>4 DEF OnEnter, StayTypes
  <2>7. OtherTypes'
    BY <1>0, <1>2, <2>1, <2>2 DEF OnEnter, OtherTypes, pending
  <2> QED BY <2>5, <2>6, <2>7, <1>p
<1>3. ASSUME GoHome \/ DeleteCache \/ Sleep \/ Crash PROVE TypeOK'
  <2>1. Forgotten
    BY <1>3 DEF GoHome, DeleteCache, Sleep, Crash
  <2>2. openEpub' \in BOOLEAN /\ fromReader' \in BOOLEAN /\ byBoot' \in BOOLEAN /\ bootCrash' \in BOOLEAN
    <3>1. openEpub' = openEpub /\ fromReader' \in {fromReader, TRUE, FALSE}
      BY <1>3 DEF GoHome, DeleteCache, Sleep, Crash, files
    <3>2. byBoot' \in {byBoot, FALSE} /\ bootCrash' \in {TRUE, FALSE, bootCrash}
      BY <1>3 DEF GoHome, DeleteCache, Sleep, Crash, OnExit
    <3> QED BY <1>0, <3>1, <3>2 DEF StayTypes
  <2>3. loadCount' \in 0 .. 1 /\ where' \in {"off", "home"}
    BY <1>0, <1>3 DEF GoHome, DeleteCache, Sleep, Crash, OnExit, StayTypes, files
  <2>4. StayTypes'
    BY <2>1, <2>2, <2>3, ForgottenTypes DEF StayTypes
  <2>5. progress' \in [spine : Spine, page : Nat, count : 0 .. MostPages] \union {None}
    <3>1. CASE DeleteCache
      <4>1. section \in SectionType /\ currentSpineIndex \in Spine
        BY <3>1 DEF DeleteCache, TypeOK, Shape, SectionOfSpine, SectionType
      <4> QED BY <3>1, <4>1 DEF DeleteCache, Progress, SectionType
    <3>2. CASE GoHome \/ Sleep \/ Crash
      BY <1>0, <3>2 DEF GoHome, Sleep, Crash, files, OtherTypes
    <3> QED BY <1>3, <3>1, <3>2
  <2>6. layout' \in Layouts /\ handsOff' \in BOOLEAN
    BY <1>0, <1>3 DEF GoHome, DeleteCache, Sleep, Crash, files, OtherTypes
  <2>7. OtherTypes'
    BY <2>1, <2>5, <2>6, ForgottenTypes DEF OtherTypes
  <2>8. StandTypes'
    BY <2>1, ForgottenTypes
  <2> QED BY <2>4, <2>7, <2>8, <1>p
<1>4. ASSUME OpenBook \/ BootHome \/ BootReader \/ PutDown PROVE TypeOK'
  <2>1. openEpub' \in BOOLEAN /\ byBoot' \in BOOLEAN /\ handsOff' \in BOOLEAN /\ bootCrash' \in BOOLEAN /\ fromReader' \in BOOLEAN
    <3>1. /\ openEpub' \in {openEpub, FALSE} /\ byBoot' \in {byBoot, TRUE, FALSE} /\ handsOff' \in {handsOff, TRUE}
          /\ bootCrash' = bootCrash /\ fromReader' = fromReader
      BY <1>4 DEF OpenBook, BootHome, BootReader, PutDown, files, history
    <3> QED BY <1>0, <3>1 DEF StayTypes, OtherTypes
  <2>2. StandTypes'
    BY <1>0, <1>4 DEF StandTypes, OpenBook, BootHome, BootReader, PutDown, position, history
  <2>3. StayTypes'
    BY <1>0, <1>4, <2>1 DEF StayTypes, OpenBook, BootHome, BootReader, PutDown, files, history
  <2>4. OtherTypes'
    BY <1>0, <1>4, <2>1 DEF OtherTypes, OpenBook, BootHome, BootReader, PutDown, files, pending, cached
  <2> QED BY <2>2, <2>3, <2>4, <1>p
<1> QED BY <1>1, <1>2, <1>3, <1>4 DEF Power

(* Every step keeps the types.                                                 *)
LEMMA TypeStep == TypeOK /\ Shape /\ [Next]_vars => TypeOK'
<1>1. TypeOK /\ UNCHANGED vars => TypeOK'
  BY DEF TypeOK, vars, files, position, pending, cached, history
<1> QED BY <1>1, RenderTypes, KeyTypes, LifeTypes DEF Next
-----------------------------------------------------------------------------
(* The steps by their effect on the position.  Leaves: to another section, or   *)
(* to the same in another layout.  Closes: the book is closed.  Rests: nothing  *)
(* that the invariant speaks of but the boot's part.                            *)
Leaves ==
  /\ section' = None /\ rendering = "no" /\ rendering' = "no" /\ resumes' = None /\ crossing' = "no"
  /\ where = "reader" \/ crossing # "no"
  /\ UNCHANGED <<where, loadCount, byBoot, bootCrash>>

Closes == Forgotten /\ where' \in {"home", "off"}

Rests ==
  /\ where' = "reader" <=> where = "reader"
  /\ UNCHANGED <<layout, position, section, pending, cached, rendering, crossing, shown, resumes>>

MainKinds ==
  \/ Leaves \/ Closes \/ Rests \/ OnEnter \/ BackFromEnd
  \/ \E forward \in BOOLEAN : Turn(forward)

(* Every step that is not the render task's is of one of these kinds.          *)
LEMMA StepKinds == (Next /\ ~RenderTask) \/ UNCHANGED vars => MainKinds
<1>1. UNCHANGED vars => Rests
  BY DEF vars, Rests, files, position, pending, cached, history
<1>2. Cross => Leaves
  BY DEF Cross, GoTo, Stays, Leaves, Locked
<1>3. ASSUME Key PROVE MainKinds
  <2>1. (\E forward \in BOOLEAN : SkipChapter(forward)) => Leaves
    BY DEF SkipChapter, GoTo, Stays, Leaves, Locked, Reading
  <2>2. RestoreSavedPosition => Leaves
    BY DEF RestoreSavedPosition, GoTo, Stays, Leaves, Locked, Reading
  <2>3. DeadLink => Rests
    BY DEF DeadLink, Stays, Rests, position, Reading
  <2>4. (\E spine \in Spine : SelectChapter(spine)) => Leaves
    BY DEF SelectChapter, GoTo, Stays, Leaves, Locked, Reading
  <2>5. (\E spine \in Spine : \E f \in Fractions : JumpToPercent(spine, f)) => Leaves
    BY DEF JumpToPercent, GoTo, Stays, Leaves, Locked, Reading
  <2>6. (\E spine \in Spine : \E page \in 0 .. MostPages - 1 : Sync(spine, page)) => Leaves
    BY DEF Sync, GoTo, Stays, Leaves, Locked, Reading
  <2>7. (\E spine \in Spine : \E fragment \in BOOLEAN : NavigateToHref(spine, fragment)) => Leaves
    BY DEF NavigateToHref, GoTo, Stays, Leaves, Locked, Reading
  <2>8. (\E l \in Layouts : Reflow(l)) => Leaves
    BY DEF Reflow, Stays, Leaves, Locked, Reading
  <2> QED BY <1>3, <2>1, <2>2, <2>3, <2>4, <2>5, <2>6, <2>7, <2>8 DEF Key, MainKinds
<1>4. ASSUME Power PROVE MainKinds
  <2>1. GoHome \/ DeleteCache \/ Sleep \/ Crash => Closes
    BY DEF GoHome, DeleteCache, Sleep, Crash, Closes
  <2>2. OpenBook \/ BootHome \/ BootReader => Rests
    BY DEF OpenBook, BootHome, BootReader, Rests, position, files, history
  <2> QED BY <1>4, <2>1, <2>2 DEF Power, MainKinds
<1>5. PutDown => Rests
  BY DEF PutDown, Rests, files, position
<1> QED BY <1>1, <1>2, <1>3, <1>4, <1>5 DEF Next, MainKinds

(* A turn inside the section moves the page and gives the resumption up.       *)
LEMMA TurnEffect ==
  ASSUME TypeOK, NEW forward \in BOOLEAN, Turn(forward)
  PROVE  /\ where = "reader"
         /\ UNCHANGED <<where, layout, position, pending, cached, rendering, shown, loadCount, byBoot, bootCrash>>
         /\ \/ UNCHANGED <<section, resumes>> /\ crossing' = "no"
            \/ /\ UNCHANGED <<section, resumes>> /\ section # None
               /\ crossing' = "prev" => currentSpineIndex > 0
            \/ /\ crossing' = "no" /\ resumes' = None /\ section # None /\ section' # None
               /\ section'.spine = section.spine /\ section'.count = section.count
<1> USE BookAssumption
<1>1. /\ where = "reader" /\ crossing = "no"
      /\ UNCHANGED <<where, layout, position, pending, cached, rendering, shown, loadCount, byBoot, bootCrash>>
  BY DEF Turn, Reading, Stays
<1>2. CASE section = None
  BY <1>1, <1>2 DEF Turn
<1>3. CASE section # None
  <2>1. section \in SectionType
    BY <1>3 DEF TypeOK
  <2>2. CASE section' = [section EXCEPT !.page = section.page + 1] /\ resumes' = None /\ crossing' = crossing
    <3>1. section' = [spine |-> section.spine, count |-> section.count, page |-> section.page + 1]
      BY <2>1, <2>2 DEF SectionType
    <3> QED BY <1>1, <1>3, <2>1, <2>2, <3>1, Records DEF SectionType
  <2>3. CASE /\ section' = [section EXCEPT !.page = section.page - 1] /\ resumes' = None /\ crossing' = crossing
             /\ section.page > 0
    <3>1. section' = [spine |-> section.spine, count |-> section.count, page |-> section.page - 1]
      BY <2>1, <2>3 DEF SectionType
    <3>2. section.page - 1 \in Nat /\ section.spine \in Spine /\ section.count \in Nat
      BY <2>1, <2>3 DEF SectionType
    <3> QED BY <1>1, <1>3, <2>1, <2>3, <3>1, <3>2, Records DEF SectionType
  <2>4. CASE UNCHANGED <<section, resumes>> /\ (crossing' = "prev" => currentSpineIndex > 0)
    BY <1>1, <1>3, <2>4
  <2> QED BY <1>1, <1>3, <2>2, <2>3, <2>4 DEF Turn
<1> QED BY <1>2, <1>3
-----------------------------------------------------------------------------
(* Every step keeps the shape: the section is that of the spine index, and so  *)
(* on.                                                                         *)
LEMMA ShapeStep == TypeOK /\ Shape /\ [Next]_vars => Shape'
<1> SUFFICES ASSUME TypeOK, Shape, [Next]_vars PROVE Shape'
  OBVIOUS
<1> USE BookAssumption
<1>1. CASE RenderTask
  <2>1. /\ UNCHANGED <<where, crossing>> /\ where = "reader"
        /\ currentSpineIndex' = currentSpineIndex \/ (StartRender /\ currentSpineIndex' = Clamped)
    <3>1. UNCHANGED <<where, crossing>>
      BY <1>1 DEF RenderTask, StartRender, BuildPages, BuildFails, PlacePage, Draw, LoadFails, Save, RenderStays
    <3>2. where = "reader"
      BY <1>1 DEF RenderTask, StartRender, BuildPages, BuildFails, PlacePage, Draw, LoadFails, Save, Shape, Closed
    <3>3. currentSpineIndex' = currentSpineIndex \/ (StartRender /\ currentSpineIndex' = Clamped)
      BY <1>1 DEF RenderTask, StartRender, BuildPages, BuildFails, PlacePage, Draw, LoadFails, Save
    <3> QED BY <3>1, <3>2, <3>3
  <2>2. currentSpineIndex \in Spine => currentSpineIndex' = currentSpineIndex
    BY <2>1 DEF Clamped, Spine, Smaller, TypeOK
  <2>3. SectionOfSpine' /\ (rendering' # "no" => section' # None)
    <3>1. CASE StartRender
      <4>1. Clamped \in 0 .. SpineCount
        BY DEF TypeOK, Clamped, Smaller
      <4>2. Clamped # SpineCount => NewSection(Clamped).spine = Clamped /\ NewSection(Clamped) # None
        BY <4>1, Records DEF NewSection, Spine
      <4>3. section # None => currentSpineIndex \in Spine /\ section.spine = currentSpineIndex
        BY DEF TypeOK, Shape, SectionOfSpine, SectionType
      <4>4. section # None => Clamped # SpineCount
        BY <2>1, <2>2, <3>1, <4>3 DEF StartRender, Spine
      <4> QED BY <2>2, <3>1, <4>2, <4>3, <4>4 DEF StartRender, SectionOfSpine
    <3>2. CASE BuildPages
      <4>1. section \in SectionType /\ section.spine = currentSpineIndex
        BY <3>2 DEF BuildPages, TypeOK, Shape, SectionOfSpine
      <4>2. PICK n \in {section.count + 1, Pages} : section' = [section EXCEPT !.count = n]
        BY <3>2 DEF BuildPages
      <4>3. Pages \in 0 .. MostPages
        BY <4>1 DEF Pages, SectionType, TypeOK
      <4>4. section' = [spine |-> section.spine, count |-> n, page |-> section.page] /\ n \in Nat
        BY <4>1, <4>2, <4>3 DEF SectionType
      <4> QED BY <3>2, <4>1, <4>4, Records DEF BuildPages, SectionOfSpine, SectionType
    <3>3. CASE BuildFails \/ LoadFails
      BY <3>3 DEF BuildFails, LoadFails, SectionOfSpine
    <3>4. CASE PlacePage
      <4>1. section \in SectionType /\ section.spine = currentSpineIndex 
        BY <3>4 DEF PlacePage, TypeOK, Shape, SectionOfSpine
      <4>2. PICK page \in AnchorPages :
              section' = [section EXCEPT !.page = IF HitsPercent THEN PercentPage ELSE Rescaled(page)]
        BY <3>4 DEF PlacePage
      <4>3. section' \in [spine : {section.spine}, count : {section.count},
                          page : {IF HitsPercent THEN PercentPage ELSE Rescaled(page)}]
        BY <4>1, <4>2 DEF SectionType
      <4>4. section'.spine = section.spine /\ DOMAIN section' = {"spine", "count", "page"}
        BY <4>3
      <4>5. section' # None
        <5>1. section' \in SectionType
          BY <3>4, <4>1, PlacedType
        <5> QED BY <5>1 DEF SectionType
      <4> QED BY <3>4, <4>1, <4>4, <4>5 DEF PlacePage, SectionOfSpine
    <3>5. CASE Draw \/ Save
      BY <3>5 DEF Draw, Save, Shape, SectionOfSpine
    <3> QED BY <1>1, <3>1, <3>2, <3>3, <3>4, <3>5 DEF RenderTask
  <2> QED BY <2>1, <2>2, <2>3 DEF Shape
<1>2. CASE Leaves
  <2>1. where = "reader"
    BY <1>2 DEF Leaves, Shape, Closed
  <2> QED BY <1>2, <2>1 DEF Leaves, Shape, SectionOfSpine
<1>3. CASE Closes
  BY <1>3 DEF Closes, Forgotten, Closed, Shape, SectionOfSpine
<1>4. CASE Rests
  BY <1>4 DEF Rests, Shape, SectionOfSpine, Closed, position, pending
<1>5. CASE OnEnter
  BY <1>5 DEF OnEnter, Shape, SectionOfSpine, Closed
<1>6. CASE BackFromEnd
  <2>1. currentSpineIndex \notin Spine
    BY <1>6 DEF BackFromEnd, AtEnd, Spine
  <2>2. section = None /\ rendering = "no"
    BY <2>1 DEF Shape, SectionOfSpine, TypeOK, SectionType
  <2> QED BY <1>6, <2>2 DEF BackFromEnd, Stays, Reading, Shape, SectionOfSpine
<1>7. ASSUME NEW forward \in BOOLEAN, Turn(forward) PROVE Shape'
  <2>1. section # None => currentSpineIndex \in Spine /\ section.spine = currentSpineIndex
    BY DEF TypeOK, Shape, SectionOfSpine, SectionType
  <2>2. /\ where' = "reader" /\ currentSpineIndex' = currentSpineIndex /\ rendering' = rendering
        /\ \/ section' = section
           \/ section # None /\ section' # None /\ section'.spine = section.spine
        /\ crossing' # "no" => section # None
        /\ crossing' = "prev" => currentSpineIndex > 0
    BY <1>7, TurnEffect DEF position
  <2> QED BY <2>1, <2>2 DEF Shape, SectionOfSpine
<1> QED BY <1>1, <1>2, <1>3, <1>4, <1>5, <1>6, <1>7, StepKinds DEF MainKinds
-----------------------------------------------------------------------------
(* What was pending is spent when the section is placed, and nothing is left   *)
(* pending beside a section that is kept.                                      *)
LEMMA SpentStep == TypeOK /\ Shape /\ Spent /\ [Next]_vars => Spent'
<1> SUFFICES ASSUME TypeOK, Shape, Spent, [Next]_vars PROVE Spent'
  OBVIOUS
<1> USE BookAssumption
<1>1. CASE RenderTask
  <2>1. CASE StartRender
    <3>1. section = None => section' = None \/ section'.count = 0
      BY <2>1 DEF StartRender, NewSection
    <3>2. section # None => section' = section \/ section' = None \/ section'.count = 0
      BY <2>1 DEF StartRender, NewSection
    <3>3. rendering = "no" /\ UNCHANGED <<pending, cached>>
      BY <2>1 DEF StartRender
    <3> QED BY <3>1, <3>2, <3>3 DEF Spent, pending, cached
  <2>2. CASE BuildPages \/ BuildFails \/ LoadFails
    BY <2>2 DEF BuildPages, BuildFails, LoadFails, Spent
  <2>3. CASE PlacePage
    <3>1. section'.count = section.count
      <4>1. section \in SectionType
        BY <2>3 DEF PlacePage, TypeOK, Shape
      <4>2. PICK page \in AnchorPages :
              section' = [section EXCEPT !.page = IF HitsPercent THEN PercentPage ELSE Rescaled(page)]
        BY <2>3 DEF PlacePage
      <4> QED BY <4>1, <4>2 DEF SectionType
    <3>2. section.count > 0 => pendingPercent' = None
      BY <2>3 DEF PlacePage, HitsPercent
    <3>3. pendingLast' = None /\ ~pendingAnchor' /\ cachedChapterTotalPageCount' = 0
      BY <2>3 DEF PlacePage
    <3> QED BY <3>1, <3>2, <3>3 DEF Spent
  <2>4. CASE Draw \/ Save
    BY <2>4 DEF Draw, Save, Spent, pending, cached
  <2> QED BY <1>1, <2>1, <2>2, <2>3, <2>4 DEF RenderTask
<1>2. CASE Leaves \/ Closes
  BY <1>2 DEF Leaves, Closes, Forgotten, Spent
<1>3. CASE Rests
  BY <1>3 DEF Rests, Spent, pending, cached
<1>4. CASE OnEnter
  BY <1>4 DEF OnEnter, Shape, Closed, Spent
<1>5. CASE BackFromEnd
  <2>1. currentSpineIndex \notin Spine
    BY <1>5 DEF BackFromEnd, AtEnd, Spine
  <2>2. section = None
    BY <2>1 DEF Shape, SectionOfSpine, TypeOK, SectionType
  <2> QED BY <1>5, <2>2 DEF BackFromEnd, Spent
<1>6. ASSUME NEW forward \in BOOLEAN, Turn(forward) PROVE Spent'
  <2>1. /\ UNCHANGED <<pending, cached, rendering>>
        /\ section' = section \/ (section # None /\ section'.count = section.count)
    BY <1>6, TurnEffect
  <2> QED BY <2>1 DEF Spent, pending, cached
<1> QED BY <1>1, <1>2, <1>3, <1>4, <1>5, <1>6, StepKinds DEF MainKinds

(* The render task leads to the place that is to be resumed, and shows it.      *)
LEMMA ResumingRender == TypeOK /\ Shape /\ Resuming /\ RenderTask => Resuming'
<1> SUFFICES ASSUME TypeOK, Shape, Resuming, RenderTask, resumes' # None PROVE Resuming'
  BY DEF Resuming
<1> USE BookAssumption
<1>1. resumes' = resumes /\ resumes # None
  BY DEF RenderTask, StartRender, BuildPages, BuildFails, PlacePage, Draw, LoadFails, Save
<1>2. UNCHANGED <<layout, nextPageNumber>>
  BY DEF RenderTask, StartRender, BuildPages, BuildFails, PlacePage, Draw, LoadFails, Save, RenderStays
<1> DEFINE all == PageCount[layout][currentSpineIndex]
<1>3. /\ resumes = Place(currentSpineIndex, nextPageNumber) /\ currentSpineIndex \in Spine
      /\ nextPageNumber < all
      /\ pendingLast = None /\ ~pendingAnchor /\ pendingPercent = None
      /\ cachedChapterTotalPageCount \in {0, all}
      /\ (section # None /\ rendering # "build") => section.page = nextPageNumber
      /\ rendering = "save" => shown = resumes
  BY <1>1 DEF Resuming
<1>4. nextPageNumber \in Nat /\ all \in 0 .. MostPages
  BY <1>3 DEF TypeOK
<1>5. section # None => section \in SectionType /\ section.spine = currentSpineIndex
  BY DEF TypeOK, Shape, SectionOfSpine
<1>6. CASE StartRender
  <2>1. Clamped = currentSpineIndex
    BY <1>3 DEF Clamped, Spine, Smaller
  <2>2. currentSpineIndex' = currentSpineIndex /\ UNCHANGED <<pending, cached>>
    BY <1>6, <2>1 DEF StartRender
  <2>3. /\ rendering' # "save"
        /\ (section' # None /\ rendering' # "build") => section' = section /\ rendering = "no"
    BY <1>6 DEF StartRender
  <2> QED BY <1>1, <1>2, <1>3, <2>2, <2>3 DEF Resuming, pending, cached, Place
<1>7. CASE BuildPages \/ BuildFails \/ LoadFails
  <2>1. UNCHANGED <<currentSpineIndex, pending, cached>> /\ rendering' # "save"
    BY <1>7 DEF BuildPages, BuildFails, LoadFails
  <2>2. (section' # None /\ rendering' # "build") => FALSE
    BY <1>7 DEF BuildPages, BuildFails, LoadFails
  <2> QED BY <1>1, <1>2, <1>3, <2>1, <2>2 DEF Resuming, pending, cached, Place
<1>8. CASE PlacePage
  <2>1. section \in SectionType /\ section.spine = currentSpineIndex /\ section.count = all
    BY <1>5, <1>8 DEF PlacePage, Shape, Pages
  <2>2. AskedPage = nextPageNumber
    BY <1>3, <1>4, <2>1 DEF AskedPage, Smaller, SectionType
  <2>3. PICK page \in AnchorPages :
          section' = [section EXCEPT !.page = IF HitsPercent THEN PercentPage ELSE Rescaled(page)]
    BY <1>8 DEF PlacePage
  <2>4. page = nextPageNumber /\ ~HitsPercent
    BY <1>3, <2>2, <2>3 DEF AnchorPages, HitsPercent
  <2>5. Rescaled(page) = page
    BY <1>3, <2>1 DEF Rescaled
  <2>6. section'.page = nextPageNumber
    BY <2>1, <2>3, <2>4, <2>5 DEF SectionType
  <2>7. /\ currentSpineIndex' = currentSpineIndex /\ pendingLast' = None /\ ~pendingAnchor'
        /\ pendingPercent' = None /\ cachedChapterTotalPageCount' = 0 /\ rendering' = "draw"
    BY <1>3, <1>8 DEF PlacePage
  <2> QED BY <1>1, <1>2, <1>3, <2>6, <2>7 DEF Resuming, Place
<1>9. CASE Draw
  <2>1. section \in SectionType /\ section.spine = currentSpineIndex /\ section.page = nextPageNumber
    BY <1>3, <1>5, <1>9 DEF Draw, Shape
  <2>2. rendering' = "save" => shown' = Place(currentSpineIndex, nextPageNumber)
    BY <1>9, <2>1 DEF Draw
  <2>3. UNCHANGED <<currentSpineIndex, section, pending, cached>>
    BY <1>9 DEF Draw
  <2> QED BY <1>1, <1>2, <1>3, <2>1, <2>2, <2>3 DEF Resuming, pending, cached, Place
<1>10. CASE Save
  BY <1>1, <1>10 DEF Save
<1> QED BY <1>6, <1>7, <1>8, <1>9, <1>10 DEF RenderTask

(* Every step leaves the resumption on its way, or gives it up.                *)
LEMMA ResumingStep == TypeOK /\ Shape /\ Resuming /\ [Next]_vars => Resuming'
<1> SUFFICES ASSUME TypeOK, Shape, Resuming, [Next]_vars PROVE Resuming'
  OBVIOUS
<1> USE BookAssumption
<1>1. CASE Leaves \/ Closes
  BY <1>1 DEF Leaves, Closes, Forgotten, Resuming
<1>2. CASE Rests
  BY <1>2 DEF Rests, Resuming, position, pending, cached, Place
<1>3. CASE OnEnter
  <2> DEFINE at == IF progress = None THEN Progress(0, 0, 0) ELSE progress
  <2>1. section' = None /\ pendingLast' = None /\ ~pendingAnchor' /\ pendingPercent' = None /\ rendering' = "no"
    BY <1>3 DEF OnEnter, Shape, Closed, pending
  <2>2. resumes' # None =>
          /\ currentSpineIndex' = at.spine /\ at.count = PageCount[layout][at.spine] /\ at.page < at.count
          /\ resumes' = Place(at.spine, at.page)
    BY <1>3 DEF OnEnter
  <2>3. nextPageNumber' = at.page /\ cachedChapterTotalPageCount' = at.count /\ layout' = layout
    BY <1>3 DEF OnEnter
  <2>4. at.spine \in Spine
    <3>1. progress \in [spine : Spine, page : Nat, count : 0..MostPages] \cup {None}
      BY DEF TypeOK
    <3>2. 0 \in Spine
      BY DEF Spine, BookAssumption
    <3> QED BY <3>1, <3>2 DEF Progress
  <2> HIDE DEF at
  <2>5. ASSUME resumes' # None
        PROVE  /\ resumes' = Place(currentSpineIndex', nextPageNumber')
               /\ currentSpineIndex' \in Spine
               /\ nextPageNumber' < PageCount[layout'][currentSpineIndex']
               /\ cachedChapterTotalPageCount' = PageCount[layout'][currentSpineIndex']
    <3>1. /\ currentSpineIndex' = at.spine /\ nextPageNumber' = at.page /\ layout' = layout
          /\ cachedChapterTotalPageCount' = at.count
      BY <2>2, <2>3, <2>5
    <3>2. /\ at.count = PageCount[layout][at.spine] /\ at.page < at.count
          /\ resumes' = Place(at.spine, at.page)
      BY <2>2, <2>5
    <3> QED BY <2>4, <3>1, <3>2, Zenon
  <2> QED BY <2>1, <2>5 DEF Resuming
<1>4. CASE BackFromEnd
  <2>1. currentSpineIndex \notin Spine
    BY <1>4 DEF BackFromEnd, AtEnd, Spine
  <2> QED BY <1>4, <2>1 DEF BackFromEnd, Resuming
<1>5. ASSUME NEW forward \in BOOLEAN, Turn(forward) PROVE Resuming'
  <2>1. /\ UNCHANGED <<layout, position, pending, cached, rendering, shown>>
        /\ UNCHANGED <<section, resumes>> \/ resumes' = None
    BY <1>5, TurnEffect
  <2> QED BY <2>1 DEF Resuming, position, pending, cached, Place
<1> QED BY <1>1, <1>2, <1>3, <1>4, <1>5, ResumingRender, StepKinds DEF MainKinds
-----------------------------------------------------------------------------
(* The boot's part: what each kind of step does to the counter and to the       *)
(* histories of the boot's openings.                                           *)
BootVars == <<loadCount, byBoot, bootCrash>>

BootKinds ==
  \/ UNCHANGED BootVars /\ (byBoot => where' \in {"opening", "reader"})
  \/ OnExit
  \/ ~byBoot /\ byBoot' = FALSE /\ UNCHANGED <<loadCount, bootCrash>>
  \/ bootCrash' = (bootCrash \/ byBoot) /\ byBoot' = FALSE /\ UNCHANGED loadCount
  \/ /\ ~byBoot /\ loadCount = 0 /\ byBoot' = TRUE /\ loadCount' = 1 /\ where' = "opening"
     /\ UNCHANGED bootCrash

(* Every step has one of these effects.                                        *)
LEMMA BootStepKinds == TypeOK /\ Shape /\ Booted /\ [Next]_vars => BootKinds
<1> SUFFICES ASSUME TypeOK, Shape, Booted, [Next]_vars PROVE BootKinds
  OBVIOUS
<1>1. CASE RenderTask
  <2>1. UNCHANGED <<where, BootVars>>
    BY <1>1 DEF RenderTask, StartRender, BuildPages, BuildFails, PlacePage, Draw, LoadFails, Save,
                RenderStays, BootVars
  <2> QED BY <2>1 DEF BootKinds, Booted
<1>2. CASE Cross \/ Key
  <2>1. Stays
    <3>1. \A forward \in BOOLEAN : Turn(forward) \/ SkipChapter(forward) => Stays
      BY DEF Turn, SkipChapter
    <3>2. Cross \/ BackFromEnd \/ RestoreSavedPosition \/ DeadLink => Stays
      BY DEF Cross, BackFromEnd, RestoreSavedPosition, DeadLink
    <3>3. \A spine \in Spine :
            /\ SelectChapter(spine) => Stays
            /\ \A f \in Fractions : JumpToPercent(spine, f) => Stays
            /\ \A page \in 0 .. MostPages - 1 : Sync(spine, page) => Stays
            /\ \A fragment \in BOOLEAN : NavigateToHref(spine, fragment) => Stays
      BY DEF SelectChapter, JumpToPercent, Sync, NavigateToHref
    <3>4. \A l \in Layouts : Reflow(l) => Stays
      BY DEF Reflow
    <3> QED BY <1>2, <3>1, <3>2, <3>3, <3>4 DEF Key
  <2>2. UNCHANGED <<where, BootVars>>
    BY <2>1 DEF Stays, BootVars
  <2> QED BY <2>2 DEF BootKinds, Booted
<1>3. CASE OnEnter \/ PutDown
  <2>1. UNCHANGED BootVars /\ where' = "reader"
    BY <1>3 DEF OnEnter, PutDown, BootVars, files
  <2> QED BY <2>1 DEF BootKinds
<1>4. CASE GoHome \/ DeleteCache
  BY <1>4 DEF GoHome, DeleteCache, BootKinds
<1>5. CASE Sleep
  <2>1. where = "reader" => OnExit
    BY <1>5 DEF Sleep
  <2>2. where # "reader" => UNCHANGED BootVars /\ ~byBoot
    BY <1>5 DEF Sleep, Reading, Booted, BootVars
  <2> QED BY <2>1, <2>2 DEF BootKinds
<1>6. CASE Crash
  BY <1>6 DEF Crash, files, BootKinds
<1>7. CASE OpenBook \/ BootHome
  BY <1>7 DEF OpenBook, BootHome, files, history, Booted, BootKinds, BootVars
<1>8. CASE BootReader
  BY <1>8 DEF BootReader, Booted, BootKinds
<1>9. CASE UNCHANGED vars
  BY <1>9 DEF vars, files, history, Booted, BootKinds, BootVars
<1> QED BY <1>1, <1>2, <1>3, <1>4, <1>5, <1>6, <1>7, <1>8, <1>9 DEF Next, Power

(* Every step keeps the counter in agreement with the histories.               *)
LEMMA BootedStep == TypeOK /\ Shape /\ Booted /\ [Next]_vars => Booted'
<1> SUFFICES ASSUME TypeOK, Shape, Booted, [Next]_vars PROVE Booted'
  OBVIOUS
<1>1. loadCount \in 0 .. 1 /\ byBoot \in BOOLEAN /\ bootCrash \in BOOLEAN
  BY DEF TypeOK
<1>2. BootKinds
  BY BootStepKinds
<1> QED BY <1>1, <1>2 DEF BootKinds, Booted, BootVars, OnExit

(* The invariant holds in every reachable state.                               *)
THEOREM Invariance == Spec => []Inv
<1>1. Inv /\ [Next]_vars => Inv'
  BY TypeStep, ShapeStep, SpentStep, ResumingStep, BootedStep DEF Inv
<1> QED BY InitInv, <1>1, PTL DEF Spec

(* The variables keep their types.                                             *)
THEOREM TypeCorrect == Spec => []TypeOK
<1>1. Inv => TypeOK
  BY DEF Inv
<1> QED BY Invariance, <1>1, PTL

(* The section in memory is always that of the spine index.                    *)
THEOREM SectionFollows == Spec => []SectionOfSpine
<1>1. Inv => SectionOfSpine
  BY DEF Inv, Shape
<1> QED BY Invariance, <1>1, PTL

(* The first page drawn after an opening is the saved one.                     *)
THEOREM Resumes == Spec => []ResumeShown
<1>1. Inv => ResumeShown
  BY DEF Inv, Resuming, ResumeShown
<1> QED BY Invariance, <1>1, PTL

(* What a navigation left for a section never reaches a later one.             *)
THEOREM NothingPends == Spec => []PendingSpent
<1>1. Inv => PendingSpent
  BY DEF Inv, Shape, Spent, PendingSpent
<1> QED BY Invariance, <1>1, PTL

(* No boot opens the book that crashed when the boot opened it.                *)
THEOREM BootLoopIsBroken == Spec => []BootLoopBroken
<1>1. Inv => BootLoopBroken
  BY DEF Inv, TypeOK, Booted, BootLoopBroken
<1> QED BY Invariance, <1>1, PTL
-----------------------------------------------------------------------------
(* Every step of the reader is a step of CrashGuard, or none.                  *)
LEMMA GuardStep == Inv /\ [Next]_vars => [Guard!Next]_(Guard!vars)
<1> SUFFICES ASSUME Inv, [Next]_vars PROVE [Guard!Next]_(Guard!vars)
  OBVIOUS
<1> DEFINE failed == loadCount > 0 /\ ~byBoot
<1>1. loadCount \in 0 .. 1 /\ loadCount' \in 0 .. 1 /\ byBoot \in BOOLEAN /\ bootCrash \in BOOLEAN /\ BootKinds /\ Booted
  BY BootStepKinds, TypeStep DEF Inv, TypeOK
<1>2. CASE UNCHANGED BootVars
  <2>1. byBoot' = byBoot /\ failed' = failed
    BY <1>2 DEF BootVars
  <2> QED BY <2>1 DEF Guard!vars
<1>3. CASE OnExit
  <2>1. ~byBoot' /\ byBoot' = FALSE /\ failed' = FALSE
    BY <1>3 DEF OnExit
  <2>2. byBoot = FALSE /\ failed = FALSE => UNCHANGED Guard!vars
    BY <2>1 DEF Guard!vars
  <2>3. byBoot \/ failed => Guard!Finish
    BY <2>1 DEF Guard!Finish
  <2> QED BY <1>1, <2>2, <2>3 DEF Guard!Next
<1>4. CASE ~byBoot /\ byBoot' = FALSE /\ UNCHANGED <<loadCount, bootCrash>>
  <2>1. byBoot' = byBoot /\ failed' = failed
    BY <1>1, <1>4
  <2> QED BY <2>1 DEF Guard!vars
<1>5. CASE bootCrash' = (bootCrash \/ byBoot) /\ byBoot' = FALSE /\ UNCHANGED loadCount
  <2>1. CASE byBoot
    <3>1. loadCount' = 1
      BY <1>5, <1>1, <2>1 DEF Booted
    <3>2. failed' = TRUE
      BY <1>5, <3>1
    <3> QED BY <1>5, <2>1, <3>2 DEF Guard!Fail, Guard!Next
  <2>2. CASE ~byBoot
    <3>1. byBoot' = byBoot /\ failed' = failed
      BY <1>1, <1>5, <2>2
    <3> QED BY <3>1 DEF Guard!vars
  <2> QED BY <2>1, <2>2
<1>6. CASE ~byBoot /\ loadCount = 0 /\ byBoot' = TRUE /\ loadCount' = 1
  <2>1. failed = FALSE /\ failed' = FALSE
    BY <1>6
  <2> QED BY <1>6, <2>1 DEF Guard!Begin, Guard!Next
<1> QED BY <1>1, <1>2, <1>3, <1>4, <1>5, <1>6 DEF BootKinds

(* The reader, its boot and its counter implement CrashGuard.                  *)
THEOREM GuardImplemented == Spec => BootGuard
<1>1. Init => Guard!Init
  BY DEF Init, Guard!Init
<1> QED BY Invariance, <1>1, GuardStep, PTL DEF Spec, BootGuard, Guard!Spec
=============================================================================
