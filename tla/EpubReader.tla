----------------------------- MODULE EpubReader -----------------------------
(* A book in EpubReaderActivity, from its opening to its end, and what of it   *)
(* survives a sleep or a crash.  The render task loads or builds the section   *)
(* (the laid-out pages of one spine item) and draws; it holds the rendering    *)
(* mutex from the start of render() to its end, which "rendering" stands for.  *)
(* The main task turns pages without the mutex inside a section, and takes it  *)
(* to leave one: then it waits for the drawing to end and goes on with what it *)
(* read before.                                                                *)
(*                                                                             *)
(* Menus, chapter lists and the like are activities on top of the reader: the  *)
(* mutex has been taken to bring them up and render() is not called before     *)
(* they have given their result to one of the handlers here.                   *)
EXTENDS Integers, Sequences

CONSTANTS
  SpineCount,      \* epub->getSpineItemsCount()
  Layouts,         \* orientations, fonts, margins: all that pages depend on
  MostPages,       \* bound on the pages of a spine item
  PageCount,       \* pages of a spine item in a layout
  TextReference,   \* epub->getSpineIndexForTextReference()
  Fractions,       \* what pendingSpineProgress may be, as << part, of >>
  MaxFootnoteDepth,
  None

Spine == 0 .. SpineCount - 1

ASSUME BookAssumption ==
  /\ SpineCount \in Nat \ {0} /\ TextReference \in Spine /\ MostPages \in Nat
  /\ PageCount \in [Layouts -> [Spine -> 0 .. MostPages]]
  /\ Fractions \subseteq {f \in Nat \X Nat : f[1] <= f[2] /\ f[2] > 0}
  /\ MaxFootnoteDepth \in Nat \ {0}
  /\ None \notin Nat \union Fractions \union [spine : Spine, page : Nat]
  /\ None \notin [spine : Spine, page : Nat, count : Nat]

VARIABLES
  where,          \* "off", "home", "opening" or "reader"
  layout,         \* SETTINGS
  progress,       \* progress.bin
  openEpub, fromReader, loadCount,  \* APP_STATE on the SD card
  currentSpineIndex, nextPageNumber,
  section,        \* None, or its spine, pageCount and currentPage
  pendingLast,    \* pendingPageJump: None or "the last page" of the next section
  pendingAnchor,  \* a fragment is to be looked up in the next section
  pendingPercent, \* None, or pendingSpineProgress while pendingPercentJump
  cachedSpineIndex, cachedChapterTotalPageCount,
  savedPositions, \* footnotes: the positions to come back to
  rendering,      \* render(): "no", or the part that comes next
  updating,       \* an update has been requested
  crossing,       \* pageTurn() waits for the mutex: "no", "next" or "prev"
  shown,          \* history: the place on the screen, None when none is
  resumes,        \* history: the place to be shown first after an opening
  byBoot,         \* history: this opening was the boot's
  bootCrash,      \* history: an opening by the boot ended in a crash
  handsOff        \* the user has put the reader down

files == <<layout, progress, openEpub, fromReader, loadCount>>
pending == <<pendingLast, pendingAnchor, pendingPercent>>
cached == <<cachedSpineIndex, cachedChapterTotalPageCount>>
position == <<currentSpineIndex, nextPageNumber>>
history == <<shown, resumes, byBoot, bootCrash, handsOff>>
vars == <<where, files, position, section, pending, cached, savedPositions, rendering, updating,
          crossing, history>>

Place(spine, page) == [spine |-> spine, page |-> page]
Progress(spine, page, count) == [spine |-> spine, page |-> page, count |-> count]
NewSection(spine) == [spine |-> spine, count |-> 0, page |-> 0]
AtEnd == currentSpineIndex > 0 /\ currentSpineIndex >= SpineCount
Smaller(a, b) == IF a < b THEN a ELSE b
-----------------------------------------------------------------------------
(* render(), on the render task.                                              *)

RenderStays == UNCHANGED <<where, layout, openEpub, fromReader, loadCount, crossing, nextPageNumber,
                           savedPositions, byBoot, bootCrash, handsOff>>

(* The spine index is clamped.  Behind the last item the end of the book is    *)
(* shown; without a section one is made, to be loaded from its file or built.  *)
Clamped == IF currentSpineIndex < 0 THEN 0 ELSE Smaller(currentSpineIndex, SpineCount)

StartRender ==
  /\ where = "reader" /\ updating /\ rendering = "no"
  /\ updating' = FALSE /\ currentSpineIndex' = Clamped
  /\ IF Clamped = SpineCount
     THEN shown' = None /\ UNCHANGED <<section, rendering>>
     ELSE IF section = None
     THEN section' = NewSection(Clamped) /\ rendering' = "build" /\ UNCHANGED shown
     ELSE rendering' = "draw" /\ UNCHANGED <<section, shown>>
  /\ RenderStays /\ UNCHANGED <<progress, pending, cached, resumes>>

(* The pages of a section come one after the other; one that is in its file    *)
(* has them at once.                                                          *)
Pages == PageCount[layout][section.spine]

BuildPages ==
  /\ rendering = "build" /\ section.count < Pages
  /\ section' \in {[section EXCEPT !.count = n] : n \in {section.count + 1, Pages}}
  /\ RenderStays
  /\ UNCHANGED <<progress, currentSpineIndex, pending, cached, rendering, updating, shown, resumes>>

BuildFails ==
  /\ rendering = "build" /\ rendering' = "no" /\ section' = None
  /\ RenderStays
  /\ UNCHANGED <<progress, currentSpineIndex, pending, cached, updating, shown, resumes>>

(* As if every section were opened at its beginning.                           *)
BrokenAskedPage == 0

(* Where the new section is opened: last page or asked page, clamped; the page *)
(* of the fragment, if it is found; the same share of the pages as before a    *)
(* change of layout; the share that a percentage asks for.                     *)
AskedPage ==
  IF pendingLast # None
  THEN IF section.count > 0 THEN section.count - 1 ELSE MostPages
  ELSE IF section.count > 0 THEN Smaller(nextPageNumber, section.count - 1) ELSE nextPageNumber

AnchorPages == IF pendingAnchor THEN {AskedPage} \union 0 .. section.count - 1 ELSE {AskedPage}

Rescaled(page) ==
  IF cachedChapterTotalPageCount > 0 /\ currentSpineIndex = cachedSpineIndex
       /\ section.count # cachedChapterTotalPageCount
  THEN (page * section.count) \div cachedChapterTotalPageCount
  ELSE page

PercentPage == Smaller((pendingPercent[1] * section.count) \div pendingPercent[2], section.count - 1)
HitsPercent == pendingPercent # None /\ section.count > 0

(* As if a jump to the last page stayed pending.                               *)
BrokenPlacePage ==
  /\ rendering = "build" /\ section.count = Pages /\ rendering' = "draw"
  /\ \E page \in AnchorPages :
       section' = [section EXCEPT !.page = IF HitsPercent THEN PercentPage ELSE Rescaled(page)]
  /\ pendingLast' = pendingLast /\ pendingAnchor' = FALSE
  /\ pendingPercent' = IF HitsPercent THEN None ELSE pendingPercent
  /\ cachedChapterTotalPageCount' = 0
  /\ RenderStays
  /\ UNCHANGED <<progress, currentSpineIndex, cachedSpineIndex, updating, shown, resumes>>

PlacePage ==
  /\ rendering = "build" /\ section.count = Pages /\ rendering' = "draw"
  /\ \E page \in AnchorPages :
       section' = [section EXCEPT !.page = IF HitsPercent THEN PercentPage ELSE Rescaled(page)]
  /\ pendingLast' = None /\ pendingAnchor' = FALSE
  /\ pendingPercent' = IF HitsPercent THEN None ELSE pendingPercent
  /\ cachedChapterTotalPageCount' = 0
  /\ RenderStays
  /\ UNCHANGED <<progress, currentSpineIndex, cachedSpineIndex, updating, shown, resumes>>

(* A chapter without pages and a page out of bounds are only announced.  A     *)
(* page that cannot be loaded takes its section along.                         *)
InBounds == section.page \in 0 .. section.count - 1

Draw ==
  /\ rendering = "draw"
  /\ IF InBounds
     THEN /\ shown' = Place(section.spine, section.page)
          /\ rendering' = "save"
     ELSE shown' = None /\ rendering' = "no"
  /\ RenderStays
  /\ UNCHANGED <<progress, currentSpineIndex, section, pending, cached, updating, resumes>>

LoadFails ==
  /\ rendering = "draw" /\ InBounds
  /\ section' = None /\ updating' = TRUE /\ rendering' = "no"
  /\ RenderStays
  /\ UNCHANGED <<progress, currentSpineIndex, pending, cached, shown, resumes>>

(* As if the request for an update were taken back when the drawing ends.      *)
BrokenSave ==
  /\ rendering = "save" /\ rendering' = "no" /\ updating' = FALSE
  /\ progress' = Progress(currentSpineIndex, section.page, section.count)
  /\ resumes' = None
  /\ RenderStays
  /\ UNCHANGED <<currentSpineIndex, section, pending, cached, shown>>

(* saveProgress(), and the end of render().                                   *)
Save ==
  /\ rendering = "save" /\ rendering' = "no"
  /\ progress' = Progress(currentSpineIndex, section.page, section.count)
  /\ resumes' = None
  /\ RenderStays
  /\ UNCHANGED <<currentSpineIndex, section, pending, cached, updating, shown>>

RenderTask == StartRender \/ BuildPages \/ BuildFails \/ PlacePage \/ Draw \/ LoadFails \/ Save
-----------------------------------------------------------------------------
(* The main task.  Locked: what it does under the mutex.                      *)

Reading == where = "reader" /\ crossing = "no"
Locked == rendering = "no"
Stays == UNCHANGED <<where, openEpub, fromReader, loadCount, rendering, shown, byBoot, bootCrash>>

(* As if the section of before were kept.                                      *)
BrokenGoTo(spine, page) ==
  /\ currentSpineIndex' = spine /\ nextPageNumber' = page
  /\ UNCHANGED section /\ updating' = TRUE /\ resumes' = None

(* To another section, of which PlacePage finds the page.                     *)
GoTo(spine, page) ==
  /\ currentSpineIndex' = spine /\ nextPageNumber' = page
  /\ section' = None /\ updating' = TRUE /\ resumes' = None

(* pageTurn(): decided on the section as it is, drawn or still being built.    *)
Turn(forward) ==
  /\ Reading /\ ~AtEnd
  /\ IF section = None
     THEN updating' = TRUE /\ UNCHANGED <<section, crossing, resumes>>
     ELSE IF forward /\ section.page < section.count - 1
     THEN section' = [section EXCEPT !.page = @ + 1] /\ updating' = TRUE /\ resumes' = None /\ UNCHANGED crossing
     ELSE IF ~forward /\ section.page > 0
     THEN section' = [section EXCEPT !.page = @ - 1] /\ updating' = TRUE /\ resumes' = None /\ UNCHANGED crossing
     ELSE IF forward \/ currentSpineIndex > 0
     THEN crossing' = (IF forward THEN "next" ELSE "prev") /\ UNCHANGED <<section, updating, resumes>>
     ELSE updating' = TRUE /\ UNCHANGED <<section, crossing, resumes>>
  /\ Stays /\ UNCHANGED <<layout, progress, position, pending, cached, savedPositions, handsOff>>

(* ... and carried out when the mutex is free.                                *)
Cross ==
  /\ crossing # "no" /\ Locked /\ crossing' = "no"
  /\ GoTo(IF crossing = "next" THEN currentSpineIndex + 1 ELSE currentSpineIndex - 1, 0)
  /\ pendingLast' = IF crossing = "prev" THEN "last" ELSE pendingLast
  /\ Stays
  /\ UNCHANGED <<layout, progress, pendingAnchor, pendingPercent, cached, savedPositions, handsOff>>

(* Back from the end of the book; here the code takes no mutex.               *)
BackFromEnd ==
  /\ Reading /\ AtEnd
  /\ currentSpineIndex' = SpineCount - 1 /\ nextPageNumber' = 0 /\ pendingLast' = "last"
  /\ updating' = TRUE
  /\ Stays
  /\ UNCHANGED <<layout, progress, section, pendingAnchor, pendingPercent, cached, savedPositions,
                 crossing, resumes, handsOff>>

(* A long press skips a chapter; back from the first one the index is -1.     *)
SkipChapter(forward) ==
  /\ Reading /\ ~AtEnd /\ Locked /\ (forward \/ currentSpineIndex >= 0)
  /\ GoTo(IF forward THEN currentSpineIndex + 1 ELSE currentSpineIndex - 1, 0)
  /\ Stays
  /\ UNCHANGED <<layout, progress, pending, cached, savedPositions, crossing, handsOff>>

(* The handlers of results: a chapter, a percentage, a synced position ...     *)
SelectChapter(spine) ==
  /\ Reading /\ Locked /\ spine # currentSpineIndex
  /\ GoTo(spine, 0)
  /\ Stays
  /\ UNCHANGED <<layout, progress, pending, cached, savedPositions, crossing, handsOff>>

JumpToPercent(spine, fraction) ==
  /\ Reading /\ Locked
  /\ GoTo(spine, 0) /\ pendingPercent' = fraction
  /\ Stays
  /\ UNCHANGED <<layout, progress, pendingLast, pendingAnchor, cached, savedPositions, crossing, handsOff>>

Sync(spine, page) ==
  /\ Reading /\ Locked
  /\ spine # currentSpineIndex \/ (section # None /\ section.page # page)
  /\ GoTo(spine, page)
  /\ cachedChapterTotalPageCount' = 0 /\ pendingLast' = None
  /\ progress' = Progress(spine, page, 0)
  /\ Stays
  /\ UNCHANGED <<layout, pendingAnchor, pendingPercent, cachedSpineIndex, savedPositions, crossing, handsOff>>

(* ... a footnote: the position is saved when there is room for it, and a       *)
(* link that leads nowhere takes one position back, saved or not.               *)
Pushed ==
  IF section # None /\ Len(savedPositions) < MaxFootnoteDepth
  THEN Append(savedPositions, Place(currentSpineIndex, section.page)) ELSE savedPositions

NavigateToHref(spine, fragment) ==
  /\ Reading /\ Locked /\ shown # None
  /\ GoTo(spine, 0) /\ pendingAnchor' = fragment
  /\ savedPositions' = Pushed
  /\ Stays
  /\ UNCHANGED <<layout, progress, pendingLast, pendingPercent, cached, crossing, handsOff>>

DeadLink ==
  /\ Reading /\ Locked /\ shown # None
  /\ savedPositions' = IF Pushed = <<>> THEN <<>> ELSE SubSeq(Pushed, 1, Len(Pushed) - 1)
  /\ updating' = TRUE
  /\ Stays
  /\ UNCHANGED <<layout, progress, position, section, pending, cached, crossing, resumes, handsOff>>

(* Back from a footnote: restoreSavedPosition().                              *)
RestoreSavedPosition ==
  /\ Reading /\ Locked /\ savedPositions # <<>>
  /\ LET last == savedPositions[Len(savedPositions)]
     IN  GoTo(last.spine, last.page)
  /\ savedPositions' = SubSeq(savedPositions, 1, Len(savedPositions) - 1)
  /\ Stays
  /\ UNCHANGED <<layout, progress, pending, cached, crossing, handsOff>>

(* applyOrientation() and the reflow of toggleAutoPageTurn(): the position and  *)
(* the number of pages are kept for PlacePage.                                 *)
Reflow(l) ==
  /\ Reading /\ Locked /\ l # layout
  /\ layout' = l /\ section' = None /\ updating' = TRUE /\ resumes' = None
  /\ IF section = None THEN UNCHANGED <<nextPageNumber, cached>>
     ELSE /\ cachedSpineIndex' = currentSpineIndex
          /\ cachedChapterTotalPageCount' = section.count
          /\ nextPageNumber' = section.page
  /\ Stays
  /\ UNCHANGED <<progress, currentSpineIndex, pending, savedPositions, crossing, handsOff>>
-----------------------------------------------------------------------------
(* Opening and leaving.                                                       *)

Forgotten ==
  /\ currentSpineIndex' = 0 /\ nextPageNumber' = 0 /\ section' = None
  /\ pendingLast' = None /\ pendingAnchor' = FALSE /\ pendingPercent' = None
  /\ cachedSpineIndex' = 0 /\ cachedChapterTotalPageCount' = 0 /\ savedPositions' = <<>>
  /\ rendering' = "no" /\ updating' = FALSE /\ crossing' = "no"
  /\ shown' = None /\ resumes' = None

(* onEnter(): the saved position, or the beginning.  A book that was left in   *)
(* its first item is taken for one that is opened for the first time.           *)
OnEnter ==
  LET at == IF progress = None THEN Progress(0, 0, 0) ELSE progress
  IN  /\ where = "opening" /\ where' = "reader"
      /\ currentSpineIndex' = IF at.spine = 0 THEN TextReference ELSE at.spine
      /\ nextPageNumber' = at.page
      /\ cachedSpineIndex' = at.spine /\ cachedChapterTotalPageCount' = at.count
      /\ resumes' = IF currentSpineIndex' = at.spine /\ at.count = PageCount[layout][at.spine]
                      /\ at.page < at.count
                    THEN Place(at.spine, at.page) ELSE None
      /\ openEpub' = TRUE /\ updating' = TRUE
      /\ UNCHANGED <<layout, progress, fromReader, loadCount, section, pending, savedPositions,
                     rendering, crossing, shown, byBoot, bootCrash, handsOff>>

(* As if the user's openings were counted too.                                 *)
BrokenOpenBook ==
  /\ where = "home" /\ where' = "opening" /\ byBoot' = FALSE /\ loadCount' = 1
  /\ UNCHANGED <<layout, progress, openEpub, fromReader, position, section, pending, cached,
                 savedPositions, rendering, updating, crossing, shown, resumes, bootCrash, handsOff>>

OpenBook ==
  /\ where = "home" /\ where' = "opening" /\ byBoot' = FALSE
  /\ UNCHANGED <<files, position, section, pending, cached, savedPositions, rendering, updating,
                 crossing, shown, resumes, bootCrash, handsOff>>

(* onExit(), for another activity, the home screen or a sleep.                *)
OnExit ==
  /\ loadCount' = 0
  /\ bootCrash' = FALSE /\ byBoot' = FALSE

GoHome ==
  /\ Reading /\ Locked /\ where' = "home" /\ OnExit /\ Forgotten
  /\ UNCHANGED <<layout, progress, openEpub, fromReader, handsOff>>

(* The menu deletes the cache but for the progress, and leaves.               *)
DeleteCache ==
  /\ Reading /\ Locked /\ section # None
  /\ progress' = Progress(currentSpineIndex, section.page, section.count)
  /\ where' = "home" /\ OnExit /\ Forgotten
  /\ UNCHANGED <<layout, openEpub, fromReader, handsOff>>

(* enterDeepSleep() from the reader or from the home screen.                   *)
Sleep ==
  /\ where = "home" \/ (Reading /\ Locked)
  /\ where' = "off" /\ fromReader' = (where = "reader")
  /\ IF where = "reader" THEN OnExit ELSE UNCHANGED <<loadCount, bootCrash, byBoot>>
  /\ Forgotten
  /\ UNCHANGED <<layout, progress, openEpub, handsOff>>

(* A crash or a lost battery at any moment.                                   *)
Crash ==
  /\ where # "off" /\ where' = "off"
  /\ bootCrash' = (bootCrash \/ byBoot) /\ byBoot' = FALSE
  /\ Forgotten
  /\ UNCHANGED <<files, handsOff>>

(* The end of setup(): home also serves a crash report or a held Back key.     *)
BootHome ==
  /\ where = "off" /\ where' = "home"
  /\ UNCHANGED <<files, position, section, pending, cached, savedPositions, rendering, updating,
                 crossing, history>>

BootReader ==
  /\ where = "off" /\ openEpub /\ fromReader /\ loadCount = 0
  /\ where' = "opening" /\ byBoot' = TRUE
  /\ openEpub' = FALSE /\ loadCount' = 1
  /\ UNCHANGED <<layout, progress, fromReader, position, section, pending, cached, savedPositions,
                 rendering, updating, crossing, shown, resumes, bootCrash, handsOff>>

PutDown ==
  /\ ~handsOff /\ handsOff' = TRUE /\ where = "reader"
  /\ UNCHANGED <<where, files, position, section, pending, cached, savedPositions, rendering,
                 updating, crossing, shown, resumes, byBoot, bootCrash>>

Init ==
  /\ where = "off" /\ layout \in Layouts /\ progress = None
  /\ openEpub = FALSE /\ fromReader = FALSE /\ loadCount = 0
  /\ currentSpineIndex = 0 /\ nextPageNumber = 0 /\ section = None
  /\ pendingLast = None /\ pendingAnchor = FALSE /\ pendingPercent = None
  /\ cachedSpineIndex = 0 /\ cachedChapterTotalPageCount = 0 /\ savedPositions = <<>>
  /\ rendering = "no" /\ updating = FALSE /\ crossing = "no"
  /\ shown = None /\ resumes = None /\ byBoot = FALSE /\ bootCrash = FALSE /\ handsOff = FALSE

Key ==
  \/ \E forward \in BOOLEAN : Turn(forward) \/ SkipChapter(forward)
  \/ BackFromEnd \/ RestoreSavedPosition \/ DeadLink
  \/ \E spine \in Spine :
       \/ SelectChapter(spine)
       \/ \E f \in Fractions : JumpToPercent(spine, f)
       \/ \E page \in 0 .. MostPages - 1 : Sync(spine, page)
       \/ \E fragment \in BOOLEAN : NavigateToHref(spine, fragment)
  \/ \E l \in Layouts : Reflow(l)

Power == GoHome \/ DeleteCache \/ OpenBook \/ Sleep \/ Crash \/ BootHome \/ BootReader

Next ==
  \/ RenderTask \/ Cross \/ OnEnter
  \/ ~handsOff /\ (Key \/ Power)
  \/ PutDown

(* Both tasks run on; what fails does not fail for ever.                       *)
Fairness ==
  /\ WF_vars(StartRender \/ BuildPages \/ PlacePage \/ Draw \/ Save)
  /\ WF_vars(Cross) /\ WF_vars(OnEnter)

Spec == Init /\ [][Next]_vars /\ Fairness
-----------------------------------------------------------------------------
(* Types of the variables of the reader and of its files.                      *)
SectionType == [spine : Spine, count : 0 .. MostPages, page : Nat]
TypeOK ==
  /\ where \in {"off", "home", "opening", "reader"} /\ layout \in Layouts
  /\ progress \in [spine : Spine, page : Nat, count : 0 .. MostPages] \union {None}
  /\ openEpub \in BOOLEAN /\ fromReader \in BOOLEAN /\ loadCount \in 0 .. 1
  /\ currentSpineIndex \in -1 .. SpineCount /\ nextPageNumber \in Nat
  /\ section \in SectionType \union {None}
  /\ pendingLast \in {"last", None} /\ pendingAnchor \in BOOLEAN
  /\ pendingPercent \in Fractions \union {None}
  /\ cachedSpineIndex \in Spine /\ cachedChapterTotalPageCount \in 0 .. MostPages
  /\ savedPositions \in Seq([spine : Spine, page : Nat])
  /\ Len(savedPositions) <= MaxFootnoteDepth
  /\ rendering \in {"no", "build", "draw", "save"} /\ updating \in BOOLEAN
  /\ crossing \in {"no", "next", "prev"}
  /\ shown \in [spine : Spine, page : Nat] \union {None}
  /\ resumes \in [spine : Spine, page : Nat] \union {None}
  /\ byBoot \in BOOLEAN /\ bootCrash \in BOOLEAN /\ handsOff \in BOOLEAN

(* The section in memory is that of the current spine index, so that what is   *)
(* drawn and what saveProgress() stores, the index of the reader with the page *)
(* of the section (EpubReaderActivity.cpp:693), are one place.                 *)
SectionOfSpine == section # None => section.spine = currentSpineIndex

(* A book comes back where it was left: after any sleep or crash, the first    *)
(* page drawn is the saved one, unless the user has gone elsewhere before, or   *)
(* the pages are laid out otherwise (onEnter(), EpubReaderActivity.cpp:63).     *)
ResumeShown == (rendering = "save" /\ resumes # None) => shown = resumes

(* What a navigation left for the next section is spent on it and moves no      *)
(* later one: "Cleared on the next render after the new section loads"          *)
(* (EpubReaderActivity.h:17).                                                  *)
PendingSpent ==
  (rendering \in {"draw", "save"} /\ section.count > 0) =>
    /\ pendingLast = None /\ ~pendingAnchor /\ pendingPercent = None
    /\ cachedChapterTotalPageCount = 0

(* A book that crashed when the boot opened it is not opened by the next boot,  *)
(* until a book has been left in order; and only such a book is refused, no     *)
(* other crash or sleep costs the user the resumption (main.cpp:365).          *)
BootLoopBroken == (byBoot => ~bootCrash) /\ (where = "off" /\ loadCount > 0 => bootCrash)

(* The counter readerActivityLoadCount keeps the promise of CrashGuard: it is    *)
(* above zero exactly while the boot's book is open or has crashed, whatever    *)
(* sleeps, crashes and books of the user's come in between (main.cpp:365).      *)
Guard == INSTANCE CrashGuard WITH attempting <- byBoot, failed <- (loadCount > 0 /\ ~byBoot)
BootGuard == Guard!Spec

(* At rest, the page on the screen is the section's current page and the saved  *)
(* one, whatever was pressed while earlier pages were drawn and saved.          *)
ScreenIsSaved ==
  []<>(\/ ~handsOff \/ where # "reader" \/ shown = None \/ section = None
       \/ /\ shown = Place(section.spine, section.page)
          /\ progress # None /\ shown = Place(progress.spine, progress.page))

(* A page turn leaves a chapter from its last page, or back from its first:     *)
(* "Next Page: Press Right or Volume Down" (USER_GUIDE.md:376).                *)
TurnFromEdge ==
  [][(crossing # "no" /\ crossing' = "no" /\ where' = "reader" /\ section # None /\ section.count > 0)
       => section.page = IF crossing = "next" THEN section.count - 1 ELSE 0]_vars
=============================================================================
