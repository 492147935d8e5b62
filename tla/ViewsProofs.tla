----------------------------- MODULE ViewsProofs -----------------------------
(***************************************************************************)
(* Invariants of the views, each kept by the steps of its own protocol for *)
(* any number of users, rows, events, toggles and files.                   *)
(***************************************************************************)
EXTENDS Views, FiniteSetTheorems, TLAPS

\* A recognition of the last pick is of the image in the dialog, if any. While
\* no picks were crossed, one is read at most, and only with the dialog closed.
PosterInv ==
  /\ PosterTypeOK
  /\ \A r \in recognizing : r.seq <= pickSeq
  /\ \A r \in recognizing : r.seq = pickSeq => pending \in {r.pick, NoPick}
  /\ auto # NoPick => pending \in {auto, NoPick}
  /\ ~crossed => /\ \A p, q \in reading : p = q
                 /\ reading # {} => pending = NoPick
                 /\ cropping \in {NoPick, pending}
                 /\ pending # NoPick => position \in {NoPick, pending}
                 /\ upload # NoUpload => upload.files.file = upload.files.thumbnail
                 /\ poster.file = poster.thumbnail

LEMMA PosterStarts == PosterInit => PosterInv
<1> SUFFICES ASSUME PosterInit
             PROVE  PosterInv
  OBVIOUS
<1>1. PosterTypeOK
  BY DEF PosterInit, PosterTypeOK, Image, Files, NoFiles
<1>2. poster.file = poster.thumbnail
  BY DEF PosterInit, NoFiles
<1> QED BY <1>1, <1>2 DEF PosterInit, PosterInv

LEMMA PosterStepKeeps ==
  ASSUME PosterInv, PosterNext
  PROVE  PosterInv'
<1> USE PosterAssumption DEF PosterInv, PosterTypeOK, Image, Files
<1>1. ASSUME NEW p \in Pick, ChoosePoster(p) PROVE PosterInv'
  BY <1>1 DEF ChoosePoster
<1>2. ASSUME NEW p \in Pick, PosterRead(p) PROVE PosterInv'
  <2> DEFINE q == [pick |-> p, seq |-> pickSeq']
  <2>1. q \in [pick : Pick, seq : Nat] /\ q.pick = p /\ q.seq = pickSeq' /\ pickSeq' = pickSeq + 1
    BY <1>2 DEF PosterRead
  <2>2. recognizing' = recognizing \cup {q} /\ pending' = p
    BY <1>2 DEF PosterRead
  <2> HIDE DEF q
  <2>3. /\ recognizing' \subseteq [pick : Pick, seq : Nat]
        /\ \A r \in recognizing' : r.seq <= pickSeq'
        /\ \A r \in recognizing' : r.seq = pickSeq' => pending' = r.pick
    BY <2>1, <2>2
  <2> QED BY <1>2, <2>1, <2>2, <2>3 DEF PosterRead
<1>3. ASSUME NEW p \in Pick, ReadFailed(p) PROVE PosterInv'
  BY <1>3 DEF ReadFailed
<1>4. ASSUME NEW r \in recognizing, Recognized(r) PROVE PosterInv'
  BY <1>4 DEF Recognized, IsLast
<1>5. CASE Drag
  BY <1>5 DEF Drag
<1>6. CASE CancelPosterCrop
  BY <1>6 DEF CancelPosterCrop, CloseDialog
<1>7. CASE ConfirmCrop \/ CropFailed
  BY <1>7 DEF ConfirmCrop, CropFailed
<1>8. CASE ConfirmPosterCrop
  <2>1. upload' = NoUpload \/ upload' \in Upload
    BY <1>8 DEF ConfirmPosterCrop, Upload, Part
  <2>2. ~crossed /\ upload' # NoUpload => upload'.files.file = upload'.files.thumbnail
    BY <1>8 DEF ConfirmPosterCrop
  <2> QED BY <1>8, <2>1, <2>2 DEF ConfirmPosterCrop, CloseDialog
<1>9. ASSUME NEW part \in Part, UploadPart(part) PROVE PosterInv'
  <2>1. upload \in Upload
    BY <1>9 DEF UploadPart
  <2>2. upload' = NoUpload \/ (upload' \in Upload /\ upload'.files = upload.files)
    <3>1. upload.done \cup {part} \subseteq Part
      BY <2>1 DEF Upload
    <3>2. upload.step # "finalize" => After[upload.step] \in {"put", "finalize"}
      BY <2>1 DEF Upload, After
    <3> QED BY <1>9, <2>1, <3>1, <3>2 DEF UploadPart, Upload
  <2>3. poster' \in {poster, upload.files} /\ poster' \in Files
    BY <1>9, <2>1 DEF UploadPart, Upload
  <2> QED BY <1>9, <2>1, <2>2, <2>3 DEF UploadPart
<1>10. CASE UploadFailed
  BY <1>10 DEF UploadFailed
<1> QED BY <1>1, <1>2, <1>3, <1>4, <1>5, <1>6, <1>7, <1>8, <1>9, <1>10 DEF PosterNext

LEMMA PosterSafe == PosterInv => PosterFits
BY DEF PosterInv, PosterFits

-----------------------------------------------------------------------------
InToggle(c) == call[c].op \in {"mutate", "guess", "send", "success", "error", "settle"}

\* Every toggle ends with a fetch of its own, so a list that no toggle works on
\* is the one of the server or is known not to be.
BookmarksInv ==
  /\ saved \subseteq Contest /\ list \subseteq Contest
  /\ stale \in BOOLEAN /\ ok \in BOOLEAN
  /\ fetch = NoFetch \/ fetch \in Fetch
  /\ call \in [Slot -> {Idle} \cup ToggleCall]
  /\ (\A c \in Slot : ~InToggle(c)) =>
       /\ fetch = NoFetch /\ ok /\ ~stale => list = saved
       /\ fetch.phase = "read" => fetch.answer = saved

BookmarksRest == list = saved /\ saved = {} /\ fetch = NoFetch

LEMMA ToggleFields ==
  /\ Idle \notin ToggleCall /\ Idle.op = "idle"
  /\ \A r \in ToggleCall : /\ r.op \in {"mutate", "guess", "send", "success", "error", "settle"}
                           /\ r.id \in Contest /\ r.bookmarked \in BOOLEAN
  /\ \A r \in ToggleCall : r.op \in {"send", "success", "error", "settle"} => r.previous \subseteq Contest
BY DEF ToggleCall, Idle

\* A toggle that goes on stays one.
LEMMA ToggleGoesOn ==
  ASSUME call \in [Slot -> {Idle} \cup ToggleCall], NEW c \in Slot, NEW r \in ToggleCall, Continue(c, r)
  PROVE  call' \in [Slot -> {Idle} \cup ToggleCall] /\ InToggle(c)'
BY ToggleFields DEF Continue, InToggle

LEMMA ToggleAdvances ==
  ASSUME NEW r \in ToggleCall
  PROVE  /\ r.op = "mutate" => [r EXCEPT !.op = "guess"] \in ToggleCall
         /\ r.op \in {"send", "success", "error", "settle"} =>
              \A op \in {"send", "success", "error", "settle"} : [r EXCEPT !.op = op] \in ToggleCall
         /\ r.op = "guess" => \A previous \in SUBSET Contest :
              [op |-> "send", id |-> r.id, bookmarked |-> r.bookmarked, previous |-> previous] \in ToggleCall
BY DEF ToggleCall

LEMMA BookmarksStepKeeps ==
  ASSUME BookmarksInv, BookmarksNext
  PROVE  BookmarksInv'
<1> DEFINE Types == /\ saved \subseteq Contest /\ list \subseteq Contest
                    /\ stale \in BOOLEAN /\ ok \in BOOLEAN
                    /\ fetch = NoFetch \/ fetch \in Fetch
<1>0. Types /\ call \in [Slot -> {Idle} \cup ToggleCall]
  BY DEF BookmarksInv
<1>1. CASE Refetch
  <2>1. Types'
    BY <1>0, <1>1 DEF Refetch, StartFetch, Fetch
  <2>2. fetch'.phase = "asked" /\ fetch' # NoFetch
    BY <1>1 DEF Refetch, StartFetch, NoFetch
  <2> QED BY <1>0, <1>1, <2>1, <2>2 DEF BookmarksInv, Refetch
<1>2. CASE ReadBookmarks
  <2>1. fetch \in Fetch
    BY <1>0, <1>2 DEF ReadBookmarks, NoFetch
  <2>2. Types' /\ fetch'.answer = saved' /\ fetch' # NoFetch
    BY <1>0, <1>2, <2>1 DEF ReadBookmarks, Fetch, NoFetch
  <2> QED BY <1>0, <1>2, <2>2 DEF BookmarksInv, ReadBookmarks
<1>3. CASE FetchAnswered
  <2>1. fetch \in Fetch
    BY <1>0, <1>3 DEF FetchAnswered, NoFetch
  <2>2. Types' /\ fetch'.phase # "read"
    BY <1>0, <1>3, <2>1 DEF FetchAnswered, Fetch, NoFetch
  <2>3. (\A c \in Slot : ~InToggle(c))' => list' = saved'
    BY <1>3 DEF FetchAnswered, BookmarksInv, InToggle
  <2> QED BY <1>0, <1>3, <2>2, <2>3 DEF BookmarksInv, FetchAnswered
<1>4. CASE FetchFailed
  <2>1. Types' /\ fetch'.phase # "read" /\ stale'
    BY <1>0, <1>4 DEF FetchFailed, NoFetch
  <2> QED BY <1>0, <1>4, <2>1 DEF BookmarksInv, FetchFailed
<1>5. ASSUME NEW c \in Slot, NEW id \in Contest, Click(c, id) PROVE BookmarksInv'
  <2>1. [op |-> "mutate", id |-> id, bookmarked |-> id \notin list] \in ToggleCall
    BY DEF ToggleCall
  <2>2. call' \in [Slot -> {Idle} \cup ToggleCall] /\ InToggle(c)'
    BY <1>0, <1>5, <2>1, ToggleFields DEF Click, Begin, InToggle
  <2>3. Types'
    BY <1>0, <1>5 DEF Click, bookmarkVars
  <2> QED BY <2>2, <2>3 DEF BookmarksInv
<1>6. ASSUME NEW c \in Slot,
             CancelQueries(c) \/ ShowGuess(c) \/ SaveBookmark(c) \/ RefuseToggle(c) \/ OnSuccess(c) \/ OnError(c)
      PROVE  BookmarksInv'
  <2>1. call[c] \in ToggleCall
    BY <1>0, <1>6, ToggleFields
       DEF CancelQueries, ShowGuess, SaveBookmark, RefuseToggle, OnSuccess, OnError
  <2>2. \E r \in ToggleCall : Continue(c, r)
    <3>1. CASE CancelQueries(c)
      BY <2>1, <3>1, ToggleAdvances DEF CancelQueries
    <3>2. CASE ShowGuess(c)
      BY <1>0, <2>1, <3>2, ToggleAdvances DEF ShowGuess
    <3>3. CASE SaveBookmark(c) \/ RefuseToggle(c) \/ OnSuccess(c) \/ OnError(c)
      BY <2>1, <3>3, ToggleAdvances DEF SaveBookmark, RefuseToggle, OnSuccess, OnError
    <3> QED BY <1>6, <3>1, <3>2, <3>3
  <2>3. Types'
    <3>1. CASE CancelQueries(c)
      BY <1>0, <3>1 DEF CancelQueries, Fetch
    <3>2. ASSUME NEW data \in SUBSET Contest, SetQueryData(data), UNCHANGED saved PROVE Types'
      BY <1>0, <3>2 DEF SetQueryData, Fetch
    <3>3. CASE ShowGuess(c)
      <4>1. Toggled(list, call[c].id, call[c].bookmarked) \subseteq Contest
        BY <1>0, <2>1, ToggleFields DEF Toggled
      <4> QED BY <3>2, <3>3, <4>1 DEF ShowGuess
    <3>4. CASE OnError(c)
      BY <2>1, <3>2, <3>4, ToggleFields DEF OnError
    <3>5. CASE SaveBookmark(c)
      BY <1>0, <2>1, <3>5, ToggleFields DEF SaveBookmark, Toggled
    <3>6. CASE RefuseToggle(c) \/ OnSuccess(c)
      BY <1>0, <3>6 DEF RefuseToggle, OnSuccess, bookmarkVars
    <3> QED BY <1>6, <3>1, <3>3, <3>4, <3>5, <3>6
  <2> QED BY <1>0, <2>2, <2>3, ToggleGoesOn DEF BookmarksInv
<1>7. ASSUME NEW c \in Slot, OnSettled(c) PROVE BookmarksInv'
  <2>1. call' \in [Slot -> {Idle} \cup ToggleCall]
    BY <1>0, <1>7 DEF OnSettled, Return, Continue
  <2>2. Types'
    BY <1>0, <1>7 DEF OnSettled, StartFetch, Fetch
  <2>3. fetch'.phase = "asked" /\ fetch' # NoFetch
    BY <1>7 DEF OnSettled, StartFetch, NoFetch
  <2> QED BY <2>1, <2>2, <2>3 DEF BookmarksInv
<1> QED BY <1>1, <1>2, <1>3, <1>4, <1>5, <1>6, <1>7 DEF BookmarksNext

LEMMA BookmarksSafe == BookmarksInv \/ BookmarksRest => ListSettles
BY DEF BookmarksInv, BookmarksRest, ListSettles, InToggle
-----------------------------------------------------------------------------
\* A steady row has been on a page exactly when it is not behind the cursor.
ListInv ==
  /\ sort \in Sort
  /\ value \in [Row -> Nat] /\ micro \in [Row -> Nat]
  /\ sort # "latest" => \A r \in Row : micro[r] = 0
  /\ steady \subseteq listed /\ listed \subseteq Row /\ blurred \subseteq Row
  /\ cursor.value \in Nat /\ cursor.id \in Nat
  /\ page \in {"first", "next", "done"}
  /\ shown \in [Row -> Nat]
  /\ page = "first" => \A r \in steady : shown[r] = 0
  /\ page = "next" => \A r \in steady :
       /\ shown[r] <= 1
       /\ KeysetCondition(r) => shown[r] = 0
       /\ KeysetCondition(r) \/ r \in blurred \/ shown[r] = 1
  /\ page = "done" => \A r \in steady : shown[r] <= 1 /\ (r \in blurred \/ shown[r] = 1)

LEMMA ListingStarts == ListingInit => ListInv
BY ListingAssumption DEF ListingInit, ListInv, Sort

\* What follows the last row of a page followed the cursor before it.
LEMMA CursorAdvances ==
  ASSUME ListInv, NEW last \in Row, page = "next" => KeysetCondition(last),
         cursor' = [value |-> value[last], id |-> last],
         UNCHANGED <<sort, value, micro>>
  PROVE  /\ ~KeysetCondition(last)'
         /\ \A r \in Row : ComesBefore(r, last) => ~KeysetCondition(r)'
         /\ \A r \in Row : page = "next" /\ KeysetCondition(r)' => KeysetCondition(r)
         /\ \A r \in Row : ComesBefore(last, r) => KeysetCondition(r)' \/ r \in SameMillisecond(last)
<1> USE ListingAssumption
    DEF ListInv, KeysetCondition, Precedes, Earlier, ComesBefore, SameMillisecond, Sort
<1>1. cursor'.value = value[last] /\ cursor'.id = last
  OBVIOUS
<1>2. ~KeysetCondition(last)'
  BY <1>1
<1>3. \A r \in Row : ComesBefore(r, last) => ~KeysetCondition(r)'
  BY <1>1
<1>4. \A r \in Row : page = "next" /\ KeysetCondition(r)' => KeysetCondition(r)
  BY <1>1
<1>5. \A r \in Row : ComesBefore(last, r) => KeysetCondition(r)' \/ r \in SameMillisecond(last)
  BY <1>1
<1> QED BY <1>2, <1>3, <1>4, <1>5

LEMMA ListingStepKeeps ==
  ASSUME ListInv, ListingNext
  PROVE  ListInv'
<1>1. CASE ListPage
  <2>1. PICK items \in SUBSET Remaining :
          /\ \A r \in items, s \in Remaining \ items : ComesBefore(r, s)
          /\ shown' = [r \in Row |-> IF r \in items THEN shown[r] + 1 ELSE shown[r]]
          /\ \/ /\ items = Remaining
                /\ page' = "done"
                /\ UNCHANGED <<cursor, blurred>>
             \/ /\ page' = "next"
                /\ \E last \in items :
                     /\ \A r \in items \ {last} : ComesBefore(r, last)
                     /\ cursor' = [value |-> value[last], id |-> last]
                     /\ blurred' = blurred \cup SameMillisecond(last)
    BY <1>1 DEF ListPage
  <2>2. UNCHANGED <<sort, value, micro, listed, steady>> /\ page \in {"first", "next"}
    BY <1>1 DEF ListPage, ListInv
  <2>3. /\ items \subseteq Row /\ shown' \in [Row -> Nat]
        /\ \A r \in steady : r \in Remaining => shown[r] = 0
        /\ \A r \in steady : r \notin Remaining =>
             page = "next" /\ ~KeysetCondition(r) /\ shown[r] <= 1 /\ (r \in blurred \/ shown[r] = 1)
    BY <2>1, <2>2 DEF ListInv, Remaining
  <2>4. \A r \in steady : /\ r \in items => shown'[r] = 1
                          /\ r \notin items => shown'[r] = shown[r]
    BY <2>1, <2>3 DEF ListInv
  <2>5. CASE items = Remaining /\ page' = "done" /\ UNCHANGED <<cursor, blurred>>
    BY <2>2, <2>3, <2>4, <2>5 DEF ListInv
  <2>6. ASSUME page' = "next", NEW last \in items,
               \A r \in items \ {last} : ComesBefore(r, last),
               cursor' = [value |-> value[last], id |-> last],
               blurred' = blurred \cup SameMillisecond(last)
        PROVE  ListInv'
    <3>1. last \in Row /\ (page = "next" => KeysetCondition(last))
      BY <2>1, <2>3, <2>6 DEF Remaining
    <3>2. /\ ~KeysetCondition(last)'
          /\ \A r \in Row : ComesBefore(r, last) => ~KeysetCondition(r)'
          /\ \A r \in Row : page = "next" /\ KeysetCondition(r)' => KeysetCondition(r)
          /\ \A r \in Row : ComesBefore(last, r) => KeysetCondition(r)' \/ r \in SameMillisecond(last)
      BY <2>2, <2>6, <3>1, CursorAdvances
    <3>3. \A r \in items : ~KeysetCondition(r)'
      BY <2>3, <2>6, <3>2
    <3>4. \A r \in Remaining \ items : KeysetCondition(r)' \/ r \in blurred'
      BY <2>1, <2>6, <3>2 DEF Remaining, ListInv
    <3>5. \A r \in steady : /\ shown'[r] <= 1
                            /\ KeysetCondition(r)' => shown'[r] = 0
                            /\ KeysetCondition(r)' \/ r \in blurred' \/ shown'[r] = 1
      <4>1. ASSUME NEW r \in steady, r \in items
            PROVE  shown'[r] = 1 /\ ~KeysetCondition(r)'
        BY <2>4, <3>3, <4>1
      <4>2. ASSUME NEW r \in steady, r \in Remaining \ items
            PROVE  shown'[r] = 0 /\ (KeysetCondition(r)' \/ r \in blurred')
        BY <2>3, <2>4, <3>4, <4>2
      <4>3. ASSUME NEW r \in steady, r \notin Remaining
            PROVE  shown'[r] <= 1 /\ ~KeysetCondition(r)' /\ (r \in blurred' \/ shown'[r] = 1)
        BY <2>1, <2>3, <2>4, <2>6, <3>2, <4>3 DEF ListInv
      <4> QED BY <4>1, <4>2, <4>3
    <3>6. cursor'.value \in Nat /\ cursor'.id \in Nat /\ blurred' \subseteq Row
      BY <2>6, <3>1, ListingAssumption DEF ListInv, SameMillisecond
    <3> HIDE DEF ListInv
    <3> QED BY <2>2, <2>3, <2>6, <3>5, <3>6 DEF ListInv
  <2> QED BY <2>1, <2>5, <2>6
<1>2. ASSUME NEW r \in Row, Relist(r) PROVE ListInv'
  BY <1>2 DEF Relist, Edit, ListInv, KeysetCondition, Precedes, Earlier
<1>3. ASSUME NEW r \in Row, Revalue(r) PROVE ListInv'
  BY <1>3, ListingAssumption DEF Revalue, Edit, ListInv, KeysetCondition, Precedes, Earlier
<1> QED BY <1>1, <1>2, <1>3 DEF ListingNext

LEMMA ListingSafe == ListInv => PagesComplete
BY DEF ListInv, PagesComplete
-----------------------------------------------------------------------------
\* The window began with event WindowStart, and at least a window's time after
\* every event that is more than a limit before that one.
WindowStart == Len(admittedEvents) - window.count + 1

Event == [id : EventId \cup {NoId}, at : Nat]

EventsInv ==
  /\ call \in [Slot -> {Idle} \cup EventCall]
  /\ time \in Nat \ {0}
  /\ recentEventIds \in [EventId -> Nat]
  /\ window = NoWindow \/ window \in [startedAt : Nat \ {0}, count : 1..MaxPerWindow]
  /\ admittedEvents \in Seq(Event)
  /\ \A i \in 1..Len(admittedEvents) :
       /\ admittedEvents[i].at <= time
       /\ \A j \in i..Len(admittedEvents) : admittedEvents[i].at <= admittedEvents[j].at
       /\ admittedEvents[i].id = NoId
            \/ admittedEvents[i].at + EventWindow <= time
            \/ admittedEvents[i].at + EventWindow <= recentEventIds[admittedEvents[i].id]
  /\ window = NoWindow => admittedEvents = <<>>
  /\ window # NoWindow =>
       /\ window.count <= Len(admittedEvents)
       /\ admittedEvents[WindowStart].at = window.startedAt
       /\ \A i \in 1..Len(admittedEvents) : i + MaxPerWindow <= WindowStart =>
            admittedEvents[i].at + EventWindow <= window.startedAt
  /\ EventsCountedOnce

EventsRest == admittedEvents = <<>>

LEMMA EventFields ==
  /\ Idle \notin EventCall /\ Idle.op = "idle"
  /\ \A r \in EventCall : r.op \in {"judge", "count"} /\ (r.op = "judge" => r.id \in EventId \cup {NoId})
  /\ [op |-> "count"] \in EventCall
  /\ \A id \in EventId \cup {NoId} : [op |-> "judge", id |-> id] \in EventCall
BY DEF EventCall, Idle

\* An event that is let through.
LEMMA EventAdmitted ==
  ASSUME EventsInv,
         NEW id \in EventId \cup {NoId}, ~Remembered(id),
         Fresh \/ window.count < MaxPerWindow,
         window' = IF Fresh THEN [startedAt |-> time, count |-> 1] ELSE [window EXCEPT !.count = @ + 1],
         admittedEvents' = Append(admittedEvents, [id |-> id, at |-> time]),
         recentEventIds' \in [EventId -> Nat],
         \A i \in EventId : i # id /\ Remembered(i) => recentEventIds'[i] = recentEventIds[i],
         id # NoId => recentEventIds'[id] = time + EventWindow,
         time' = time, call' \in [Slot -> {Idle} \cup EventCall]
  PROVE  EventsInv'
<1> USE AdEventsAssumption
<1> DEFINE e == admittedEvents
           f == admittedEvents'
           n == Len(admittedEvents)
           new == [id |-> id, at |-> time]
<1>1. /\ n \in Nat /\ time \in Nat /\ time > 0 /\ EventWindow \in Nat /\ EventWindow > 0
      /\ MaxPerWindow \in Nat /\ MaxPerWindow > 0
  BY DEF EventsInv
<1>2. new \in Event /\ new.id = id /\ new.at = time
  BY <1>1 DEF Event
<1>3. f \in Seq(Event) /\ Len(f) = n + 1 /\ f[n + 1] = new /\ \A i \in 1..n : f[i] = e[i]
  BY <1>2 DEF EventsInv
<1>4. \A i \in 1..n : e[i] \in Event /\ e[i].at \in Nat
  <2>1. \A i \in 1..n : e[i] \in Event
    BY <1>1 DEF EventsInv
  <2> QED BY <2>1 DEF Event
<1>5. ASSUME NEW i \in 1..n, e[i].id # NoId
      PROVE  /\ e[i].id \in EventId
             /\ e[i].id = id => e[i].at + EventWindow <= time
             /\ e[i].at + EventWindow <= time \/ e[i].at + EventWindow <= recentEventIds'[e[i].id]
  <2>1. e[i].id \in EventId
    BY <1>4, <1>5 DEF Event
  <2>2. e[i].at + EventWindow <= time \/ e[i].at + EventWindow <= recentEventIds[e[i].id]
    BY <1>5 DEF EventsInv
  <2>3. recentEventIds[e[i].id] \in Nat
    BY <2>1 DEF EventsInv
  <2>4. e[i].at \in Nat
    BY <1>4
  <2>5. CASE e[i].id = id
    <3>1. recentEventIds[id] <= time
      BY <1>1, <1>5, <2>1, <2>3, <2>5 DEF Remembered
    <3>2. e[i].at + EventWindow <= time
      BY <1>1, <2>2, <2>3, <2>4, <2>5, <3>1
    <3> QED BY <2>1, <3>2
  <2>6. CASE e[i].id # id
    <3>1. CASE Remembered(e[i].id)
      BY <2>1, <2>2, <2>6, <3>1
    <3>2. CASE ~Remembered(e[i].id)
      <4>1. recentEventIds[e[i].id] <= time
        BY <1>1, <1>5, <2>1, <2>3, <3>2 DEF Remembered
      <4> QED BY <1>1, <2>1, <2>2, <2>3, <2>4, <2>6, <4>1
    <3> QED BY <3>1, <3>2
  <2> QED BY <2>5, <2>6
<1>6. \A i \in 1..(n + 1) :
        /\ f[i].at <= time
        /\ \A j \in i..(n + 1) : f[i].at <= f[j].at
        /\ f[i].id = NoId
             \/ f[i].at + EventWindow <= time
             \/ f[i].at + EventWindow <= recentEventIds'[f[i].id]
  <2>1. \A i \in 1..n : e[i].at <= time /\ \A j \in i..n : e[i].at <= e[j].at
    BY DEF EventsInv
  <2>2. ASSUME NEW i \in 1..n
        PROVE  f[i].at <= time /\ \A j \in i..(n + 1) : f[i].at <= f[j].at
    BY <1>1, <1>2, <1>3, <1>4, <2>1
  <2>3. f[n + 1].at <= time /\ \A j \in (n + 1)..(n + 1) : f[n + 1].at <= f[j].at
    BY <1>1, <1>2, <1>3
  <2>4. \A i \in 1..n : \/ f[i].id = NoId
                        \/ f[i].at + EventWindow <= time
                        \/ f[i].at + EventWindow <= recentEventIds'[f[i].id]
    BY <1>3, <1>5
  <2>5. f[n + 1].id = NoId \/ f[n + 1].at + EventWindow <= recentEventIds'[f[n + 1].id]
    BY <1>1, <1>2, <1>3
  <2> QED BY <1>1, <2>2, <2>3, <2>4, <2>5
<1>7. \A i, j \in 1..(n + 1) : i < j /\ f[i].id = f[j].id /\ f[i].id # NoId => f[i].at + EventWindow <= f[j].at
  <2>1. \A i, j \in 1..n : i < j /\ e[i].id = e[j].id /\ e[i].id # NoId => e[i].at + EventWindow <= e[j].at
    BY DEF EventsInv, EventsCountedOnce
  <2>2. \A i \in 1..n : f[i].id = f[n + 1].id /\ f[i].id # NoId => f[i].at + EventWindow <= f[n + 1].at
    BY <1>1, <1>2, <1>3, <1>5
  <2> QED BY <1>1, <1>3, <2>1, <2>2
<1> DEFINE s == WindowStart
<1>8. window # NoWindow => /\ window.count \in 1..MaxPerWindow /\ window.count <= n
                           /\ window.startedAt \in Nat /\ window.startedAt > 0
                           /\ s \in 1..n /\ s = n - window.count + 1
                           /\ e[s].at = window.startedAt
                           /\ \A i \in 1..n : i <= s => e[i].at <= window.startedAt
                           /\ \A i \in 1..n : i + MaxPerWindow <= s => e[i].at + EventWindow <= window.startedAt
                           /\ window.startedAt <= time
  <2> SUFFICES ASSUME window # NoWindow
               PROVE  /\ window.count \in 1..MaxPerWindow /\ window.count <= n
                      /\ window.startedAt \in Nat /\ window.startedAt > 0
                      /\ s \in 1..n /\ s = n - window.count + 1
                      /\ e[s].at = window.startedAt
                      /\ \A i \in 1..n : i <= s => e[i].at <= window.startedAt
                      /\ \A i \in 1..n : i + MaxPerWindow <= s => e[i].at + EventWindow <= window.startedAt
                      /\ window.startedAt <= time
    OBVIOUS
  <2>1. /\ window.count \in 1..MaxPerWindow /\ window.count <= n
        /\ window.startedAt \in Nat /\ window.startedAt > 0
    BY DEF EventsInv
  <2>2. s \in 1..n /\ s = n - window.count + 1
    BY <1>1, <2>1 DEF WindowStart
  <2>3. /\ e[s].at = window.startedAt
        /\ \A i \in 1..n : i + MaxPerWindow <= s => e[i].at + EventWindow <= window.startedAt
    BY DEF EventsInv
  <2>4. \A i \in 1..n : i <= s => e[i].at <= e[s].at
    BY <1>1, <2>2 DEF EventsInv
  <2>5. e[s].at <= time
    BY <2>2 DEF EventsInv
  <2> QED BY <2>1, <2>2, <2>3, <2>4, <2>5
<1>9. window = NoWindow => n = 0
  BY DEF EventsInv
<1>10. ASSUME \A i \in 1..n : i + 2 * MaxPerWindow = n + 1 => f[i].at + EventWindow <= f[n + 1].at
       PROVE  \A i \in 1..(n + 1) : i + 2 * MaxPerWindow <= n + 1 =>
                f[i].at + EventWindow <= f[i + 2 * MaxPerWindow].at
  <2> SUFFICES ASSUME NEW i \in 1..(n + 1), i + 2 * MaxPerWindow <= n + 1
               PROVE  f[i].at + EventWindow <= f[i + 2 * MaxPerWindow].at
    OBVIOUS
  <2> DEFINE j == i + 2 * MaxPerWindow
  <2>1. i \in 1..n /\ (j = n + 1 \/ j \in 1..n)
    BY <1>1
  <2>2. CASE j = n + 1
    BY <1>10, <2>1, <2>2
  <2>3. CASE j \in 1..n
    <3>1. j <= n
      BY <1>1, <2>3
    <3>2. e[i].at + EventWindow <= e[j].at
      BY <2>1, <3>1 DEF EventsInv, EventsCountedOnce
    <3>3. f[i] = e[i] /\ f[j] = e[j]
      BY <1>3, <2>1, <2>3
    <3> QED BY <3>2, <3>3
  <2> QED BY <2>1, <2>2, <2>3
<1>11. CASE Fresh
  <2>1. window' = [startedAt |-> time, count |-> 1] /\ window' # NoWindow
    BY <1>1, <1>11 DEF NoWindow
  <2>2. WindowStart' = n + 1
    BY <1>1, <1>3, <2>1 DEF WindowStart
  <2>3. ASSUME NEW i \in 1..n, i + MaxPerWindow <= n + 1
        PROVE  f[i].at + EventWindow <= time
    <3>1. window # NoWindow
      BY <1>1, <1>9, <2>3
    <3>2. window.startedAt + EventWindow <= time
      BY <1>1, <1>8, <1>11, <3>1 DEF Fresh
    <3>3. i <= s
      BY <1>1, <1>8, <2>3, <3>1
    <3>4. e[i].at <= window.startedAt
      BY <1>8, <2>3, <3>1, <3>3
    <3> QED BY <1>1, <1>3, <1>4, <1>8, <2>3, <3>1, <3>2, <3>4
  <2>4. \A i \in 1..(n + 1) : i + MaxPerWindow <= n + 1 => f[i].at + EventWindow <= time
    BY <1>1, <2>3
  <2>5. \A i \in 1..(n + 1) : i + 2 * MaxPerWindow <= n + 1 => f[i].at + EventWindow <= f[i + 2 * MaxPerWindow].at
    <3>1. ASSUME NEW i \in 1..n, i + 2 * MaxPerWindow = n + 1
          PROVE  f[i].at + EventWindow <= f[n + 1].at
      <4>1. f[i].at + EventWindow <= time
        BY <1>1, <2>3, <3>1
      <4> QED BY <1>2, <1>3, <4>1
    <3> QED BY <1>10, <3>1
  <2>6. EventsCountedOnce'
    BY <1>3, <1>7, <2>5 DEF EventsCountedOnce
  <2>7. window' \in [startedAt : Nat \ {0}, count : 1..MaxPerWindow] /\ window'.count <= n + 1
        /\ f[n + 1].at = window'.startedAt
    BY <1>1, <1>2, <1>3, <2>1
  <2>8. \A i \in 1..(n + 1) : i + MaxPerWindow <= n + 1 => f[i].at + EventWindow <= window'.startedAt
    BY <2>1, <2>4
  <2> QED BY <1>1, <1>3, <1>6, <2>1, <2>2, <2>6, <2>7, <2>8 DEF EventsInv
<1>12. CASE ~Fresh
  <2>0. window # NoWindow /\ window.count < MaxPerWindow
    BY <1>12 DEF Fresh
  <2>1. /\ window' \in [startedAt : Nat \ {0}, count : 1..MaxPerWindow]
        /\ window'.startedAt = window.startedAt /\ window'.count = window.count + 1 /\ window' # NoWindow
    <3>1. window \in [startedAt : Nat \ {0}, count : 1..MaxPerWindow]
      BY <2>0 DEF EventsInv
    <3>2. window' = [window EXCEPT !.count = @ + 1]
      BY <1>12
    <3> QED BY <1>1, <2>0, <3>1, <3>2 DEF NoWindow
  <2>2. WindowStart' = s
    BY <1>1, <1>3, <1>8, <2>0, <2>1 DEF WindowStart
  <2>3. \A i \in 1..(n + 1) : i + MaxPerWindow <= s => f[i].at + EventWindow <= window'.startedAt
    BY <1>1, <1>3, <1>8, <2>0, <2>1
  <2>4. \A i \in 1..(n + 1) : i + 2 * MaxPerWindow <= n + 1 => f[i].at + EventWindow <= f[i + 2 * MaxPerWindow].at
    <3>1. ASSUME NEW i \in 1..n, i + 2 * MaxPerWindow = n + 1
          PROVE  f[i].at + EventWindow <= f[n + 1].at
      <4>1. i + MaxPerWindow <= s
        BY <1>1, <1>8, <2>0, <3>1
      <4>2. e[i].at + EventWindow <= window.startedAt
        BY <1>8, <2>0, <3>1, <4>1
      <4>3. window.startedAt \in Nat /\ window.startedAt <= time
        BY <1>8, <2>0
      <4>4. f[i].at = e[i].at /\ e[i].at \in Nat /\ f[n + 1].at = time
        BY <1>2, <1>3, <1>4, <3>1
      <4> QED BY <1>1, <4>2, <4>3, <4>4
    <3> QED BY <1>10, <3>1
  <2>5. EventsCountedOnce'
    BY <1>3, <1>7, <2>4 DEF EventsCountedOnce
  <2>6. f[s].at = window'.startedAt /\ window'.count <= n + 1
    BY <1>1, <1>3, <1>8, <2>0, <2>1
  <2> QED BY <1>1, <1>3, <1>6, <2>1, <2>2, <2>3, <2>5, <2>6 DEF EventsInv
<1> QED BY <1>11, <1>12

\* What is remembered longer, or with less time passed, stays so.
LEMMA EventsStay ==
  ASSUME EventsInv, UNCHANGED <<window, admittedEvents>>,
         time' \in Nat, time <= time', recentEventIds' \in [EventId -> Nat],
         \A i \in EventId : recentEventIds'[i] >= recentEventIds[i] \/ recentEventIds[i] <= time,
         call' \in [Slot -> {Idle} \cup EventCall]
  PROVE  EventsInv'
<1> USE AdEventsAssumption
<1>1. ASSUME NEW i \in 1..Len(admittedEvents)
      PROVE  /\ admittedEvents[i].at <= time'
             /\ admittedEvents[i].id = NoId
                  \/ admittedEvents[i].at + EventWindow <= time'
                  \/ admittedEvents[i].at + EventWindow <= recentEventIds'[admittedEvents[i].id]
  <2>1. admittedEvents[i] \in Event
    BY <1>1 DEF EventsInv
  <2>2. admittedEvents[i].at \in Nat /\ admittedEvents[i].id \in EventId \cup {NoId}
    BY <2>1 DEF Event
  <2>3. /\ admittedEvents[i].at <= time
        /\ admittedEvents[i].id = NoId
             \/ admittedEvents[i].at + EventWindow <= time
             \/ admittedEvents[i].at + EventWindow <= recentEventIds[admittedEvents[i].id]
    BY <1>1 DEF EventsInv
  <2>4. time \in Nat /\ EventWindow \in Nat
    BY DEF EventsInv
  <2>5. ASSUME admittedEvents[i].id # NoId, admittedEvents[i].at + EventWindow > time
        PROVE  admittedEvents[i].at + EventWindow <= recentEventIds'[admittedEvents[i].id]
    <3>1. admittedEvents[i].id \in EventId
      BY <2>2, <2>5
    <3>2. recentEventIds[admittedEvents[i].id] \in Nat /\ recentEventIds'[admittedEvents[i].id] \in Nat
      BY <3>1 DEF EventsInv
    <3>3. admittedEvents[i].at + EventWindow <= recentEventIds[admittedEvents[i].id]
      BY <2>2, <2>3, <2>4, <2>5
    <3> QED BY <2>2, <2>4, <2>5, <3>1, <3>2, <3>3
  <2> QED BY <2>2, <2>3, <2>4, <2>5
<1>2. time' \in Nat \ {0}
  BY DEF EventsInv
<1> QED BY <1>1, <1>2 DEF EventsInv, WindowStart, EventsCountedOnce

LEMMA EventsStepKeeps ==
  ASSUME EventsInv, AdEventsNext
  PROVE  EventsInv'
<1> USE AdEventsAssumption
<1>1. time \in Nat \ {0} /\ recentEventIds \in [EventId -> Nat] /\ call \in [Slot -> {Idle} \cup EventCall]
  BY DEF EventsInv
<1>2. CASE TimePasses
  BY <1>1, <1>2, EventsStay DEF TimePasses
<1>3. CASE Restart
  <2>1. admittedEvents' = <<>> /\ window' = NoWindow /\ Len(admittedEvents') = 0
    BY <1>3 DEF Restart
  <2>2. /\ call' \in [Slot -> {Idle} \cup EventCall] /\ time' \in Nat \ {0}
        /\ recentEventIds' \in [EventId -> Nat] /\ admittedEvents' \in Seq(Event)
    BY <1>1, <1>3 DEF Restart
  <2> QED BY <2>1, <2>2 DEF EventsInv, EventsCountedOnce
<1>4. ASSUME NEW c \in Slot, NEW id \in EventId \cup {NoId}, ReceiveEvent(c, id) PROVE EventsInv'
  <2>1. call' \in [Slot -> {Idle} \cup EventCall] /\ UNCHANGED adEventVars
    BY <1>1, <1>4, EventFields DEF ReceiveEvent, Begin
  <2> QED BY <1>1, <2>1, EventsStay DEF adEventVars
<1>5. ASSUME NEW c \in Slot, CountEvent(c) PROVE EventsInv'
  <2>1. call' \in [Slot -> {Idle} \cup EventCall]
    BY <1>1, <1>5 DEF CountEvent, Return, Continue
  <2> QED BY <1>1, <1>5, <2>1, EventsStay DEF CountEvent
<1>6. ASSUME NEW c \in Slot, Judge(c) PROVE EventsInv'
  <2> DEFINE id == call[c].id
             pruned == [i \in EventId |-> IF Remembered(i) THEN recentEventIds[i] ELSE 0]
             noted == [i \in EventId |-> IF i = id THEN time + EventWindow ELSE pruned[i]]
  <2>1. call[c] \in EventCall /\ id \in EventId \cup {NoId}
    BY <1>1, <1>6, EventFields DEF Judge
  <2>2. call' \in [Slot -> {Idle} \cup EventCall] /\ time' = time
    BY <1>1, <1>6, EventFields DEF Judge, Return, Continue
  <2>3. pruned \in [EventId -> Nat] /\ noted \in [EventId -> Nat]
    BY <1>1
  <2>4. \A i \in EventId : Remembered(i) \/ recentEventIds[i] <= time
    BY <1>1 DEF Remembered
  <2>5. \A i \in EventId : Remembered(i) => pruned[i] = recentEventIds[i]
    OBVIOUS
  <2>6. CASE Remembered(id)
    <3>1. recentEventIds' = pruned /\ UNCHANGED <<window, admittedEvents>>
      BY <1>6, <2>6 DEF Judge
    <3> HIDE DEF pruned
    <3> QED BY <1>1, <2>2, <2>3, <2>4, <2>5, <3>1, EventsStay
  <2>7. CASE ~Remembered(id)
    <3>1. recentEventIds' = noted
      BY <1>6, <2>7 DEF Judge
    <3>2. \A i \in EventId : i # id => noted[i] = pruned[i]
      OBVIOUS
    <3>3. id # NoId => noted[id] = time + EventWindow
      BY <2>1
    <3>4. CASE ~Fresh /\ window.count >= MaxPerWindow
      <4>1. UNCHANGED <<window, admittedEvents>>
        BY <1>6, <2>7, <3>4 DEF Judge
      <4>2. \A i \in EventId : noted[i] >= recentEventIds[i] \/ recentEventIds[i] <= time
        BY <1>1, <2>1, <2>4, <2>5, <2>7, <3>2
      <4> HIDE DEF noted, pruned, id
      <4> QED BY <1>1, <2>2, <2>3, <3>1, <4>1, <4>2, EventsStay
    <3>5. CASE Fresh \/ ~(window.count >= MaxPerWindow)
      <4>1. /\ window' = IF Fresh THEN [startedAt |-> time, count |-> 1] ELSE [window EXCEPT !.count = @ + 1]
            /\ admittedEvents' = Append(admittedEvents, [id |-> id, at |-> time])
        BY <1>6, <2>7, <3>5 DEF Judge
      <4>2. Fresh \/ window.count < MaxPerWindow
        BY <3>5 DEF EventsInv, Fresh
      <4> HIDE DEF noted, pruned, id
      <4> QED BY <2>1, <2>2, <2>3, <2>5, <2>7, <3>1, <3>2, <3>3, <4>1, <4>2, EventAdmitted
    <3> QED BY <3>4, <3>5
  <2> QED BY <2>6, <2>7
<1> QED BY <1>2, <1>3, <1>4, <1>5, <1>6 DEF AdEventsNext

LEMMA EventsSafe == EventsInv \/ EventsRest => EventsCountedOnce
BY DEF EventsInv, EventsRest, EventsCountedOnce

-----------------------------------------------------------------------------
\* A worker runs scans only.
ScanInv ==
  /\ call \in [Slot -> {Idle} \cup ScanCall]
  /\ hour \in 0..LastHour

LEMMA ScanStepKeeps ==
  ASSUME ScanInv, NoticesNext
  PROVE  ScanInv'
<1> USE NoticesAssumption DEF ScanInv
<1>0. /\ Idle \notin ScanCall /\ Idle.op = "idle"
      /\ \A r \in ScanCall : /\ r.op = "scan" /\ r.now \in 0..LastHour /\ r.kind \in Kind /\ r.todo \subseteq Notice
                             /\ \A todo \in SUBSET Notice : [r EXCEPT !.todo = todo] \in ScanCall
                             /\ \A kind \in Kind, todo \in SUBSET Notice :
                                  [r EXCEPT !.kind = kind, !.todo = todo] \in ScanCall
  BY DEF ScanCall, Idle
<1>1. CASE HourPasses \/ Change
  BY <1>1 DEF HourPasses, Change
<1>2. ASSUME NEW c \in Slot, BeginScan(c) PROVE ScanInv'
  <2>1. [op |-> "scan", now |-> hour, kind |-> "deadline", todo |-> Due("deadline", hour)] \in ScanCall
    BY DEF ScanCall, Kind, Due
  <2> QED BY <1>2, <2>1 DEF BeginScan, Continue
<1>3. ASSUME NEW c \in Slot, InsertNotices(c) PROVE ScanInv'
  <2>1. call[c] \in ScanCall
    BY <1>0, <1>3 DEF InsertNotices
  <2>2. \A chunk : [call[c] EXCEPT !.todo = @ \ chunk] \in ScanCall
    BY <1>0, <2>1
  <2> QED BY <1>3, <2>2 DEF InsertNotices, Continue
<1>4. ASSUME NEW c \in Slot, ReadNext(c) PROVE ScanInv'
  <2>1. call[c] \in ScanCall
    BY <1>0, <1>4 DEF ReadNext
  <2>2. \A kind \in Kind : [call[c] EXCEPT !.kind = kind, !.todo = Due(kind, call[c].now)] \in ScanCall
    BY <1>0, <2>1 DEF Due
  <2> QED BY <1>4, <2>2 DEF ReadNext, Continue, noticeVars
<1>5. ASSUME NEW c \in Slot, EndScan(c) \/ FailScan(c) PROVE ScanInv'
  BY <1>5 DEF EndScan, FailScan, Return, Continue
<1> QED BY <1>1, <1>2, <1>3, <1>4, <1>5 DEF NoticesNext
\* The hours of a notice that are over.
Past(n, h) == {x \in TimeOf(n) : x < h}

TimelyNow(n) == Timely(n.kind, n.post, hour)

\* The kinds that a scan has been through.
Through(kind) == {k \in Kind : <<k, kind>> \in {<<"deadline", "open">>, <<"deadline", "new">>, <<"open", "new">>}}

\* A scan leaves no wanted notice of its hour behind, so that the hours a notice
\* has been missing for are hours in a row without a scan.
NoticesInv ==
  /\ ScanInv
  /\ served \in BOOLEAN /\ gap \in Nat /\ longest \in Nat /\ gap <= longest
  /\ kept \subseteq Notice
  /\ \A n \in kept : TimelyNow(n) => Wanted(n)
  /\ \A c \in Slot : call[c].op = "scan" =>
       /\ call[c].now = hour
       /\ \A n \in kept : TimelyNow(n) =>
            /\ n.kind \in Through(call[c].kind) => n \in noticed
            /\ n.kind = call[c].kind => n \in noticed \cup call[c].todo
  /\ served => \A n \in kept : TimelyNow(n) => n \in noticed
  /\ \A n \in kept \ noticed :
       /\ Cardinality(Past(n, hour)) <= longest
       /\ (\E h \in TimeOf(n) : h >= hour) => Cardinality(Past(n, hour)) <= gap

NoticesRest == hour = 0 /\ longest = 0

LEMMA PastIsFinite ==
  ASSUME NEW n \in Notice, NEW h \in Nat
  PROVE  /\ IsFiniteSet(Past(n, h)) /\ IsFiniteSet(TimeOf(n))
         /\ Cardinality(Past(n, h)) \in Nat
         /\ Cardinality(Past(n, 0)) = 0
         /\ Cardinality(Past(n, h + 1)) <= Cardinality(Past(n, h)) + 1
         /\ h \notin TimeOf(n) => Past(n, h + 1) = Past(n, h)
<1>1. IsFiniteSet(0..LastHour)
  BY FS_Interval, NoticesAssumption
<1>2. IsFiniteSet(TimeOf(n))
  BY <1>1, FS_Subset DEF TimeOf
<1>3. \A x : IsFiniteSet(Past(n, x))
  BY <1>2, FS_Subset DEF Past
<1>4. Past(n, 0) = {}
  BY NoticesAssumption DEF Past, TimeOf
<1>5. CASE h \in TimeOf(n)
  <2>1. Past(n, h + 1) = Past(n, h) \cup {h} /\ h \notin Past(n, h)
    BY <1>5, NoticesAssumption DEF Past, TimeOf
  <2>2. Cardinality(Past(n, h + 1)) = Cardinality(Past(n, h)) + 1
    BY <1>3, <2>1, FS_AddElement
  <2> QED BY <1>2, <1>3, <1>4, <1>5, <2>2, FS_EmptySet, FS_CardinalityType
<1>6. CASE h \notin TimeOf(n)
  <2>1. Past(n, h + 1) = Past(n, h)
    BY <1>6, NoticesAssumption DEF Past, TimeOf
  <2>2. Cardinality(Past(n, h)) \in Nat
    BY <1>3, FS_CardinalityType
  <2> QED BY <1>2, <1>3, <1>4, <2>1, <2>2, FS_EmptySet
<1> QED BY <1>5, <1>6

\* The hours of a notice come in a row.
LEMMA TimeInRow ==
  ASSUME NEW n \in Notice, NEW h \in 0..LastHour, h \notin TimeOf(n), NEW x \in TimeOf(n), x > h
  PROVE  Past(n, h + 1) = {}
<1>1. n.post \in Post /\ n.kind \in Kind
  BY DEF Notice
<1>2. ASSUME NEW y \in TimeOf(n), y <= h
      PROVE  FALSE
  BY <1>1, <1>2, NoticesAssumption DEF TimeOf, Timely, Kind
<1> QED BY <1>2, NoticesAssumption DEF Past, TimeOf

LEMMA NoticesStart ==
  ASSUME NoticesInit, call = [c \in Slot |-> Idle]
  PROVE  NoticesInv
<1>1. ScanInv
  BY NoticesAssumption DEF ScanInv, NoticesInit
<1>2. \A n \in Notice : Cardinality(Past(n, hour)) = 0
  BY PastIsFinite DEF NoticesInit
<1>3. kept \subseteq Notice /\ \A n \in kept : TimelyNow(n) => Wanted(n)
  BY DEF NoticesInit, TimelyNow
<1>4. served = FALSE /\ gap = 0 /\ longest = 0 /\ \A c \in Slot : call[c].op # "scan"
  BY DEF NoticesInit, Idle
<1>5. \A n \in kept \ noticed :
         /\ Cardinality(Past(n, hour)) <= longest
         /\ (\E h \in TimeOf(n) : h >= hour) => Cardinality(Past(n, hour)) <= gap
  BY <1>2, <1>3, <1>4
<1>6. served \in BOOLEAN
  BY <1>4
<1>7. gap \in Nat /\ longest \in Nat /\ gap <= longest
  BY <1>4
<1> QED BY <1>1, <1>3, <1>4, <1>5, <1>6, <1>7 DEF NoticesInv

LEMMA NoticesStepKeeps ==
  ASSUME NoticesInv, NoticesNext
  PROVE  NoticesInv'
<1>0. ScanInv' /\ ScanInv /\ kept \subseteq Notice
  BY ScanStepKeeps DEF NoticesInv
<1>1. hour \in Nat /\ hour \in 0..LastHour /\ LastHour \in Nat
  BY NoticesAssumption DEF NoticesInv, ScanInv
<1>2. CASE HourPasses
  <2>1. hour' = hour + 1 /\ hour < LastHour /\ UNCHANGED <<call, noticed>> /\ served' = FALSE
    BY <1>2 DEF HourPasses
  <2>2. gap' = (IF served THEN 0 ELSE gap + 1) /\ longest' = (IF gap' > longest THEN gap' ELSE longest)
    BY <1>2 DEF HourPasses
  <2>3. kept' \subseteq kept /\ \A n \in kept' : TimelyNow(n)' => Wanted(n)'
    BY <1>2 DEF HourPasses, Keep, TimelyNow
  <2>4. gap' \in Nat /\ longest' \in Nat /\ gap' <= longest' /\ longest <= longest'
    BY <2>2 DEF NoticesInv
  <2>5. \A c \in Slot : call'[c].op # "scan"
    BY <1>2, <2>1 DEF HourPasses, Idle
  <2>6. ASSUME NEW n \in kept' \ noticed'
        PROVE  /\ Cardinality(Past(n, hour')) <= longest'
               /\ (\E h \in TimeOf(n) : h >= hour') => Cardinality(Past(n, hour')) <= gap'
    <3>1. n \in kept /\ n \in Notice /\ n \notin noticed
      BY <1>0, <2>1, <2>3, <2>6
    <3>2. /\ Cardinality(Past(n, hour)) <= longest
          /\ (\E h \in TimeOf(n) : h >= hour) => Cardinality(Past(n, hour)) <= gap
      BY <3>1 DEF NoticesInv
    <3>3. /\ Cardinality(Past(n, hour)) \in Nat /\ Cardinality(Past(n, hour')) \in Nat
          /\ Cardinality(Past(n, hour')) <= Cardinality(Past(n, hour)) + 1
          /\ hour \notin TimeOf(n) => Past(n, hour') = Past(n, hour)
      BY <1>1, <2>1, <3>1, PastIsFinite
    <3>4. CASE hour \in TimeOf(n)
      <4>1. ~served
        BY <3>1, <3>4 DEF NoticesInv, TimelyNow, TimeOf
      <4>2. Cardinality(Past(n, hour)) <= gap
        BY <1>1, <3>2, <3>4
      <4> QED BY <2>2, <2>4, <3>3, <4>1, <4>2 DEF NoticesInv
    <3>5. CASE hour \notin TimeOf(n)
      <4>1. Cardinality(Past(n, hour')) <= longest'
        BY <2>4, <3>2, <3>3, <3>5 DEF NoticesInv
      <4>2. ASSUME NEW h \in TimeOf(n), h >= hour'
            PROVE  Cardinality(Past(n, hour')) <= gap'
        <5>1. h > hour
          BY <1>1, <2>1, <4>2, NoticesAssumption DEF TimeOf
        <5>2. Past(n, hour') = {}
          BY <1>1, <2>1, <3>1, <3>5, <5>1, TimeInRow
        <5> QED BY <2>4, <5>2, FS_EmptySet
      <4> QED BY <4>1, <4>2
    <3> QED BY <3>4, <3>5
  <2> QED BY <1>0, <2>1, <2>3, <2>4, <2>5, <2>6 DEF NoticesInv
<1>3. CASE Change
  <2>1. UNCHANGED <<call, hour, noticed, served, gap, longest>>
    BY <1>3 DEF Change
  <2>2. kept' \subseteq kept /\ \A n \in kept' : TimelyNow(n)' => Wanted(n)'
    BY <1>3 DEF Change, Keep, TimelyNow
  <2> QED BY <1>0, <2>1, <2>2 DEF NoticesInv, TimelyNow
<1>4. ASSUME NEW c \in Slot, BeginScan(c) PROVE NoticesInv'
  <2>1. /\ UNCHANGED <<hour, wishVars, noticed, kept, served, gap, longest>>
        /\ call' = [call EXCEPT ![c] = [op |-> "scan", now |-> hour, kind |-> "deadline",
                                        todo |-> Due("deadline", hour)]]
    BY <1>4 DEF BeginScan, Continue
  <2>2. \A n \in kept : TimelyNow(n) => (n.kind = "deadline" => n \in Due("deadline", hour))
    BY <1>0 DEF NoticesInv, Due, TimelyNow
  <2>3. Through("deadline") = {}
    BY DEF Through
  <2>4. \A n : Wanted(n)' = Wanted(n) /\ TimelyNow(n)' = TimelyNow(n)
    BY <2>1 DEF Wanted, TimelyNow, wishVars
  <2>5. /\ call'[c].now = hour /\ call'[c].kind = "deadline" /\ call'[c].todo = Due("deadline", hour)
        /\ \A d \in Slot \ {c} : call'[d] = call[d]
    BY <1>0, <2>1 DEF ScanInv
  <2> QED BY <1>0, <2>1, <2>2, <2>3, <2>4, <2>5 DEF NoticesInv
<1>5. ASSUME NEW c \in Slot, InsertNotices(c) PROVE NoticesInv'
  <2>1. PICK chunk \in Chunks(call[c].todo) :
          noticed' = noticed \cup chunk /\ call' = [call EXCEPT ![c] = [call[c] EXCEPT !.todo = @ \ chunk]]
    BY <1>5 DEF InsertNotices, Continue
  <2>2. UNCHANGED <<hour, wishVars, kept, served, gap, longest>> /\ call[c].op = "scan"
    BY <1>5 DEF InsertNotices
  <2>3. call[c] \in ScanCall
    BY <1>0, <2>2 DEF ScanInv, Idle
  <2>4. /\ call'[c].now = call[c].now /\ call'[c].kind = call[c].kind /\ call'[c].todo = call[c].todo \ chunk
        /\ \A d \in Slot \ {c} : call'[d] = call[d]
    BY <1>0, <2>1, <2>3 DEF ScanInv, ScanCall
  <2>5. \A n : Wanted(n)' = Wanted(n) /\ TimelyNow(n)' = TimelyNow(n)
    BY <2>2 DEF Wanted, TimelyNow, wishVars
  <2> QED BY <1>0, <2>1, <2>2, <2>4, <2>5 DEF NoticesInv
<1>6. ASSUME NEW c \in Slot, ReadNext(c) PROVE NoticesInv'
  <2>1. UNCHANGED noticeVars /\ call[c].op = "scan" /\ call[c].todo = {}
    BY <1>6 DEF ReadNext
  <2>2. call[c] \in ScanCall
    BY <1>0, <2>1 DEF ScanInv, Idle
  <2>3. PICK kind \in Kind : /\ <<call[c].kind, kind>> \in {<<"deadline", "open">>, <<"open", "new">>}
                             /\ call' = [call EXCEPT ![c] = [call[c] EXCEPT !.kind = kind,
                                                                            !.todo = Due(kind, call[c].now)]]
    BY <1>6 DEF ReadNext, Continue
  <2>4. /\ call'[c].now = call[c].now /\ call'[c].kind = kind /\ call'[c].todo = Due(kind, call[c].now)
        /\ \A d \in Slot \ {c} : call'[d] = call[d]
    BY <1>0, <2>2, <2>3 DEF ScanInv, ScanCall
  <2>5. Through(kind) \subseteq Through(call[c].kind) \cup {call[c].kind}
    BY <2>3 DEF Through
  <2>6. call[c].now = hour
    BY <2>1 DEF NoticesInv
  <2>7. ASSUME NEW n \in kept, TimelyNow(n)
        PROVE  /\ n.kind \in Through(kind) => n \in noticed
               /\ n.kind = kind => n \in Due(kind, hour)
    <3>1. n.kind \in Through(kind) => n \in noticed
      BY <2>1, <2>5, <2>7 DEF NoticesInv
    <3>2. n.kind = kind => n \in Due(kind, hour)
      BY <1>0, <2>7 DEF NoticesInv, Due, TimelyNow
    <3> QED BY <3>1, <3>2
  <2>8. \A n : Wanted(n)' = Wanted(n) /\ TimelyNow(n)' = TimelyNow(n)
    BY <2>1 DEF Wanted, TimelyNow, noticeVars
  <2>9. UNCHANGED <<hour, noticed, kept, served, gap, longest>>
    BY <2>1 DEF noticeVars
  <2> QED BY <1>0, <2>4, <2>6, <2>7, <2>8, <2>9 DEF NoticesInv
<1>7. ASSUME NEW c \in Slot, EndScan(c) \/ FailScan(c) PROVE NoticesInv'
  <2>1. /\ UNCHANGED <<hour, wishVars, noticed, kept, gap, longest>>
        /\ call' = [call EXCEPT ![c] = Idle] /\ call[c].op = "scan"
    BY <1>7 DEF EndScan, FailScan, Return, Continue
  <2>2. served' = served \/ (served' = TRUE /\ call[c].kind = "new" /\ call[c].todo = {})
    BY <1>7 DEF EndScan, FailScan
  <2>3. \A k \in Kind : k = "new" \/ k \in Through("new")
    BY DEF Kind, Through
  <2>4. served' => \A n \in kept : TimelyNow(n) => n \in noticed
    <3>1. CASE call[c].kind = "new" /\ call[c].todo = {}
      BY <1>0, <2>1, <2>3, <3>1 DEF NoticesInv, Notice
    <3> QED BY <2>2, <3>1 DEF NoticesInv
  <2>5. \A n : Wanted(n)' = Wanted(n) /\ TimelyNow(n)' = TimelyNow(n)
    BY <2>1 DEF Wanted, TimelyNow, wishVars
  <2>6. call'[c].op = "idle" /\ \A d \in Slot \ {c} : call'[d] = call[d]
    BY <1>0, <2>1 DEF ScanInv, Idle
  <2>7. served' \in BOOLEAN
    BY <2>2 DEF NoticesInv
  <2> QED BY <1>0, <2>1, <2>4, <2>5, <2>6, <2>7 DEF NoticesInv
<1> QED BY <1>2, <1>3, <1>4, <1>5, <1>6, <1>7 DEF NoticesNext

LEMMA NoticesSafe ==
  ASSUME NoticesInv \/ NoticesRest
  PROVE  DueNoticeArrives
<1>1. SUFFICES ASSUME NEW n \in kept, \A h \in TimeOf(n) : h < hour, longest < Cardinality(TimeOf(n)),
                      n \notin noticed
               PROVE  FALSE
  BY DEF DueNoticeArrives
<1>2. Past(n, hour) = TimeOf(n)
  BY <1>1 DEF Past
<1>3. CASE NoticesInv
  <2>1. n \in Notice /\ hour \in Nat
    BY <1>3, NoticesAssumption DEF NoticesInv, ScanInv
  <2>2. Cardinality(TimeOf(n)) <= longest /\ Cardinality(TimeOf(n)) \in Nat /\ longest \in Nat
    BY <1>1, <1>2, <1>3, <2>1, PastIsFinite DEF NoticesInv
  <2> QED BY <1>1, <2>2
<1>4. CASE NoticesRest
  <2>1. TimeOf(n) = {}
    BY <1>1, <1>4, NoticesAssumption DEF NoticesRest, TimeOf
  <2> QED BY <1>1, <1>4, <2>1, FS_EmptySet DEF NoticesRest
<1> QED BY <1>3, <1>4
-----------------------------------------------------------------------------
\* Views at rest stay as they are.
LEMMA RestStays ==
  /\ UNCHANGED noticeVars => (NoticesRest => NoticesRest')
  /\ UNCHANGED adEventVars => (EventsRest => EventsRest')
  /\ UNCHANGED bookmarkVars => (BookmarksRest => BookmarksRest')
  /\ UNCHANGED listingVars => (ListInv => ListInv')
  /\ UNCHANGED posterVars => (PosterInv => PosterInv')
<1>1. UNCHANGED noticeVars => (NoticesRest => NoticesRest')
  BY DEF NoticesRest, noticeVars
<1>2. UNCHANGED adEventVars => (EventsRest => EventsRest')
  BY DEF EventsRest, adEventVars
<1>3. UNCHANGED bookmarkVars => (BookmarksRest => BookmarksRest')
  BY DEF BookmarksRest, bookmarkVars
<1>4. UNCHANGED listingVars => (ListInv => ListInv')
  BY DEF ListInv, KeysetCondition, Precedes, Earlier, listingVars
<1>5. UNCHANGED posterVars => (PosterInv => PosterInv')
  BY DEF PosterInv, PosterTypeOK, posterVars
<1> QED BY <1>1, <1>2, <1>3, <1>4, <1>5

LEMMA ViewsStutter ==
  ASSUME UNCHANGED <<call, viewVars>>
  PROVE  /\ NoticesInv => NoticesInv'
         /\ EventsInv => EventsInv'
         /\ BookmarksInv => BookmarksInv'
<1> USE DEF viewVars
<1>1. NoticesInv => NoticesInv'
  BY DEF NoticesInv, ScanInv, TimelyNow, Wanted, noticeVars, wishVars
<1>2. EventsInv => EventsInv'
  BY DEF EventsInv, EventsCountedOnce, WindowStart, adEventVars
<1>3. BookmarksInv => BookmarksInv'
  BY DEF BookmarksInv, InToggle, bookmarkVars
<1> QED BY <1>1, <1>2, <1>3

\* No call of a view is one of a card.
LEMMA ViewCalls ==
  /\ NoticesInv => \A c \in Slot : call[c].op \in {"idle", "scan"}
  /\ EventsInv => \A c \in Slot : call[c].op \in {"idle", "judge", "count"}
  /\ BookmarksInv => \A c \in Slot :
       call[c].op \in {"idle", "mutate", "guess", "send", "success", "error", "settle"}
<1>1. NoticesInv => \A c \in Slot : call[c].op \in {"idle", "scan"}
  BY DEF NoticesInv, ScanInv, ScanCall, Idle
<1>2. EventsInv => \A c \in Slot : call[c].op \in {"idle", "judge", "count"}
  BY EventFields DEF EventsInv
<1>3. BookmarksInv => \A c \in Slot :
        call[c].op \in {"idle", "mutate", "guess", "send", "success", "error", "settle"}
  BY ToggleFields DEF BookmarksInv
<1> QED BY <1>1, <1>2, <1>3

-----------------------------------------------------------------------------
(* Types, within the bounds.                                               *)

LEMMA NoticesTyped ==
  ASSUME ScanInv, NoticesTypeOK, NoticesNext
  PROVE  NoticesTypeOK'
<1> USE NoticesAssumption DEF NoticesTypeOK, Never
<1>1. CASE HourPasses
  <2>1. hour' \in 0..LastHour
    BY <1>1 DEF HourPasses
  <2>2. gap' \in Nat /\ longest' \in Nat
    BY <1>1 DEF HourPasses
  <2>3. kept' \subseteq Notice
    BY <1>1 DEF HourPasses, Keep
  <2> QED BY <1>1, <2>1, <2>2, <2>3 DEF HourPasses, wishVars
<1>2. CASE Change
  <2>1. changes' \in 0..MaxChanges
    BY <1>2 DEF Change
  <2>2. /\ bookmarked' \subseteq Reader \X Post /\ muted' \subseteq Reader \X {"deadline", "challenge"}
        /\ barred' \subseteq Reader /\ published' \subseteq Post
    BY <1>2 DEF Change, Switched
  <2>3. kept' \subseteq Notice
    BY <1>2 DEF Change, Keep
  <2> QED BY <1>2, <2>1, <2>2, <2>3 DEF Change
<1>3. ASSUME NEW c \in Slot, BeginScan(c) PROVE NoticesTypeOK'
  <2>1. hour \in 0..(LastHour + 1)
    OBVIOUS
  <2>2. scannedAt' \in [Slot -> 0..(LastHour + 1)]
    BY <1>3, <2>1 DEF BeginScan
  <2> QED BY <1>3, <2>2 DEF BeginScan, wishVars
<1>4. ASSUME NEW c \in Slot, InsertNotices(c) PROVE NoticesTypeOK'
  <2>1. call[c].todo \subseteq Notice
    BY <1>4 DEF InsertNotices, ScanInv, ScanCall, Idle
  <2>2. noticed' \subseteq Notice
    BY <1>4, <2>1 DEF InsertNotices, Chunks
  <2> QED BY <1>4, <2>2 DEF InsertNotices, wishVars
<1>5. ASSUME NEW c \in Slot, ReadNext(c) \/ EndScan(c) PROVE NoticesTypeOK'
  BY <1>5 DEF ReadNext, EndScan, noticeVars, wishVars
<1>6. ASSUME NEW c \in Slot, FailScan(c) PROVE NoticesTypeOK'
  <2>1. faults' \in 0..MaxFaults
    BY <1>6 DEF FailScan
  <2>2. scannedAt' \in [Slot -> 0..(LastHour + 1)]
    BY <1>6 DEF FailScan
  <2> QED BY <1>6, <2>1, <2>2 DEF FailScan, wishVars
<1> QED BY <1>1, <1>2, <1>3, <1>4, <1>5, <1>6 DEF NoticesNext

LEMMA ListingTyped ==
  ASSUME ListingTypeOK, ListingNext
  PROVE  ListingTypeOK'
<1> USE ListingAssumption DEF ListingTypeOK
<1>1. CASE ListPage
  <2>1. shown' \in [Row -> Nat]
    BY <1>1 DEF ListPage
  <2>2. page' \in {"first", "next", "done"} /\ blurred' \subseteq Row
    BY <1>1 DEF ListPage, SameMillisecond
  <2>3. cursor' \in [value : 0..MaxValue, id : Nat]
    <3>1. \A last \in Row : [value |-> value[last], id |-> last] \in [value : 0..MaxValue, id : Nat]
      OBVIOUS
    <3> QED BY <1>1, <3>1 DEF ListPage, Remaining
  <2> QED BY <1>1, <2>1, <2>2, <2>3 DEF ListPage
<1>2. ASSUME NEW r \in Row, Relist(r) \/ Revalue(r) PROVE ListingTypeOK'
  <2>1. edits' \in 0..MaxEdits
    BY <1>2 DEF Relist, Revalue, Edit
  <2>2. value' \in [Row -> 0..MaxValue] /\ listed' \subseteq Row /\ steady' \subseteq Row
    BY <1>2 DEF Relist, Revalue, Edit
  <2> QED BY <1>2, <2>1, <2>2 DEF Relist, Revalue, Edit
<1> QED BY <1>1, <1>2 DEF ListingNext

LEMMA EventsTyped ==
  ASSUME EventsInv, AdEventsTypeOK, AdEventsNext
  PROVE  AdEventsTypeOK'
<1> USE AdEventsAssumption
<1>0. /\ time \in 1..(LastTime + 1) /\ counter \in Nat
      /\ recentEventIds \in [EventId -> 0..(LastTime + 1 + EventWindow)]
      /\ window \in [startedAt : 0..(LastTime + 1), count : 0..MaxPerWindow]
      /\ admittedEvents \in Seq([id : EventId \cup {NoId}, at : 1..(LastTime + 1)])
  BY DEF AdEventsTypeOK
<1>1. CASE TimePasses
  <2>1. time' \in 1..(LastTime + 1)
    BY <1>0, <1>1 DEF TimePasses
  <2> QED BY <1>0, <1>1, <2>1 DEF TimePasses, AdEventsTypeOK
<1>2. CASE Restart
  <2>1. NoWindow \in [startedAt : 0..(LastTime + 1), count : 0..MaxPerWindow]
    BY DEF NoWindow
  <2>2. recentEventIds' \in [EventId -> 0..(LastTime + 1 + EventWindow)]
    BY <1>2 DEF Restart
  <2>3. admittedEvents' \in Seq([id : EventId \cup {NoId}, at : 1..(LastTime + 1)])
    BY <1>2 DEF Restart
  <2> QED BY <1>0, <1>2, <2>1, <2>2, <2>3 DEF Restart, AdEventsTypeOK
<1>3. ASSUME NEW c \in Slot, NEW id \in EventId \cup {NoId}, ReceiveEvent(c, id) PROVE AdEventsTypeOK'
  BY <1>0, <1>3 DEF ReceiveEvent, adEventVars, AdEventsTypeOK
<1>4. ASSUME NEW c \in Slot, CountEvent(c) PROVE AdEventsTypeOK'
  BY <1>0, <1>4 DEF CountEvent, AdEventsTypeOK
<1>5. ASSUME NEW c \in Slot, Judge(c) PROVE AdEventsTypeOK'
  <2>1. call[c].id \in EventId \cup {NoId}
    BY <1>5, EventFields DEF Judge, EventsInv
  <2>2. UNCHANGED <<time, counter>>
    BY <1>5 DEF Judge
  <2>3. recentEventIds' \in [EventId -> 0..(LastTime + 1 + EventWindow)]
    <3>1. time + EventWindow \in 0..(LastTime + 1 + EventWindow)
      BY <1>0
    <3>2. 0 \in 0..(LastTime + 1 + EventWindow)
      OBVIOUS
    <3> DEFINE Until == 0..(LastTime + 1 + EventWindow)
               pruned == [i \in EventId |-> IF Remembered(i) THEN recentEventIds[i] ELSE 0]
    <3>3. time + EventWindow \in Until /\ 0 \in Until /\ recentEventIds \in [EventId -> Until]
      BY <1>0, <3>1, <3>2
    <3> HIDE DEF Until
    <3>4. pruned \in [EventId -> Until]
      BY <3>3
    <3>5. recentEventIds' = pruned
            \/ recentEventIds' = [i \in EventId |-> IF i = call[c].id THEN time + EventWindow ELSE pruned[i]]
      BY <1>5 DEF Judge
    <3> HIDE DEF pruned
    <3>6. recentEventIds' \in [EventId -> Until]
      BY <3>3, <3>4, <3>5
    <3> QED BY <3>6 DEF Until
  <2>4. window' \in [startedAt : 0..(LastTime + 1), count : 0..MaxPerWindow]
    <3>1. CASE UNCHANGED window
      BY <1>0, <3>1
    <3>2. CASE Fresh /\ window' = [startedAt |-> time, count |-> 1]
      BY <1>0, <3>2
    <3>3. CASE ~Fresh /\ ~(window.count >= MaxPerWindow) /\ window' = [window EXCEPT !.count = @ + 1]
      <4>1. window.count \in 0..MaxPerWindow /\ window.count + 1 \in 0..MaxPerWindow
        BY <1>0, <3>3
      <4> QED BY <1>0, <3>3, <4>1
    <3> QED BY <1>5, <3>1, <3>2, <3>3 DEF Judge
  <2>5. admittedEvents' \in Seq([id : EventId \cup {NoId}, at : 1..(LastTime + 1)])
    <3>1. [id |-> call[c].id, at |-> time] \in [id : EventId \cup {NoId}, at : 1..(LastTime + 1)]
      BY <1>0, <2>1
    <3>2. UNCHANGED admittedEvents \/ admittedEvents' = Append(admittedEvents, [id |-> call[c].id, at |-> time])
      BY <1>5 DEF Judge
    <3> DEFINE E == [id : EventId \cup {NoId}, at : 1..(LastTime + 1)]
    <3> HIDE DEF E
    <3>3. \A x \in E : Append(admittedEvents, x) \in Seq(E)
      BY <1>0 DEF E
    <3> QED BY <1>0, <3>1, <3>2, <3>3 DEF E
  <2> QED BY <1>0, <2>2, <2>3, <2>4, <2>5 DEF AdEventsTypeOK
<1> QED BY <1>1, <1>2, <1>3, <1>4, <1>5 DEF AdEventsNext
==============================================================================
