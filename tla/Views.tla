-------------------------------- MODULE Views --------------------------------
(***************************************************************************)
(* What users are shown and what is counted of it: notices of the hourly   *)
(* scan, the list of challenges, events of advertisements, bookmarks in    *)
(* the browser, and the poster of a posting. They share no data.           *)
(***************************************************************************)
EXTENDS Notices, Listing, AdEvents, Bookmarks, Poster

ViewGate == {"notices", "list", "events", "bookmarks", "poster"}

viewVars == <<noticeVars, listingVars, adEventVars, bookmarkVars, posterVars>>

ViewsTypeOK ==
  /\ NoticesTypeOK /\ ListingTypeOK /\ AdEventsTypeOK /\ BookmarksTypeOK /\ PosterTypeOK

ViewCall == ScanCall \cup EventCall \cup ToggleCall

\* What a view may start from is of interest in its own behaviours only.
ViewsInit(gate) ==
  /\ NoticesInit
  /\ gate # "notices" => bookmarked = {}
  /\ BookmarksInit
  /\ gate # "bookmarks" => saved = {}
  /\ AdEventsInit /\ PosterInit
  /\ ListingInit
  /\ gate # "list" => /\ sort = "popular" /\ listed = {}
                      /\ \A r \in Row : value[r] = 0

NoticesStep ==
  /\ NoticesNext
  /\ UNCHANGED <<accountVars, listingVars, adEventVars, bookmarkVars, posterVars>>

ListingStep ==
  /\ ListingNext
  /\ UNCHANGED <<call, calls, accountVars, noticeVars, adEventVars, bookmarkVars, posterVars>>

AdEventsStep ==
  /\ AdEventsNext
  /\ UNCHANGED <<noticeVars, listingVars, bookmarkVars, posterVars>>

BookmarksStep ==
  /\ BookmarksNext
  /\ UNCHANGED <<noticeVars, listingVars, adEventVars, posterVars>>

PosterStep ==
  /\ PosterNext
  /\ UNCHANGED <<call, calls, accountVars, noticeVars, listingVars, adEventVars, bookmarkVars>>

ViewsNext(gate) ==
  \/ gate = "notices" /\ NoticesStep
  \/ gate = "list" /\ ListingStep
  \/ gate = "events" /\ AdEventsStep
  \/ gate = "bookmarks" /\ BookmarksStep
  \/ gate = "poster" /\ PosterStep

-----------------------------------------------------------------------------
\* What a browser shows after actions of its user have overlapped: the
\* bookmarks of the server, and each poster with what belongs to it.
BrowserFollows == ListSettles /\ PosterFits
==============================================================================
