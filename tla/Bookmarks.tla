------------------------------ MODULE Bookmarks ------------------------------
(***************************************************************************)
(* The bookmarks a browser shows while its user toggles them, as written   *)
(* in                                                                      *)
(*   src/front/src/features/bookmarks/useBookmarks.ts                      *)
(*   src/server/src/modules/bookmarks/bookmarks.service.ts (toggle)        *)
(*                                                                         *)
(* A slot is a toggle; every card has a hook of its own, so that toggles   *)
(* overlap. The cache is the one of TanStack Query: a fetch remembers the  *)
(* state that a cancellation goes back to. One query, one tab.             *)
(***************************************************************************)
EXTENDS Requests

CONSTANT Contest    \* challenges that can be bookmarked

VARIABLES
  saved,    \* bookmarks of the user in the database
  list,     \* data of the query
  stale,    \* isInvalidated
  ok,       \* isSuccess
  fetch     \* the fetch in flight: what it will answer, and revertState

bookmarkVars == <<saved, list, stale, ok, fetch>>

NoFetch == [phase |-> "none"]
Fetch == [phase : {"asked", "read"}, answer : SUBSET Contest, list : SUBSET Contest, stale : BOOLEAN, ok : BOOLEAN]

ToggleCall ==
  [op : {"mutate", "guess"}, id : Contest, bookmarked : BOOLEAN]
    \cup [op : {"send", "success", "error", "settle"}, id : Contest, bookmarked : BOOLEAN,
          previous : SUBSET Contest]

BookmarksTypeOK ==
  /\ saved \subseteq Contest /\ list \subseteq Contest
  /\ stale \in BOOLEAN /\ ok \in BOOLEAN
  /\ fetch = NoFetch \/ fetch \in Fetch

\* The list has been loaded.
BookmarksInit ==
  /\ saved \in SUBSET Contest
  /\ list = saved
  /\ stale = FALSE /\ ok = TRUE
  /\ fetch = NoFetch

Toggled(set, id, bookmarked) == IF bookmarked THEN set \cup {id} ELSE set \ {id}

\* toggleBookmark: the direction is that of the list on the screen.
Click(c, id) ==
  /\ ok
  /\ Begin(c, Staff, [op |-> "mutate", id |-> id, bookmarked |-> id \notin list])
  /\ UNCHANGED <<bookmarkVars, accountVars>>

\* onMutate: cancelQueries gives up the fetch and all it had changed.
CancelQueries(c) ==
  /\ call[c].op = "mutate"
  /\ Continue(c, [call[c] EXCEPT !.op = "guess"])
  /\ fetch' = NoFetch
  /\ IF fetch = NoFetch
     THEN UNCHANGED <<list, stale, ok>>
     ELSE list' = fetch.list /\ stale' = fetch.stale /\ ok' = fetch.ok
  /\ UNCHANGED <<saved, accountVars>>

\* setQueryData: the data count as fresh, and as what to go back to.
SetQueryData(data) ==
  /\ list' = data
  /\ stale' = FALSE /\ ok' = TRUE
  /\ fetch' = IF fetch = NoFetch
              THEN fetch
              ELSE [fetch EXCEPT !.list = data, !.stale = FALSE, !.ok = TRUE]

\* The rest of onMutate; the request goes out.
ShowGuess(c) ==
  /\ call[c].op = "guess"
  /\ SetQueryData(Toggled(list, call[c].id, call[c].bookmarked))
  /\ Continue(c, [op |-> "send", id |-> call[c].id, bookmarked |-> call[c].bookmarked,
                  previous |-> list])
  /\ UNCHANGED <<saved, accountVars>>

\* toggle on the server: the answer may be lost.
SaveBookmark(c) ==
  /\ call[c].op = "send"
  /\ saved' = Toggled(saved, call[c].id, call[c].bookmarked)
  /\ \E op \in {"success", "error"} : Continue(c, [call[c] EXCEPT !.op = op])
  /\ UNCHANGED <<list, stale, ok, fetch, accountVars>>

\* The request is refused, or never arrives.
RefuseToggle(c) ==
  /\ call[c].op = "send"
  /\ Continue(c, [call[c] EXCEPT !.op = "error"])
  /\ UNCHANGED <<bookmarkVars, accountVars>>

OnSuccess(c) ==
  /\ call[c].op = "success"
  /\ Continue(c, [call[c] EXCEPT !.op = "settle"])
  /\ UNCHANGED <<bookmarkVars, accountVars>>

OnError_Final(c) ==
  /\ call[c].op = "error"
  /\ SetQueryData(call[c].previous)
  /\ Return(c)
  /\ UNCHANGED <<saved, accountVars>>

OnError(c) ==
  /\ call[c].op = "error"
  /\ SetQueryData(call[c].previous)
  /\ Continue(c, [call[c] EXCEPT !.op = "settle"])
  /\ UNCHANGED <<saved, accountVars>>

StartFetch(isStale) ==
  /\ stale' = isStale
  /\ fetch' = [phase |-> "asked", answer |-> {}, list |-> list, stale |-> isStale, ok |-> ok]

\* invalidateQueries: a fetch in flight is dropped for a new one.
OnSettled(c) ==
  /\ call[c].op = "settle"
  /\ Return(c)
  /\ StartFetch(TRUE)
  /\ UNCHANGED <<saved, list, ok, accountVars>>

\* The window is focused, or another card is shown.
Refetch ==
  /\ fetch = NoFetch
  /\ StartFetch(stale)
  /\ UNCHANGED <<call, calls, saved, list, ok, accountVars>>

ReadBookmarks ==
  /\ fetch.phase = "asked"
  /\ fetch' = [fetch EXCEPT !.phase = "read", !.answer = saved]
  /\ UNCHANGED <<call, calls, saved, list, stale, ok, accountVars>>

FetchAnswered ==
  /\ fetch.phase = "read"
  /\ list' = fetch.answer
  /\ stale' = FALSE /\ ok' = TRUE
  /\ fetch' = NoFetch
  /\ UNCHANGED <<call, calls, saved, accountVars>>

\* An error leaves the data and counts them as stale.
FetchFailed ==
  /\ fetch # NoFetch
  /\ stale' = TRUE /\ ok' = FALSE
  /\ fetch' = NoFetch
  /\ UNCHANGED <<call, calls, saved, list, accountVars>>

BookmarksNext ==
  \/ Refetch \/ ReadBookmarks \/ FetchAnswered \/ FetchFailed
  \/ \E c \in Slot :
       \/ \E id \in Contest : Click(c, id)
       \/ CancelQueries(c) \/ ShowGuess(c)
       \/ SaveBookmark(c) \/ RefuseToggle(c)
       \/ OnSuccess(c) \/ OnError(c) \/ OnSettled(c)

-----------------------------------------------------------------------------
\* However guesses, roll-backs and fetches of toggles that overlap fall
\* together: a list that is at rest, and not known to be stale, is the one of
\* the server. A roll-back brings back the list from before the toggle, and
\* with it what other toggles have changed since.
ListSettles ==
  (\A c \in Slot : call[c].op \notin {"mutate", "guess", "send", "success", "error", "settle"})
    /\ fetch = NoFetch /\ ok /\ ~stale
    => list = saved
==============================================================================
