------------------------------ MODULE PortalCache ------------------------------
(***************************************************************************)
(* What the portal shows of one query while its user edits: the cache of the  *)
(* query library (src/app/providers.tsx, its rules are external), the fetches *)
(* and the polls that fill it, the edits of src/hooks and the events of the   *)
(* realtime connection, with answers late or lost.                          *)
(***************************************************************************)
EXTENDS Integers, Sequences, SequencesExt

CONSTANTS
  Queries,          \* the queries: by hook, the key, what is read, and whether it is polled
  Edits,            \* the edits: by hook, what is written, and the keys invalidated or set
  Events,           \* by event of the realtime connection, the keys invalidated
  EditSlots,        \* edits that may be in progress together
  MaxEdits,         \* bound: edits in one behaviour
  MaxCacheFaults    \* bound: requests that fail or whose answers are lost

ASSUME PortalCacheConstants == MaxEdits \in Nat /\ MaxCacheFaults \in Nat

VARIABLES
  mode,        \* "real" or "demo"
  viewed,      \* the query: its hook and key, whether it is polled, and the edits it is about
  onScreen,    \* a component that uses it is mounted
  view,        \* the cached data: is there any, is it invalidated, and the edits it lacks
  load,        \* its fetch: not yet at the server, answered by it, or there is none
  loading,     \* the edits that the answer on its way lacks
  edit,        \* for each slot, its hook, how far it is, and the edits its answer lacks
  edits,       \* edits so far
  cacheFaults, \* faults so far
  unheard,     \* history: edits the view lacks whose answers were lost
  absorbed     \* history: edits the view lacks whose refreshes an older answer undid

cacheVars == <<mode, viewed, onScreen, view, load, loading, edit, edits, cacheFaults, unheard,
               absorbed>>

\* A query of a mode, with the edits that change what it shows, that have it asked for again,
\* and that give its data.
About(hook, q, all, m) ==
  [hook |-> hook, key |-> q.key, polled |-> q.polled,
   affected  |-> {h \in DOMAIN all : all[h].writes[m] \cap q.reads[m] # {}},
   refreshed |-> {h \in DOMAIN all : \E k \in all[h].invalidates : IsPrefix(k, q.key)},
   replaced  |-> {h \in DOMAIN all : q.key \in all[h].sets}]

NoEdit == "none"
Blank  == [held |-> FALSE, stale |-> FALSE, lacks |-> {}]

\* The edits that have to do with the query.
Related == viewed.affected \cup viewed.refreshed \cup viewed.replaced

PortalCacheTypeOK ==
  /\ mode \in {"real", "demo"}
  /\ onScreen \in BOOLEAN /\ view.held \in BOOLEAN /\ view.stale \in BOOLEAN
  /\ view.lacks \cup loading \subseteq Related
  /\ load \in {"none", "asked", "answered"}
  /\ \A e \in EditSlots : /\ edit[e].hook \in Related \cup {NoEdit}
                          /\ edit[e].pc \in {"idle", "sent", "done"}
  /\ edits \in 0 .. MaxEdits /\ cacheFaults \in 0 .. MaxCacheFaults

PortalCacheInit ==
  /\ mode \in {"real", "demo"}
  /\ viewed \in {About(hook, Queries[hook], Edits, mode) :
                   hook \in {h \in DOMAIN Queries : Queries[h].reads[mode] # {}}}
  /\ onScreen = FALSE /\ view = Blank
  /\ load = "none" /\ loading = {}
  /\ edit = [e \in EditSlots |-> [hook |-> NoEdit, pc |-> "idle", lacks |-> {}]]
  /\ edits = 0 /\ cacheFaults = 0 /\ unheard = {} /\ absorbed = {}

-----------------------------------------------------------------------------
(* The query library *)

\* New data, and what is no longer lacking has no history.
Showing(v) ==
  /\ view' = v
  /\ unheard' = unheard \cap v.lacks

\* A mounted query is fetched if it has no data, is invalidated, or is older than its staleTime.
Mount ==
  /\ ~ onScreen /\ onScreen' = TRUE
  /\ \/ load # "none" /\ UNCHANGED load
     \/ load = "none" /\ load' = "asked"
     \/ load = "none" /\ view.held /\ ~ view.stale /\ UNCHANGED load
  /\ UNCHANGED <<mode, viewed, view, loading, edit, edits, cacheFaults, unheard, absorbed>>

\* A fetch in flight goes on.
Unmount ==
  /\ onScreen /\ onScreen' = FALSE
  /\ UNCHANGED <<mode, viewed, view, load, loading, edit, edits, cacheFaults, unheard, absorbed>>

\* What has been off the screen for gcTime is dropped.
Collect ==
  /\ ~ onScreen /\ load = "none" /\ view.held
  /\ Showing(Blank) /\ absorbed' = {}
  /\ UNCHANGED <<mode, viewed, onScreen, load, loading, edit, edits, cacheFaults>>

\* The refetchInterval of a query on the screen.
PollQuery ==
  /\ onScreen /\ viewed.polled /\ load = "none" /\ load' = "asked"
  /\ UNCHANGED <<mode, viewed, onScreen, view, loading, edit, edits, cacheFaults, unheard,
                 absorbed>>

LoadReads ==
  /\ load = "asked" /\ load' = "answered" /\ loading' = {}
  /\ UNCHANGED <<mode, viewed, onScreen, view, edit, edits, cacheFaults, unheard, absorbed>>

Unanswered(h, among) == \E e \in among : edit[e].hook = h /\ edit[e].pc = "done"

\* The answer makes the query fresh, also when it was invalidated after the answer was made.
LoadAnswers ==
  /\ load = "answered" /\ load' = "none" /\ loading' = {}
  /\ Showing([held |-> TRUE, stale |-> FALSE, lacks |-> loading])
  /\ absorbed' = {h \in loading : h \in absorbed \/ (view.stale /\ ~ Unanswered(h, EditSlots))}
  /\ UNCHANGED <<mode, viewed, onScreen, edit, edits, cacheFaults>>

\* A request that fails, or whose answer is lost, is tried once more.
LoadFails ==
  /\ load # "none" /\ cacheFaults < MaxCacheFaults /\ cacheFaults' = cacheFaults + 1
  /\ load' \in {"asked", "none"} /\ loading' = {}
  /\ UNCHANGED <<mode, viewed, onScreen, view, edit, edits, unheard, absorbed>>

\* Planted defect: only what is on the screen is asked for again.
InvalidatedOnScreen ==
  /\ IF onScreen /\ (view.held \/ load = "none")
       THEN view' = [view EXCEPT !.stale = TRUE] /\ load' = "asked" /\ loading' = {}
       ELSE UNCHANGED <<view, load, loading>>
  /\ UNCHANGED <<unheard, absorbed>>

\* invalidateQueries: a query on the screen is fetched again, instead of a fetch in flight if
\* there is data to show meanwhile.
Invalidated ==
  /\ view' = [view EXCEPT !.stale = TRUE]
  /\ IF onScreen /\ (view.held \/ load = "none")
       THEN load' = "asked" /\ loading' = {}
       ELSE UNCHANGED <<load, loading>>
  /\ UNCHANGED <<unheard, absorbed>>

\* setQueryData: the data is fresh, and a fetch in flight goes on.
Set(e) ==
  /\ Showing([held |-> TRUE, stale |-> FALSE, lacks |-> edit[e].lacks])
  /\ absorbed' = {h \in edit[e].lacks \cup loading : ~ Unanswered(h, EditSlots \ {e})}
  /\ UNCHANGED <<load, loading>>

-----------------------------------------------------------------------------
(* The edits of the user *)

\* mutate()
Submit(h) ==
  LET idle == {e \in EditSlots : edit[e].pc = "idle"} IN
  /\ idle # {} /\ edits < MaxEdits /\ edits' = edits + 1
  /\ edit' = [edit EXCEPT ![CHOOSE e \in idle : TRUE] =
                             [hook |-> h, pc |-> "sent", lacks |-> {}]]
  /\ UNCHANGED <<mode, viewed, onScreen, view, load, loading, cacheFaults, unheard, absorbed>>

\* The edit has its effect: data read before lacks it.
TakeEffect(e) ==
  LET h == edit[e].hook
      missed == {h} \cap viewed.affected IN
  /\ edit[e].pc = "sent"
  /\ view' = [view EXCEPT !.lacks = IF view.held THEN @ \cup missed ELSE @]
  /\ loading' = IF load = "answered" THEN loading \cup missed ELSE loading
  /\ edit' = [f \in EditSlots |-> IF f = e THEN [edit[e] EXCEPT !.pc = "done"]
                                  ELSE IF edit[f].pc = "done"
                                  THEN [edit[f] EXCEPT !.lacks = @ \cup missed] ELSE edit[f]]
  /\ unheard' = unheard \ missed /\ absorbed' = absorbed \ missed
  /\ UNCHANGED <<mode, viewed, onScreen, load, edits, cacheFaults>>

Free(e) == edit' = [edit EXCEPT ![e] = [hook |-> NoEdit, pc |-> "idle", lacks |-> {}]]

\* onSuccess
EditSucceeds(e) ==
  LET h == edit[e].hook IN
  /\ edit[e].pc = "done" /\ Free(e)
  /\ IF h \in viewed.refreshed THEN Invalidated
     ELSE IF h \in viewed.replaced THEN Set(e)
     ELSE UNCHANGED <<view, load, loading, unheard, absorbed>>
  /\ UNCHANGED <<mode, viewed, onScreen, edits, cacheFaults>>

\* onError: the request was refused or failed, or its answer is lost, and a message is shown.
EditFails(e) ==
  /\ edit[e].pc # "idle" /\ cacheFaults < MaxCacheFaults /\ cacheFaults' = cacheFaults + 1
  /\ unheard' = IF edit[e].pc # "done" THEN unheard
                ELSE unheard \cup ({edit[e].hook} \cap (view.lacks \cup loading))
  /\ Free(e)
  /\ UNCHANGED <<mode, viewed, onScreen, view, load, loading, edits, absorbed>>

\* An event of the realtime connection.
EventArrives(type) ==
  /\ Head(viewed.key) \in Events[type]
  /\ Invalidated
  /\ UNCHANGED <<mode, viewed, onScreen, edit, edits, cacheFaults>>

\* The cache is cleared when the user signs out; a fetch in flight has no query to fill.
ClearCache ==
  /\ Showing(Blank) /\ absorbed' = {}
  /\ onScreen' = FALSE /\ load' = "none" /\ loading' = {}
  /\ UNCHANGED <<mode, viewed, edit, edits, cacheFaults>>

PortalCacheNext ==
  \/ Mount \/ Unmount \/ Collect \/ PollQuery
  \/ LoadReads \/ LoadAnswers \/ LoadFails
  \/ \E h \in Related : Submit(h)
  \/ \E e \in EditSlots : TakeEffect(e) \/ EditSucceeds(e) \/ EditFails(e)
  \/ \E type \in DOMAIN Events : EventArrives(type)
  \/ ClearCache

PortalCacheSpec == PortalCacheInit /\ [][PortalCacheNext]_cacheVars

-----------------------------------------------------------------------------
(* Properties *)

\* The queries that an edit leaves behind: it changes what they show, and nothing asks for them
\* again until they are mounted after their staleTime.
LeftBehind ==
  LET counts  == {"useOrganizations", "useOrganization", "useLocations", "useLocation"}
      lists   == {"usePlaylists", "useZonePlaylists"}
      prayers == {"usePrayerConfig", "useTodayPrayerTimes"} IN
  [useDeleteOrganization      |-> {"useLocations", "useLocation", "useUsers", "useSession",
                                   "useSchedules", "useEqualizerPresets", "usePlaylist"}
                                    \cup lists \cup prayers,
   useDeleteLocation          |-> {"useUsers", "useSession", "useSchedules", "useZonePlaylists"}
                                    \cup prayers,
   useRegisterServer          |-> counts,
   useForgetServer            |-> counts \cup prayers \cup {"useSchedules"},
   useDeleteServer            |-> counts \cup prayers \cup {"useSchedules"},
   useDeleteZone              |-> {"useLocations", "useLocation", "useSchedules"},
   useUpdatePlaylistTracks    |-> lists,
   useAddTrackToPlaylist      |-> lists,
   useRemoveTrackFromPlaylist |-> lists,
   useDeletePlaylist          |-> {"useZonePlaylists", "useSchedules"},
   useDeleteTrack             |-> lists \cup {"usePlaylist"},
   useCreateSchedule          |-> {"useZonePlaylists"},
   useUpdateSchedule          |-> {"useZonePlaylists"},
   useUpdateUser              |-> {"useSession", "useTracks"},
   useDeleteUser              |-> {"useSession", "useTracks"}]

\* A query that an edit changes is asked for again after it, given its data, or polled, unless
\* the edit leaves it behind (the onSuccess of the hooks).
ASSUME EditsAccountedFor ==
  \A m \in {"real", "demo"}, hook \in DOMAIN Queries :
    LET q == About(hook, Queries[hook], Edits, m) IN
    \A h \in q.affected :
      \/ h \in q.refreshed \/ h \in q.replaced \/ q.polled
      \/ h \in DOMAIN LeftBehind /\ hook \in LeftBehind[h]

\* What the user has changed is on the screen, or on its way to it: a query that lacks an edit
\* is invalidated, and so asked for again, unless the edit is not yet answered or its answer
\* was lost, an answer made before the edit came after its invalidation, the query is polled,
\* or the edit is one that leaves the query behind (the onSuccess of the hooks, and
\* defaultOptions of providers.tsx).
OwnEditsShow ==
  \A h \in view.lacks :
    \/ view.stale \/ Unanswered(h, EditSlots) \/ h \in unheard \/ h \in absorbed
    \/ viewed.polled
    \/ h \in DOMAIN LeftBehind /\ viewed.hook \in LeftBehind[h]
=============================================================================
