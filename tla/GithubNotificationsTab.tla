------------------------- MODULE GithubNotificationsTab -------------------------
(***************************************************************************)
(* The tab of the notifications (GithubNotificationsTab.vue): the sources, *)
(* the one that is selected and its subscriptions.  A load of the          *)
(* subscriptions may be awaited by the handler that started it:            *)
(*                                                                         *)
(*    mounting  --> overview     --> load --> sourcesLoading is cleared    *)
(*    removing  --> deleteSource --> load --> deletingSourceId is cleared  *)
(*                                                                         *)
(* Which source comes first in the list is left open.                      *)
(***************************************************************************)
EXTENDS Resources

VARIABLES
    sources, channels, selectedSourceId, subscriptions,
    sourcesLoading, sourceLoading, subsLoading, subLoading,
    deletingSourceId, deletingSubId

subTabLists == <<sources, channels, selectedSourceId, subscriptions>>
subTabFlags == <<sourcesLoading, sourceLoading, subsLoading, subLoading, deletingSourceId,
                 deletingSubId>>
subTabVars == <<subTabLists, subTabFlags>>

SubTabTypeOK ==
    /\ sources \subseteq Source
    /\ channels \subseteq Conn
    /\ selectedSourceId \in Source \cup {NoId}
    /\ subscriptions \subseteq Sub
    /\ {sourcesLoading, sourceLoading, subsLoading, subLoading} \subseteq BOOLEAN
    /\ deletingSourceId \in Source \cup {NoId}
    /\ deletingSubId \in Sub \cup {NoId}
    /\ \A s \in Slot : req[s].then \in {"nothing", "overview", "deletion"}

SubTabFresh ==
    /\ sources = {} /\ channels = {} /\ selectedSourceId = NoId /\ subscriptions = {}
    /\ sourcesLoading = FALSE /\ sourceLoading = FALSE
    /\ subsLoading = FALSE /\ subLoading = FALSE
    /\ deletingSourceId = NoId /\ deletingSubId = NoId

SubTabReset ==
    /\ sources' = {} /\ channels' = {} /\ selectedSourceId' = NoId /\ subscriptions' = {}
    /\ sourcesLoading' = FALSE /\ sourceLoading' = FALSE
    /\ subsLoading' = FALSE /\ subLoading' = FALSE
    /\ deletingSourceId' = NoId /\ deletingSubId' = NoId

------------------------------------------------------------------------------
(* The user.                                                               *)

SubTabMounts(s) ==
    /\ Send(s, Request("overview", NoId, NoId, "nothing"))
    /\ sourcesLoading' = TRUE
    /\ UNCHANGED <<subTabLists, sourceLoading, subsLoading, subLoading, deletingSourceId,
                   deletingSubId>>

SelectSource(s, t) ==
    /\ t \in sources
    /\ selectedSourceId' = t
    /\ Send(s, Request("listSubs", NoId, t, "nothing"))
    /\ subsLoading' = TRUE
    /\ UNCHANGED <<sources, channels, subscriptions, sourcesLoading, sourceLoading, subLoading,
                   deletingSourceId, deletingSubId>>

SourceForm == ~sourceLoading

HandleCreateSource(s) ==
    /\ SourceForm
    /\ sourceLoading' = TRUE
    /\ \E t \in Source :
           /\ source[t] = "new" /\ ~Busy(t)
           /\ Send(s, Request("createSource", t, NoId, "nothing"))
    /\ UNCHANGED <<subTabLists, sourcesLoading, subsLoading, subLoading, deletingSourceId,
                   deletingSubId>>

HandleDeleteSource(s, t) ==
    /\ t \in sources
    /\ deletingSourceId # t
    /\ deletingSourceId' = t
    /\ Send(s, Request("deleteSource", t, NoId, "nothing"))
    /\ UNCHANGED <<subTabLists, sourcesLoading, sourceLoading, subsLoading, subLoading,
                   deletingSubId>>

\* The form offers the channels that were loaded.
SubForm == sources # {} /\ channels # {} /\ ~subLoading

\* For the source that is selected when the form is sent.
HandleCreateSub(s) ==
    /\ SubForm
    /\ selectedSourceId # NoId
    /\ subLoading' = TRUE
    /\ \E u \in Sub :
           /\ sub[u].state = "new" /\ ~Busy(u)
           /\ Send(s, Request("createSub", u, selectedSourceId, "nothing"))
    /\ UNCHANGED <<subTabLists, sourcesLoading, sourceLoading, subsLoading, deletingSourceId,
                   deletingSubId>>

HandleDeleteSub(s, u) ==
    /\ sources # {}
    /\ u \in subscriptions
    /\ deletingSubId # u
    /\ deletingSubId' = u
    /\ Send(s, Request("deleteSub", u, NoId, "nothing"))
    /\ UNCHANGED <<subTabLists, sourcesLoading, sourceLoading, subsLoading, subLoading,
                   deletingSourceId>>

------------------------------------------------------------------------------
(* Answers.                                                                *)

Granted(s) == req[s].answer = "ok"

\* The slot of an answer is free, or goes to the load that follows it.
Released(s) ==
    /\ req' = [req EXCEPT ![s] = NoRequest]
    /\ UNCHANGED doubtful

LoadSubscriptions(s, t, then) ==
    /\ selectedSourceId' = t
    /\ subsLoading' = TRUE
    /\ req' = [req EXCEPT ![s] = Request("listSubs", NoId, t, then)]
    /\ doubtful' = (doubtful \/ \E r \in Slot \ {s} : InFlight(r))

\* A failed overview is not loaded again.
OverviewAnswered(s) ==
    /\ req[s].op = "overview"
    /\ sources' = IF Granted(s) THEN req[s].result \cap Source ELSE sources
    /\ channels' = IF Granted(s) THEN req[s].result \cap Conn ELSE channels
    /\ IF Granted(s) /\ sources' # {}
       THEN /\ \E t \in sources' : LoadSubscriptions(s, t, "overview")
            /\ UNCHANGED sourcesLoading
       ELSE /\ sourcesLoading' = FALSE
            /\ req' = [req EXCEPT ![s] = NoRequest]
            /\ doubtful' = (doubtful \/ ~Granted(s))
            /\ UNCHANGED <<selectedSourceId, subsLoading>>
    /\ UNCHANGED <<subscriptions, sourceLoading, subLoading, deletingSourceId, deletingSubId>>

\* Mutant of SubsAnswered: the handler that awaited the load is not resumed.
SubsAnsweredAlone(s) ==
    /\ req[s].op = "listSubs"
    /\ subscriptions' = IF Granted(s) THEN req[s].result ELSE subscriptions
    /\ subsLoading' = FALSE
    /\ req' = [req EXCEPT ![s] = NoRequest]
    /\ doubtful' = (doubtful \/ ~Granted(s))
    /\ UNCHANGED <<sources, channels, selectedSourceId, sourceLoading, subLoading, sourcesLoading,
                   deletingSourceId, deletingSubId>>

\* A failed load leaves what was shown before.
SubsAnswered(s) ==
    /\ req[s].op = "listSubs"
    /\ subscriptions' = IF Granted(s) THEN req[s].result ELSE subscriptions
    /\ subsLoading' = FALSE
    /\ sourcesLoading' = (sourcesLoading /\ req[s].then # "overview")
    /\ deletingSourceId' = IF req[s].then = "deletion" THEN NoId ELSE deletingSourceId
    /\ req' = [req EXCEPT ![s] = NoRequest]
    /\ doubtful' = (doubtful \/ ~Granted(s))
    /\ UNCHANGED <<sources, channels, selectedSourceId, sourceLoading, subLoading, deletingSubId>>

\* The first source is selected.
CreateSourceAnswered(s) ==
    /\ req[s].op = "createSource"
    /\ sources' = IF Granted(s) THEN sources \cup {req[s].id} ELSE sources
    /\ sourceLoading' = FALSE
    /\ IF Granted(s) /\ selectedSourceId = NoId
       THEN LoadSubscriptions(s, req[s].id, "nothing")
       ELSE Released(s) /\ UNCHANGED <<selectedSourceId, subsLoading>>
    /\ UNCHANGED <<channels, subscriptions, sourcesLoading, subLoading, deletingSourceId,
                   deletingSubId>>

\* Mutant of DeleteSourceAnswered: the selection stays.
DeleteSourceAnsweredKeeps(s) ==
    /\ req[s].op = "deleteSource"
    /\ sources' = IF Granted(s) THEN sources \ {req[s].id} ELSE sources
    /\ deletingSourceId' = NoId
    /\ Released(s)
    /\ UNCHANGED <<channels, selectedSourceId, subscriptions, sourcesLoading, sourceLoading,
                   subsLoading, subLoading, deletingSubId>>

\* When the selected source goes, another is selected, if there is one.
DeleteSourceAnswered(s) ==
    /\ req[s].op = "deleteSource"
    /\ sources' = IF Granted(s) THEN sources \ {req[s].id} ELSE sources
    /\ \/ /\ Granted(s) /\ selectedSourceId = req[s].id /\ sources' # {}
          /\ \E t \in sources' : LoadSubscriptions(s, t, "deletion")
          /\ UNCHANGED <<subscriptions, deletingSourceId>>
       \/ /\ Granted(s) /\ selectedSourceId = req[s].id /\ sources' = {}
          /\ selectedSourceId' = NoId
          /\ subscriptions' = {}
          /\ deletingSourceId' = NoId
          /\ Released(s)
          /\ UNCHANGED subsLoading
       \/ /\ ~Granted(s) \/ selectedSourceId # req[s].id
          /\ deletingSourceId' = NoId
          /\ Released(s)
          /\ UNCHANGED <<selectedSourceId, subscriptions, subsLoading>>
    /\ UNCHANGED <<channels, sourcesLoading, sourceLoading, subLoading, deletingSubId>>

\* It is added to the list that is shown.
CreateSubAnswered(s) ==
    /\ req[s].op = "createSub"
    /\ subscriptions' = IF Granted(s) THEN subscriptions \cup {req[s].id} ELSE subscriptions
    /\ subLoading' = FALSE
    /\ Released(s)
    /\ UNCHANGED <<sources, channels, selectedSourceId, sourcesLoading, sourceLoading, subsLoading,
                   deletingSourceId, deletingSubId>>

DeleteSubAnswered(s) ==
    /\ req[s].op = "deleteSub"
    /\ subscriptions' = IF Granted(s) THEN subscriptions \ {req[s].id} ELSE subscriptions
    /\ deletingSubId' = NoId
    /\ Released(s)
    /\ UNCHANGED <<sources, channels, selectedSourceId, sourcesLoading, sourceLoading, subsLoading,
                   subLoading, deletingSourceId>>

SubTabAnswered(s) ==
    \/ OverviewAnswered(s)
    \/ SubsAnswered(s)
    \/ CreateSourceAnswered(s)
    \/ DeleteSourceAnswered(s)
    \/ CreateSubAnswered(s)
    \/ DeleteSubAnswered(s)

------------------------------------------------------------------------------
SubTabQuiet ==
    /\ ~sourcesLoading /\ ~sourceLoading /\ ~subsLoading /\ ~subLoading
    /\ deletingSourceId = NoId /\ deletingSubId = NoId

\* The sources are those of the database, one of them is selected if there is
\* any, and the subscriptions shown are those of the selected source.
SubTabAgrees ==
    /\ sources = {t \in Source : source[t] = "stored"}
    /\ sources # {} => selectedSourceId \in sources
    /\ sources = {} => selectedSourceId = NoId
    /\ subscriptions = {u \in Sub : sub[u] = [state |-> "stored", source |-> selectedSourceId]}
==============================================================================
