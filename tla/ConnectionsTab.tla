----------------------------- MODULE ConnectionsTab -----------------------------
(***************************************************************************)
(* The tab of the connections (ConnectionsTab.vue): the active list, which *)
(* it loads when it is mounted, the deleted list, which it loads when it   *)
(* is shown for the first time, and the handlers that patch both with the  *)
(* answers of the requests.                                                *)
(***************************************************************************)
EXTENDS Resources

VARIABLES
    connections, deletedConnections,
    showDeleted, deletedLoaded,
    listLoading, deletedLoading, createLoading, editLoading,
    editingId, deletingId, restoringId

connLists == <<connections, deletedConnections>>
connFlags == <<showDeleted, deletedLoaded, listLoading, deletedLoading, createLoading,
               editLoading, editingId, deletingId, restoringId>>
connTabVars == <<connLists, connFlags>>

ConnTabTypeOK ==
    /\ {connections, deletedConnections} \subseteq SUBSET Dto
    /\ {showDeleted, deletedLoaded, listLoading, deletedLoading, createLoading, editLoading}
           \subseteq BOOLEAN
    /\ {editingId, deletingId, restoringId} \subseteq Conn \cup {NoId}

ConnTabFresh ==
    /\ connections = {}
    /\ deletedConnections = {}
    /\ showDeleted = FALSE /\ deletedLoaded = FALSE
    /\ listLoading = FALSE /\ deletedLoading = FALSE
    /\ createLoading = FALSE /\ editLoading = FALSE
    /\ editingId = NoId /\ deletingId = NoId /\ restoringId = NoId

ConnTabReset ==
    /\ connections' = {}
    /\ deletedConnections' = {}
    /\ showDeleted' = FALSE /\ deletedLoaded' = FALSE
    /\ listLoading' = FALSE /\ deletedLoading' = FALSE
    /\ createLoading' = FALSE /\ editLoading' = FALSE
    /\ editingId' = NoId /\ deletingId' = NoId /\ restoringId' = NoId

Ids(dtos) == {d.id : d \in dtos}
Without(dtos, id) == {d \in dtos : d.id # id}

------------------------------------------------------------------------------
(* The user.                                                               *)

ConnTabMounts(s) ==
    /\ Send(s, Request("listActive", NoId, NoId, "nothing"))
    /\ listLoading' = TRUE
    /\ UNCHANGED <<connLists, showDeleted, deletedLoaded, deletedLoading, createLoading,
                   editLoading, editingId, deletingId, restoringId>>

CreateForm == ~createLoading

\* With a name and all the fields of the provider.
HandleCreate(s) ==
    /\ CreateForm
    /\ createLoading' = TRUE
    /\ \E c \in Conn, v \in Value :
           /\ conn[c].state = "new" /\ ~Busy(c)
           /\ Send(s, Request("createConn", c, v, "nothing"))
    /\ UNCHANGED <<connLists, showDeleted, deletedLoaded, listLoading, deletedLoading,
                   editLoading, editingId, deletingId, restoringId>>

OpenEdit(c) ==
    /\ c \in Ids(connections)
    /\ editingId' \in {c, NoId}
    /\ editingId' # editingId
    /\ UNCHANGED <<connLists, showDeleted, deletedLoaded, listLoading, deletedLoading,
                   createLoading, editLoading, deletingId, restoringId>>

\* The form of a row, filled with what the list holds.
EditForm == editingId \in Ids(connections) /\ ~editLoading

HandleEdit(s) ==
    /\ EditForm
    /\ editLoading' = TRUE
    /\ \E v \in Value : Send(s, Request("edit", editingId, v, "nothing"))
    /\ UNCHANGED <<connLists, showDeleted, deletedLoaded, listLoading, deletedLoading,
                   createLoading, editingId, deletingId, restoringId>>

HandleDelete(s, c) ==
    /\ c \in Ids(connections)
    /\ deletingId # c
    /\ deletingId' = c
    /\ Send(s, Request("deleteConn", c, NoId, "nothing"))
    /\ UNCHANGED <<connLists, showDeleted, deletedLoaded, listLoading, deletedLoading,
                   createLoading, editLoading, editingId, restoringId>>

HandleRestore(s, c) ==
    /\ showDeleted
    /\ c \in Ids(deletedConnections)
    /\ restoringId # c
    /\ restoringId' = c
    /\ Send(s, Request("restore", c, NoId, "nothing"))
    /\ UNCHANGED <<connLists, showDeleted, deletedLoaded, listLoading, deletedLoading,
                   createLoading, editLoading, editingId, deletingId>>

\* The deleted list is loaded once.
LoadsDeleted == ~showDeleted /\ ~deletedLoaded

ToggleDeleted(s) ==
    /\ showDeleted' = ~showDeleted
    /\ IF LoadsDeleted
       THEN /\ Send(s, Request("listDeleted", NoId, NoId, "nothing"))
            /\ deletedLoading' = TRUE
       ELSE UNCHANGED <<req, doubtful, deletedLoading>>
    /\ UNCHANGED <<connLists, deletedLoaded, listLoading, createLoading, editLoading,
                   editingId, deletingId, restoringId>>

------------------------------------------------------------------------------
(* Answers.                                                                *)

Ok(s) == req[s].answer = "ok"

ListActiveAnswered(s) ==
    /\ req[s].op = "listActive"
    /\ connections' = IF Ok(s) THEN req[s].result ELSE connections
    /\ listLoading' = FALSE
    /\ UNCHANGED <<deletedConnections, showDeleted, deletedLoaded, deletedLoading,
                   createLoading, editLoading, editingId, deletingId, restoringId>>

ListDeletedAnswered(s) ==
    /\ req[s].op = "listDeleted"
    /\ deletedConnections' = IF Ok(s) THEN req[s].result ELSE deletedConnections
    /\ deletedLoaded' = (deletedLoaded \/ Ok(s))
    /\ deletedLoading' = FALSE
    /\ UNCHANGED <<connections, showDeleted, listLoading, createLoading, editLoading,
                   editingId, deletingId, restoringId>>

CreateAnswered(s) ==
    /\ req[s].op = "createConn"
    /\ connections' = connections \cup req[s].result
    /\ createLoading' = FALSE
    /\ UNCHANGED <<deletedConnections, showDeleted, deletedLoaded, listLoading, deletedLoading,
                   editLoading, editingId, deletingId, restoringId>>

\* The form that is open is closed, whichever row it is of.
EditAnswered(s) ==
    /\ req[s].op = "edit"
    /\ connections' = IF Ok(s) /\ req[s].id \in Ids(connections)
                      THEN Without(connections, req[s].id) \cup req[s].result ELSE connections
    /\ editingId' = IF Ok(s) THEN NoId ELSE editingId
    /\ editLoading' = FALSE
    /\ UNCHANGED <<deletedConnections, showDeleted, deletedLoaded, listLoading, deletedLoading,
                   createLoading, deletingId, restoringId>>

\* Mutant of DeleteAnswered: the deleted list is patched before it is loaded,
\* and not after.
DeleteAnsweredEarly(s) ==
    /\ req[s].op = "deleteConn"
    /\ connections' = IF Ok(s) THEN Without(connections, req[s].id) ELSE connections
    /\ deletedConnections' =
           IF Ok(s) /\ ~deletedLoaded
           THEN deletedConnections \cup {d \in connections : d.id = req[s].id}
           ELSE deletedConnections
    /\ deletingId' = NoId
    /\ UNCHANGED <<showDeleted, deletedLoaded, listLoading, deletedLoading, createLoading,
                   editLoading, editingId, restoringId>>

DeleteAnswered(s) ==
    /\ req[s].op = "deleteConn"
    /\ connections' = IF Ok(s) THEN Without(connections, req[s].id) ELSE connections
    /\ deletedConnections' =
           IF Ok(s) /\ deletedLoaded
           THEN deletedConnections \cup {d \in connections : d.id = req[s].id}
           ELSE deletedConnections
    /\ deletingId' = NoId
    /\ UNCHANGED <<showDeleted, deletedLoaded, listLoading, deletedLoading, createLoading,
                   editLoading, editingId, restoringId>>

RestoreAnswered(s) ==
    /\ req[s].op = "restore"
    /\ connections' = connections \cup req[s].result
    /\ deletedConnections' = IF Ok(s) THEN Without(deletedConnections, req[s].id)
                             ELSE deletedConnections
    /\ restoringId' = NoId
    /\ UNCHANGED <<showDeleted, deletedLoaded, listLoading, deletedLoading, createLoading,
                   editLoading, editingId, deletingId>>

ConnTabAnswered(s) ==
    \/ ListActiveAnswered(s)
    \/ ListDeletedAnswered(s)
    \/ CreateAnswered(s)
    \/ EditAnswered(s)
    \/ DeleteAnswered(s)
    \/ RestoreAnswered(s)

------------------------------------------------------------------------------
ConnTabQuiet ==
    /\ ~listLoading /\ ~deletedLoading /\ ~createLoading /\ ~editLoading
    /\ deletingId = NoId /\ restoringId = NoId

\* Both lists are those of the database.
ConnTabAgrees ==
    /\ connections = {DtoOf(c) : c \in {d \in Conn : conn[d].state = "live"}}
    /\ deletedLoaded =>
           deletedConnections = {DtoOf(c) : c \in {d \in Conn : conn[d].state = "deleted"}}
==============================================================================
