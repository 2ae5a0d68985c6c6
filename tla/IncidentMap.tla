---------------------------- MODULE IncidentMap ----------------------------
(* The incident of Incidents.tla on the map of one browser                 *)
(* (apps/pwa/src/pages/MapPage.tsx).  The map shows what its last          *)
(* GET /incidents answered, corrected by the incident:created and          *)
(* incident:updated events of its socket.  Loads carry no request number,  *)
(* events carry no version check, a DELETE emits nothing and a socket that *)
(* reconnects loads nothing, so a marker may differ from the row.  The     *)
(* history variable apart remembers that one of the ways has happened:     *)
(* an event lost or emitted out of order, a deletion, an update that puts  *)
(* back an incident the map had not listed, an event and an answer, or two *)
(* answers, that passed each other, a failed load.  Only a load that       *)
(* nothing disturbed clears it.                                            *)
EXTENDS Incidents, Sequences

CONSTANTS
    Loads,       \* GET /incidents requests this page can have in flight
    MaxMoves,    \* bound on the moves of the map
    MaxFaults    \* bound on lost events and failed loads

VARIABLES
    created,     \* POST /incidents has committed the row
    announce,    \* events whose handler has committed and not yet emitted
    line,        \* events emitted to this socket, in order
    inside,      \* the bounds of the map contain the incident
    due,         \* a load is scheduled: on mount, or 800 ms after a move
    load,        \* load[l]: a fetchIncidents call
    markers,     \* the incidents state: copies of the row, the first on top
    spent,       \* moves and faults so far
    apart        \* the markers may differ from the row

server == <<created, announce>>
page   == <<inside, due, markers>>
mapVars == <<vars, server, page, line, load, spent, apart>>

Row == [status |-> status, version |-> version]

\* what GET /incidents?status=unverified lists within the bounds asked for
Listing(within) ==
    IF created /\ ~deleted /\ status = "unverified" /\ within THEN <<Row>> ELSE <<>>

\* within: the bounds asked for contain the incident, rows: the answer, blur:
\* something has happened that the answer does not reflect
Load(pc, within, rows, blur) ==
    [pc |-> pc, within |-> within, rows |-> rows, blur |-> blur]
NoLoad == Load("idle", TRUE, <<>>, FALSE)

InFlight(l) == load[l].pc \in {"asked", "answered"}

MapInit ==
    /\ Init
    /\ created = FALSE /\ announce = {}
    /\ line = <<>>
    /\ inside = TRUE /\ due = TRUE
    /\ load = [l \in Loads |-> NoLoad]
    /\ markers = <<>>
    /\ spent = [moves |-> 0, faults |-> 0]
    /\ apart = FALSE

Moving ==
    /\ spent.moves < MaxMoves
    /\ spent' = [spent EXCEPT !.moves = @ + 1]

Failing ==
    /\ spent.faults < MaxFaults
    /\ spent' = [spent EXCEPT !.faults = @ + 1]

\* c: the answers already read may differ from the row by now
Spoil(c) ==
    load' = [l \in Loads |-> IF load[l].pc = "answered"
                             THEN [load[l] EXCEPT !.blur = @ \/ c] ELSE load[l]]

\* c: so may the markers
Blurred(c) == apart' = (apart \/ c) /\ Spoil(c)

----------------------------------------------------------------------------
(* The API                                                                 *)

Post ==
    /\ ~created
    /\ created' = TRUE
    /\ announce' = {[event |-> "created", copy |-> Row]}
    /\ UNCHANGED <<vars, page, line, load, spent, apart>>

\* PATCH emits what its update returned
PatchRow(s) ==
    /\ created
    /\ \/ /\ PatchCommit(s)
          /\ announce' = announce \union {[event |-> "updated", copy |-> Row']}
       \/ /\ \/ \E u \in Editors, new \in Status \union {NoChange} :
                    PatchRead(s, u, new)
             \/ PatchConflict(s)
             \/ Abort(s)
          /\ UNCHANGED announce
    /\ UNCHANGED <<created, page, line, load, spent, apart>>

DeleteRow(s) ==
    /\ created
    /\ \/ DeleteRead(s) /\ UNCHANGED <<load, apart>>
       \/ DeleteWrite(s) /\ Blurred(TRUE)
    /\ UNCHANGED <<server, page, line, spent>>

\* emitToNearby: every connected socket whose area contains the incident; this
\* one may be down, or belong to a user who has moved away
Emit(e) ==
    /\ e \in announce
    /\ announce' = announce \ {e}
    /\ \/ /\ line' = Append(line, e)
          /\ Blurred(\E o \in announce : o.copy.version < e.copy.version)
          /\ UNCHANGED spent
       \/ /\ Failing
          /\ Blurred(TRUE)
          /\ UNCHANGED line
    /\ UNCHANGED <<vars, created, page>>

----------------------------------------------------------------------------
(* The socket                                                              *)

\* the connection drops with events on their way; nothing is loaded when it
\* comes back
Disconnect ==
    /\ line # <<>>
    /\ Failing
    /\ line' = <<>>
    /\ Blurred(TRUE)
    /\ UNCHANGED <<vars, server, page>>

\* mutants: incident:created is not listened to, incident:updated adds a copy
ShownCreatedDropped(e) ==
    IF e.event = "created" THEN markers ELSE [i \in DOMAIN markers |-> e.copy]
ShownUpdatedPrepended(e) == <<e.copy>> \o markers

\* setIncidents of the two listeners
Shown(e) ==
    IF e.event = "created" THEN <<e.copy>> \o markers
    ELSE [i \in DOMAIN markers |-> e.copy]

Hear ==
    /\ line # <<>>
    /\ LET e == Head(line)
           unlisted == /\ e.event = "updated" /\ e.copy.status = "unverified"
                       /\ markers = <<>>
       IN markers' = Shown(e) /\ apart' = (apart \/ unlisted)
    /\ line' = Tail(line)
    /\ Spoil(TRUE)
    /\ UNCHANGED <<vars, server, inside, due, spent>>

----------------------------------------------------------------------------
(* Loading                                                                 *)

\* handleMapMove: the timer is set again
Move ==
    /\ Moving
    /\ inside' \in BOOLEAN
    /\ due' = TRUE
    /\ UNCHANGED <<vars, server, markers, line, load, apart>>

Ask(l) ==
    /\ due
    /\ load[l] = NoLoad
    /\ due' = FALSE
    /\ load' = [load EXCEPT ![l] = Load("asked", inside, <<>>, FALSE)]
    /\ UNCHANGED <<vars, server, inside, markers, line, spent, apart>>

\* the findMany of GET /incidents
Answer(l) ==
    /\ load[l].pc = "asked"
    /\ load' = [load EXCEPT ![l] =
           Load("answered", @.within, Listing(@.within),
                @.blur \/ announce # {} \/ line # <<>>)]
    /\ UNCHANGED <<vars, server, page, line, spent, apart>>

\* .catch(() => null) and "?? []": an error, or 15 s without an answer, reads
\* as an empty list
Fail(l) ==
    /\ InFlight(l) /\ Failing
    /\ load' = [load EXCEPT ![l] = Load("answered", @.within, <<>>, TRUE)]
    /\ UNCHANGED <<vars, server, page, line, apart>>

\* setIncidents(data); an answer that nothing disturbed is the row
ShowAs(l, shown) ==
    /\ load[l].pc = "answered"
    /\ markers' = shown
    /\ apart' = ((apart /\ ~load[l].within) \/ load[l].blur)
    /\ load' = [k \in Loads |->
           IF k = l THEN NoLoad
           ELSE IF InFlight(k) THEN [load[k] EXCEPT !.blur = TRUE] ELSE load[k]]
    /\ UNCHANGED <<vars, server, inside, due, line, spent>>

\* mutant: an empty answer is taken for no answer
ShowKept(l) == ShowAs(l, IF load[l].rows = <<>> THEN markers ELSE load[l].rows)

Show(l) == ShowAs(l, load[l].rows)

MapNext ==
    \/ Post
    \/ \E s \in Slots : PatchRow(s) \/ DeleteRow(s)
    \/ \E e \in announce : Emit(e)
    \/ Disconnect \/ Hear \/ Move
    \/ \E l \in Loads : Ask(l) \/ Answer(l) \/ Fail(l) \/ Show(l)

MapSpec == MapInit /\ [][MapNext]_mapVars

----------------------------------------------------------------------------
\* no event on its way, no load under way or scheduled
Settled ==
    /\ announce = {} /\ line = <<>> /\ ~due
    /\ \A l \in Loads : ~InFlight(l)

(* When everything announced has been heard and every load has been shown, *)
(* a map that contains the incident shows it once, at the version in the   *)
(* table (or not at all, if moderation has taken it off the listing),      *)
(* unless one of the ways above has happened since the last load that      *)
(* nothing disturbed.  Whatever the interleaving, such a load repairs the  *)
(* map, and there is no other way of being wrong.                          *)
MarkersAreCurrent ==
    Settled /\ inside /\ ~apart =>
        \/ markers = Listing(TRUE)
        \/ created /\ ~deleted /\ status # "unverified" /\ markers = <<Row>>

Regress ==
    /\ markers # <<>> \/ deleted
    /\ \E i \in DOMAIN markers' : \A j \in DOMAIN markers :
          markers'[i].version < markers[j].version

(* A marker goes back to an older version of the incident, or a deleted    *)
(* incident comes back to an empty map, only after one of those ways:      *)
(* hearing and loading in their ordinary course move the map forward, even *)
(* between two loads and while events are still on their way.              *)
BackwardsForACause == [][Regress => apart']_mapVars
============================================================================
