-------------------------- MODULE IncidentsProofs --------------------------
(* The incident row keeps its promises for any number of editors, requests *)
(* in flight and edits.  The inductive invariant is TypeOK /\ SnapshotHolds*)
(* (/\ JudgedByKnownUser): SnapshotHolds is what lets PatchCommit conclude *)
(* from "the version has not moved" that the transition checked against an *)
(* earlier read is legal from the status being overwritten.                *)
(*                                                                         *)
(* A browser's map of it is right when the model says so, for any number   *)
(* of loads, moves and faults.  There the inductive invariant is MapInv:   *)
(* while nothing is in doubt the pending events, in the order of their     *)
(* commits, lead from what the map shows to the row, and so they do from   *)
(* every answer that may yet be shown and leave the map without doubt.     *)
EXTENDS IncidentMap, TLAPS

(* Every value the handlers store has the type of its column or field.     *)
THEOREM TypeCorrect == Spec => []TypeOK
<1>1. Init => TypeOK
  <2> SUFFICES ASSUME Init PROVE TypeOK
    OBVIOUS
  <2>1. Idle \in [pc   : {"idle", "commit", "delete"},
                  by   : Editors \union {NoUser},
                  want : Status \union {NoChange},
                  seen : Status,
                  ver  : Nat]
    BY DEF Idle, Status
  <2> QED
    BY <2>1 DEF Init, TypeOK, Status
<1>2. TypeOK /\ [Next]_vars => TypeOK'
  <2> SUFFICES ASSUME TypeOK, [Next]_vars PROVE TypeOK'
    OBVIOUS
  <2> USE DEF TypeOK, Finish, Idle, Status
  <2>1. ASSUME NEW s \in Slots, NEW u \in Editors,
               NEW new \in Status \union {NoChange}, PatchRead(s, u, new)
        PROVE  TypeOK'
    BY <2>1 DEF PatchRead
  <2>2. ASSUME NEW s \in Slots, PatchCommit(s) PROVE TypeOK'
    BY <2>2 DEF PatchCommit
  <2>3. ASSUME NEW s \in Slots, PatchConflict(s) PROVE TypeOK'
    BY <2>3 DEF PatchConflict
  <2>4. ASSUME NEW s \in Slots, DeleteRead(s) PROVE TypeOK'
    BY <2>4 DEF DeleteRead
  <2>5. ASSUME NEW s \in Slots, DeleteWrite(s) PROVE TypeOK'
    BY <2>5 DEF DeleteWrite
  <2>6. ASSUME NEW s \in Slots, Abort(s) PROVE TypeOK'
    BY <2>6 DEF Abort
  <2>7. CASE UNCHANGED vars
    BY <2>7 DEF vars
  <2> QED
    BY <2>1, <2>2, <2>3, <2>4, <2>5, <2>6, <2>7 DEF Next, Patch, Delete
<1> QED
  BY <1>1, <1>2, PTL DEF Spec

(* A request in flight whose version is still current validated its        *)
(* transition against the current status.                                  *)
THEOREM SnapshotCorrect == Spec => []SnapshotHolds
<1>1. Init => SnapshotHolds
  BY DEF Init, SnapshotHolds, Idle
<1>2. TypeOK /\ SnapshotHolds /\ [Next]_vars => SnapshotHolds'
  <2> SUFFICES ASSUME TypeOK, SnapshotHolds, [Next]_vars PROVE SnapshotHolds'
    OBVIOUS
  <2> USE DEF TypeOK, SnapshotHolds, Finish, Idle
  <2>1. ASSUME NEW s \in Slots, NEW u \in Editors,
               NEW new \in Status \union {NoChange}, PatchRead(s, u, new)
        PROVE  SnapshotHolds'
    BY <2>1, ConstantsAssumption DEF PatchRead
  \* a commit moves the version past what every other request in flight read
  <2>2. ASSUME NEW s \in Slots, PatchCommit(s) PROVE SnapshotHolds'
    BY <2>2 DEF PatchCommit
  <2>3. ASSUME NEW s \in Slots, PatchConflict(s) PROVE SnapshotHolds'
    BY <2>3 DEF PatchConflict
  <2>4. ASSUME NEW s \in Slots, DeleteRead(s) PROVE SnapshotHolds'
    BY <2>4 DEF DeleteRead
  <2>5. ASSUME NEW s \in Slots, DeleteWrite(s) PROVE SnapshotHolds'
    BY <2>5 DEF DeleteWrite
  <2>6. ASSUME NEW s \in Slots, Abort(s) PROVE SnapshotHolds'
    BY <2>6 DEF Abort
  <2>7. CASE UNCHANGED vars
    BY <2>7 DEF vars
  <2> QED
    BY <2>1, <2>2, <2>3, <2>4, <2>5, <2>6, <2>7 DEF Next, Patch, Delete
<1> QED
  BY <1>1, <1>2, TypeCorrect, PTL DEF Spec

(* Whatever requests overlap, an incident that left "unverified" names the *)
(* user who judged it: the only edges out of "unverified" record one, and  *)
(* SnapshotHolds says that an edge into "resolved" was taken from a status *)
(* that already had one.                                                   *)
THEOREM JudgeRecorded == Spec => []JudgedByKnownUser
<1>1. Init => JudgedByKnownUser
  BY DEF Init, JudgedByKnownUser
<1>2. /\ TypeOK /\ SnapshotHolds /\ JudgedByKnownUser
      /\ [Next]_vars
      => JudgedByKnownUser'
  <2> SUFFICES ASSUME TypeOK, SnapshotHolds, JudgedByKnownUser, [Next]_vars
               PROVE  JudgedByKnownUser'
    OBVIOUS
  <2> USE DEF JudgedByKnownUser
  <2>1. ASSUME NEW s \in Slots, PatchCommit(s) PROVE JudgedByKnownUser'
    <3>1. CASE op[s].want \in {"verified", "false_report"}
      BY <2>1, <3>1 DEF PatchCommit, TypeOK, SnapshotHolds
    <3>2. CASE op[s].want = NoChange
      BY <2>1, <3>2, NoChangeAssumption DEF PatchCommit, Status
    <3>3. CASE op[s].want \in {"unverified", "resolved"}
      BY <2>1, <3>3 DEF PatchCommit, TypeOK, SnapshotHolds, Status,
                        ValidTransition, Transitions
    <3> QED
      BY <3>1, <3>2, <3>3, <2>1 DEF TypeOK, Status
  <2>2. ASSUME ~\E s \in Slots : PatchCommit(s) PROVE JudgedByKnownUser'
    BY <2>2 DEF Next, Patch, Delete, PatchRead, PatchConflict, DeleteRead,
                DeleteWrite, Abort, vars
  <2> QED
    BY <2>1, <2>2
<1> QED
  BY <1>1, <1>2, TypeCorrect, SnapshotCorrect, PTL DEF Spec

(* The HTTP handlers, with their reads and writes apart, implement the     *)
(* atomic lifecycle: each commit is one edge of the transition table taken *)
(* from the status it overwrites, and a deletion withdraws the incident    *)
(* once; every other step leaves the reader's view alone.                  *)
THEOREM ImplementsLifecycle == Spec => LifecycleSpec
<1>1. Init => Life!Init
  BY DEF Init, Life!Init
<1>2. TypeOK /\ SnapshotHolds /\ [Next]_vars => [Life!Next]_(Life!vars)
  <2> SUFFICES ASSUME TypeOK, SnapshotHolds, [Next]_vars
               PROVE  [Life!Next]_(Life!vars)
    OBVIOUS
  <2> USE DEF Life!Next, Life!Advance, Life!Withdraw, Life!vars
  <2>1. ASSUME NEW s \in Slots, PatchCommit(s) PROVE [Life!Next]_(Life!vars)
    <3>1. op[s].seen = status
      BY <2>1 DEF PatchCommit, SnapshotHolds
    <3>2. status' = status \/ status' \in Transitions[status]
      BY <2>1, <3>1 DEF PatchCommit, SnapshotHolds, ValidTransition
    <3> QED
      BY <2>1, <3>2 DEF PatchCommit
  <2>2. ASSUME NEW s \in Slots, DeleteWrite(s) PROVE [Life!Next]_(Life!vars)
    BY <2>2 DEF DeleteWrite, TypeOK
  <2>3. ASSUME ~\E s \in Slots : PatchCommit(s) \/ DeleteWrite(s)
        PROVE  [Life!Next]_(Life!vars)
    BY <2>3 DEF Next, Patch, Delete, PatchRead, PatchConflict, DeleteRead,
                Abort, vars
  <2> QED
    BY <2>1, <2>2, <2>3
<1> QED
  BY <1>1, <1>2, TypeCorrect, SnapshotCorrect, PTL
  DEF Spec, LifecycleSpec, Life!Spec

(* The row of the composed system is the row of Incidents: a browser's map *)
(* reads it, and whatever the page, the socket and the loads do, everything*)
(* proved of Spec above holds under the map too.                           *)
THEOREM MapKeepsRow == MapSpec => Spec
<1>1. MapInit => Init
  BY DEF MapInit
<1>2. [MapNext]_mapVars => [Next]_vars
  <2> SUFFICES ASSUME [MapNext]_mapVars PROVE [Next]_vars
    OBVIOUS
  <2>1. ASSUME NEW s \in Slots, PatchRow(s) PROVE Next
    BY <2>1 DEF PatchRow, Next, Patch
  <2>2. ASSUME NEW s \in Slots, DeleteRow(s) PROVE Next
    BY <2>2 DEF DeleteRow, Next, Delete
  <2>3. ASSUME NEW e \in announce, Emit(e) PROVE UNCHANGED vars
    BY <2>3 DEF Emit
  <2>4. ASSUME NEW l \in Loads, Ask(l) \/ Answer(l) \/ Fail(l) \/ Show(l)
        PROVE  UNCHANGED vars
    BY <2>4 DEF Ask, Answer, Fail, Show, ShowAs
  <2>5. CASE Post \/ Disconnect \/ Hear \/ Move
    BY <2>5 DEF Post, Disconnect, Hear, Move
  <2>6. CASE UNCHANGED mapVars
    BY <2>6 DEF mapVars
  <2> QED
    BY <2>1, <2>2, <2>3, <2>4, <2>5, <2>6 DEF MapNext
<1> QED
  BY <1>1, <1>2, PTL DEF MapSpec, Spec

----------------------------------------------------------------------------
(* The map                                                                 *)

Copy == [status : Status, version : Nat]
Event == [event : {"created", "updated"}, copy : Copy]

LoadRec == [pc : {"idle", "asked", "answered"}, within : BOOLEAN,
            rows : Seq(Copy), blur : BOOLEAN]

(* What the map's variables hold.                                          *)
MapTypeOK ==
    /\ created \in BOOLEAN /\ inside \in BOOLEAN /\ due \in BOOLEAN
    /\ apart \in BOOLEAN
    /\ announce \in SUBSET Event
    /\ line \in Seq(Event)
    /\ markers \in Seq(Copy)
    /\ load \in [Loads -> LoadRec]

Pending == announce \union {line[i] : i \in DOMAIN line}

(* An event carries the row as some commit left it, and no two the same.   *)
History ==
    /\ \A e \in Pending :
          /\ e.copy.version <= version
          /\ e.copy.version = version => e.copy = Row
          /\ e.event = "created" <=> e.copy.version = 0
    /\ \A e, f \in announce : e.copy.version = f.copy.version => e = f
    /\ ~created => Pending = {} /\ version = 0 /\ ~deleted

(* Events are heard in the order of their commits, the last one included.  *)
Ordered ==
    /\ \A i, j \in DOMAIN line :
          i < j => line[i].copy.version < line[j].copy.version
    /\ \A i \in DOMAIN line, e \in announce :
          line[i].copy.version < e.copy.version
    /\ Pending # {} => \E e \in Pending : e.copy.version = version

(* m is what the pending events will turn into a picture of the row.       *)
Right(m) ==
    /\ Len(m) <= 1
    /\ ~created \/ deleted \/ (\E e \in Pending : e.event = "created") => m = <<>>
    /\ deleted => \A e \in Pending : e.event # "created"

Whole(m, away) ==
    Pending = {} => \/ m = <<Row>>
                    \/ m = <<>> /\ (away \/ Listing(TRUE) = <<>>)

(* The incident is out of view, or a load that will list it is to come.    *)
Away == ~inside \/ due \/ \E l \in Loads : InFlight(l) /\ load[l].within

Clean(l) == load[l].pc = "answered" /\ ~load[l].blur

(* Every copy in m is older than every pending event.                      *)
Older(m) == \A i \in DOMAIN m, e \in Pending : m[i].version < e.copy.version

(* What a step does to the row and to the events of its handlers.          *)
LEMMA PatchEffect ==
    ASSUME TypeOK, NEW s \in Slots, PatchRow(s)
    PROVE  /\ \/ /\ version' = version + 1
                 /\ announce' = announce \union {[event |-> "updated", copy |-> Row']}
              \/ UNCHANGED <<status, version, announce>>
           /\ UNCHANGED <<deleted, created, page, line, load, spent, apart>>
           /\ created
  BY DEF PatchRow, PatchCommit, PatchRead, PatchConflict, Abort

LEMMA DeleteEffect ==
    ASSUME TypeOK, NEW s \in Slots, DeleteRow(s)
    PROVE  /\ UNCHANGED <<status, version, created, announce, page, line, spent>>
           /\ \/ UNCHANGED <<deleted, load, apart>>
              \/ deleted' = TRUE /\ Blurred(TRUE)
           /\ created
  BY DEF DeleteRow, DeleteRead, DeleteWrite, server

(* An answer that is still clean was clean before, and nothing spoiled it. *)
LEMMA SpoilEffect ==
    ASSUME MapTypeOK, NEW c \in BOOLEAN, Spoil(c), NEW l \in Loads
    PROVE  /\ load'[l].pc = load[l].pc /\ load'[l].within = load[l].within
           /\ load'[l].rows = load[l].rows
           /\ InFlight(l)' = InFlight(l)
           /\ load[l].blur => load'[l].blur
           /\ Clean(l)' => Clean(l) /\ ~c
  BY DEF MapTypeOK, LoadRec, Spoil, InFlight, Clean

LEMMA SpoilType ==
    ASSUME MapTypeOK, NEW c \in BOOLEAN, Spoil(c)
    PROVE  load' \in [Loads -> LoadRec]
  BY DEF MapTypeOK, Spoil, LoadRec

LEMMA LoadTyped ==
    ASSUME NEW pc \in {"idle", "asked", "answered"}, NEW within \in BOOLEAN,
           NEW rows \in Seq(Copy), NEW blur \in BOOLEAN
    PROVE  Load(pc, within, rows, blur) \in LoadRec
  BY DEF Load, LoadRec

LEMMA ListingType ==
    ASSUME TypeOK, NEW w \in BOOLEAN
    PROVE  /\ Listing(w) \in Seq(Copy)
           /\ Row \in Copy
  <1>1. Row \in Copy
    BY DEF TypeOK, Row, Copy
  <1> QED
    BY <1>1 DEF Listing

(* Every variable of the map keeps its type.                               *)
LEMMA MapTypes ==
    ASSUME TypeOK, TypeOK', MapTypeOK, [MapNext]_mapVars
    PROVE  MapTypeOK'
<1>0. <<>> \in Seq(Copy)
  OBVIOUS
<1>1. Row \in Copy /\ Row' \in Copy
  BY DEF TypeOK, Row, Copy
<1>2. CASE Post
  <2>1. announce' \in SUBSET Event
    BY <1>2, <1>1 DEF Post, Event
  <2> QED
    BY <1>2, <2>1 DEF Post, MapTypeOK, page
<1>3. ASSUME NEW s \in Slots, PatchRow(s) PROVE MapTypeOK'
  <2>1. announce' \in SUBSET Event
    BY <1>3, <1>1, PatchEffect DEF MapTypeOK, Event
  <2> QED
    BY <1>3, <2>1, PatchEffect DEF MapTypeOK, page
<1>4. ASSUME NEW s \in Slots, DeleteRow(s) PROVE MapTypeOK'
  <2>1. CASE UNCHANGED <<load, apart>>
    BY <1>4, <2>1, DeleteEffect DEF MapTypeOK, page
  <2>2. CASE Blurred(TRUE)
    BY <1>4, <2>2, DeleteEffect, SpoilType DEF MapTypeOK, page, Blurred
  <2> QED
    BY <1>4, <2>1, <2>2, DeleteEffect
<1>5. ASSUME NEW e \in announce, Emit(e) PROVE MapTypeOK'
  <2>1. e \in Event /\ announce' \in SUBSET Event /\ UNCHANGED <<created, page>>
    BY <1>5 DEF Emit, MapTypeOK
  <2>2. line' \in Seq(Event)
    <3>1. line \in Seq(Event) /\ Append(line, e) \in Seq(Event)
      BY <2>1 DEF MapTypeOK
    <3>2. line' = Append(line, e) \/ line' = line
      BY <1>5 DEF Emit
    <3> QED
      BY <3>1, <3>2
  <2>3. PICK c \in BOOLEAN : Blurred(c)
    BY <1>5 DEF Emit
  <2> QED
    BY <2>1, <2>2, <2>3, SpoilType DEF MapTypeOK, Blurred, page
<1>6. CASE Disconnect
  <2>1. line' \in Seq(Event)
    BY <1>6 DEF Disconnect, MapTypeOK
  <2> QED
    BY <1>6, <2>1, SpoilType DEF Disconnect, MapTypeOK, Blurred, page, server
<1>7. CASE Hear
  <2> DEFINE e == Head(line)
  <2>1. e \in Event /\ line' \in Seq(Event) /\ Spoil(TRUE) /\ apart' \in BOOLEAN
    <3>1. line \in Seq(Event) /\ line # <<>> /\ line' = Tail(line) /\ Spoil(TRUE)
      BY <1>7 DEF Hear, MapTypeOK
    <3>2. apart' \in BOOLEAN
      BY <1>7 DEF Hear, MapTypeOK
    <3>3. Head(line) \in Event /\ Tail(line) \in Seq(Event)
      BY <3>1
    <3> QED
      BY <3>1, <3>2, <3>3
  <2>2. e.copy \in Copy
    BY <2>1 DEF Event
  <2>3. Shown(e) \in Seq(Copy)
    <3>1. <<e.copy>> \o markers \in Seq(Copy)
      BY <2>2 DEF MapTypeOK
    <3>2. [i \in DOMAIN markers |-> e.copy] \in Seq(Copy)
      <4>1. DOMAIN markers = 1 .. Len(markers) /\ Len(markers) \in Nat
        BY DEF MapTypeOK
      <4> QED
        BY <2>2, <4>1 DEF MapTypeOK
    <3> QED
      BY <3>1, <3>2 DEF Shown
  <2> QED
    BY <1>7, <2>1, <2>3, SpoilType DEF Hear, MapTypeOK, server
<1>8. CASE Move
  BY <1>8 DEF Move, MapTypeOK, server
<1>9. ASSUME NEW l \in Loads, Ask(l) PROVE MapTypeOK'
  <2>1. Load("asked", inside, <<>>, FALSE) \in LoadRec
    BY <1>0, LoadTyped DEF MapTypeOK
  <2> QED
    BY <1>9, <2>1 DEF Ask, MapTypeOK, server
<1>10. ASSUME NEW l \in Loads, Answer(l) PROVE MapTypeOK'
  <2>1. load[l].within \in BOOLEAN
    BY DEF MapTypeOK, LoadRec
  <2>2. PICK b \in BOOLEAN : load' = [load EXCEPT ![l] =
             Load("answered", load[l].within, Listing(load[l].within), b)]
    BY <1>10 DEF Answer
  <2>3. Load("answered", load[l].within, Listing(load[l].within), b) \in LoadRec
    BY <2>1, ListingType, LoadTyped
  <2> QED
    BY <1>10, <2>2, <2>3 DEF Answer, MapTypeOK, server, page
<1>11. ASSUME NEW l \in Loads, Fail(l) PROVE MapTypeOK'
  <2>1. load[l].within \in BOOLEAN
    BY DEF MapTypeOK, LoadRec
  <2>2. Load("answered", load[l].within, <<>>, TRUE) \in LoadRec
    BY <1>0, <2>1, LoadTyped
  <2> QED
    BY <1>11, <2>2 DEF Fail, MapTypeOK, server, page
<1>12. ASSUME NEW l \in Loads, Show(l) PROVE MapTypeOK'
  <2>1. load' \in [Loads -> LoadRec] /\ load[l] \in LoadRec
    <3>1. NoLoad \in LoadRec
      BY <1>0, LoadTyped DEF NoLoad
    <3>2. \A k \in Loads : [load[k] EXCEPT !.blur = TRUE] \in LoadRec
      BY DEF MapTypeOK, LoadRec
    <3> QED
      BY <1>12, <3>1, <3>2 DEF Show, ShowAs, MapTypeOK
  <2>2. markers' \in Seq(Copy) /\ apart' \in BOOLEAN
    BY <1>12, <2>1 DEF Show, ShowAs, MapTypeOK, LoadRec
  <2> QED
    BY <1>12, <2>1, <2>2 DEF Show, ShowAs, MapTypeOK, server
<1>13. CASE UNCHANGED mapVars
  BY <1>13 DEF mapVars, server, page, MapTypeOK
<1> QED
  BY <1>2, <1>3, <1>4, <1>5, <1>6, <1>7, <1>8, <1>9, <1>10, <1>11, <1>12, <1>13 DEF MapNext

(* The parts of MapInv, by name.                                           *)
Synced == ~apart \/ \E l \in Loads : Clean(l)
MarkersRight == ~apart => Right(markers) /\ Whole(markers, Away) /\ Older(markers)
RowsRight(l) ==
    Clean(l) => /\ Right(load[l].rows) /\ Older(load[l].rows)
                /\ \A i \in DOMAIN load[l].rows, j \in DOMAIN markers :
                      markers[j].version <= load[l].rows[i].version
                /\ IF load[l].within THEN Whole(load[l].rows, FALSE)
                   ELSE load[l].rows = <<>>
ToCome(l) == InFlight(l) /\ ~load[l].within /\ ~load[l].blur => Away
Past ==
    /\ \A i \in DOMAIN markers : markers[i].version <= version
    /\ \A l \in Loads : \A i \in DOMAIN load[l].rows : load[l].rows[i].version <= version

MapInv ==
    /\ History
    /\ Synced => Ordered
    /\ MarkersRight
    /\ \A l \in Loads : RowsRight(l) /\ ToCome(l)
    /\ Past

(* The versions met below are numbers.                                     *)
LEMMA Numbers ==
    ASSUME TypeOK, MapTypeOK
    PROVE  /\ version \in Nat /\ Row.version = version
           /\ \A e \in Pending : e \in Event /\ e.copy \in Copy /\ e.copy.version \in Nat
           /\ \A i \in DOMAIN line : line[i] \in Pending /\ line[i].copy.version \in Nat
           /\ \A e \in announce : e \in Pending /\ e.copy.version \in Nat
           /\ \A i \in DOMAIN markers : markers[i].version \in Nat
           /\ \A l \in Loads : \A i \in DOMAIN load[l].rows : load[l].rows[i].version \in Nat
<1>1. version \in Nat /\ Row.version = version
  BY DEF TypeOK, Row
<1>2. \A i \in DOMAIN line : line[i] \in Event
  BY DEF MapTypeOK
<1>3. \A e \in Pending : e \in Event
  BY <1>2 DEF MapTypeOK, Pending
<1>4. \A e \in Event : e.copy \in Copy /\ e.copy.version \in Nat
  BY DEF Event, Copy
<1>5. \A i \in DOMAIN markers : markers[i] \in Copy
  BY DEF MapTypeOK
<1>6. \A l \in Loads : load[l].rows \in Seq(Copy)
  BY DEF MapTypeOK, LoadRec
<1>7. \A l \in Loads : \A i \in DOMAIN load[l].rows : load[l].rows[i] \in Copy
  BY <1>6
<1>8. \A c \in Copy : c.version \in Nat
  BY DEF Copy
<1> QED
  BY <1>1, <1>2, <1>3, <1>4, <1>5, <1>7, <1>8 DEF Pending

(* Nothing that MapInv speaks of changes.                                  *)
LEMMA Framed ==
    ASSUME MapInv, UNCHANGED <<status, version, deleted, created, announce, line,
                               inside, due, load, markers, apart>>
    PROVE  MapInv'
<1>1. /\ Pending' = Pending /\ Away' = Away /\ Row' = Row
      /\ (Listing(TRUE))' = Listing(TRUE)
      /\ \A l \in Loads : Clean(l)' = Clean(l) /\ InFlight(l)' = InFlight(l)
  BY DEF Pending, Away, Row, Listing, Clean, InFlight
<1>2. History' /\ Ordered' = Ordered /\ Synced' = Synced /\ Past'
  BY <1>1 DEF MapInv, History, Ordered, Synced, Past
<1>3. MarkersRight'
  BY <1>1 DEF MapInv, MarkersRight, Right, Whole, Older
<1>4. \A l \in Loads : RowsRight(l)' /\ ToCome(l)'
  BY <1>1 DEF MapInv, RowsRight, ToCome, Right, Whole, Older
<1> QED
  BY <1>2, <1>3, <1>4 DEF MapInv

(* The markers and the answers already read are put in doubt.              *)
LEMMA Doubted ==
    ASSUME TypeOK, MapTypeOK, MapInv, Blurred(TRUE), History',
           UNCHANGED <<version, inside, due, markers>>
    PROVE  MapInv'
<1>1. apart' = TRUE /\ Spoil(TRUE)
  BY DEF Blurred, MapTypeOK
<1>2. \A l \in Loads : /\ load'[l].within = load[l].within
                       /\ load'[l].rows = load[l].rows
                       /\ InFlight(l)' = InFlight(l)
                       /\ load[l].blur => load'[l].blur
                       /\ ~Clean(l)'
  BY <1>1, SpoilEffect
<1>3. Away' = Away
  BY <1>2 DEF Away
<1>4. (Synced => Ordered)' /\ MarkersRight'
  BY <1>1, <1>2 DEF Synced, MarkersRight
<1>5. \A l \in Loads : RowsRight(l)' /\ ToCome(l)'
  BY <1>2, <1>3 DEF RowsRight, ToCome, MapInv
<1>6. Past'
  BY <1>2 DEF Past, MapInv
<1> QED
  BY <1>4, <1>5, <1>6 DEF MapInv

LEMMA PostKept ==
    ASSUME TypeOK, MapTypeOK, MapInv, Post
    PROVE  MapInv'
<1> DEFINE c == [event |-> "created", copy |-> Row]
<1>1. /\ ~created /\ created' /\ announce' = {c}
      /\ UNCHANGED <<status, version, deleted, inside, due, markers, line, load, apart>>
  BY DEF Post, vars, page
<1>2. Pending = {} /\ version = 0 /\ ~deleted
  BY <1>1 DEF MapInv, History
<1>3. Row' = Row /\ Row.version = 0
  BY <1>1, <1>2, Numbers DEF Row
<1>4. line = <<>> /\ Pending' = {c}
  <2>1. DOMAIN line = {}
    BY <1>2 DEF Pending
  <2>2. line = <<>>
    BY <2>1 DEF MapTypeOK
  <2> QED
    BY <1>1, <2>1, <2>2 DEF Pending
<1>5. History'
  BY <1>1, <1>2, <1>3, <1>4 DEF History
<1>6. Ordered'
  BY <1>1, <1>2, <1>3, <1>4 DEF Ordered
<1>7. \A m : Right(m) => m = <<>>
  BY <1>1 DEF Right
<1>8. (Right(<<>>))' /\ (Older(<<>>))' /\ (Whole(<<>>, FALSE))' /\ (Whole(<<>>, Away))'
  <2>1. DOMAIN <<>> = {} /\ Len(<<>>) = 0
    OBVIOUS
  <2>2. Pending' # {}
    BY <1>4
  <2>3. (Right(<<>>))'
    BY <1>1, <1>2, <2>1 DEF Right
  <2>4. (Older(<<>>))'
    BY <2>1 DEF Older
  <2> QED
    BY <2>2, <2>3, <2>4 DEF Whole
<1>9. MarkersRight'
  BY <1>1, <1>7, <1>8 DEF MarkersRight, MapInv
<1>10. \A l \in Loads : RowsRight(l)' /\ ToCome(l)'
  <2> SUFFICES ASSUME NEW l \in Loads PROVE RowsRight(l)' /\ ToCome(l)'
    OBVIOUS
  <2>1. Clean(l)' = Clean(l) /\ load' = load
    BY <1>1 DEF Clean
  <2>2. Clean(l) => load[l].rows = <<>>
    BY <1>7 DEF RowsRight, MapInv
  <2>3. RowsRight(l)'
    <3>1. CASE ~Clean(l)
      BY <2>1, <3>1 DEF RowsRight
    <3>2. CASE Clean(l)
      <4>1. load'[l].rows = <<>> /\ DOMAIN load'[l].rows = {}
        BY <2>1, <2>2, <3>2
      <4>2. /\ (Right(load[l].rows))' /\ (Older(load[l].rows))'
            /\ (Whole(load[l].rows, FALSE))'
        BY <1>8, <4>1 DEF Right, Older, Whole
      <4> QED
        BY <4>1, <4>2 DEF RowsRight
    <3> QED
      BY <3>1, <3>2
  <2>4. ToCome(l)'
    BY <1>1 DEF ToCome, MapInv, Away, InFlight
  <2> QED
    BY <2>3, <2>4
<1>11. Past'
  BY <1>1 DEF Past, MapInv
<1> QED
  BY <1>5, <1>6, <1>9, <1>10, <1>11 DEF MapInv

(* A commit is announced by a newer event than all that are pending.       *)
LEMMA PatchKept ==
    ASSUME TypeOK, TypeOK', MapTypeOK, MapInv, NEW s \in Slots, PatchRow(s)
    PROVE  MapInv'
<1>1. /\ UNCHANGED <<deleted, created, inside, due, markers, line, load, apart>>
      /\ created
  BY PatchEffect DEF page
<1>2. CASE UNCHANGED <<status, version, announce>>
  BY <1>1, <1>2, Framed
<1>3. CASE /\ version' = version + 1
           /\ announce' = announce \union {[event |-> "updated", copy |-> Row']}
  <2> DEFINE e == [event |-> "updated", copy |-> Row']
  <2>1. version \in Nat /\ version' = version + 1 /\ e.copy = Row' /\ Row'.version = version'
    BY <1>3 DEF TypeOK, Row
  <2>2. Pending' = Pending \union {e}
    BY <1>1, <1>3 DEF Pending
  <2>3. \A f \in Pending : f.copy.version \in Nat /\ f.copy.version <= version
    BY Numbers DEF MapInv, History
  <2>4. announce \subseteq Pending /\ \A i \in DOMAIN line : line[i] \in Pending
    BY DEF Pending
  <2>5. History'
    <3>1. \A f \in Pending' : /\ f.copy.version <= version'
                              /\ f.copy.version = version' => f.copy = Row'
                              /\ f.event = "created" <=> f.copy.version = 0
      BY <2>1, <2>2, <2>3 DEF MapInv, History
    <3>2. \A f, g \in announce' : f.copy.version = g.copy.version => f = g
      BY <1>3, <2>1, <2>3, <2>4 DEF MapInv, History
    <3> QED
      BY <1>1, <3>1, <3>2 DEF History
  <2>6. Synced' = Synced /\ Away' = Away
    BY <1>1 DEF Synced, Clean, Away, InFlight
  <2>7. Ordered => Ordered'
    <3> SUFFICES ASSUME Ordered PROVE Ordered'
      OBVIOUS
    <3>1. \A i \in DOMAIN line, f \in announce' : line[i].copy.version < f.copy.version
      BY <1>3, <2>1, <2>3, <2>4 DEF Ordered
    <3>2. \E f \in Pending' : f.copy.version = version'
      BY <2>1, <2>2
    <3> QED
      BY <1>1, <3>1, <3>2 DEF Ordered
  <2>8. ASSUME NEW m \in Seq(Copy), Right(m)
        PROVE  /\ Len(m) <= 1
               /\ ~created \/ deleted \/ (\E f \in Pending' : f.event = "created") => m = <<>>
               /\ deleted => \A f \in Pending' : f.event # "created"
    BY <2>2, <2>8 DEF Right
  <2>9. ASSUME NEW m \in Seq(Copy), \A i \in DOMAIN m : m[i].version <= version, Older(m)
        PROVE  \A i \in DOMAIN m, f \in Pending' : m[i].version < f.copy.version
    <3>1. \A i \in DOMAIN m : m[i] \in Copy
      OBVIOUS
    <3>2. \A i \in DOMAIN m : m[i].version \in Nat
      BY <3>1 DEF Copy
    <3> QED
      BY <2>1, <2>2, <2>3, <2>9, <3>2 DEF Older
  <2>10. MarkersRight'
    <3> SUFFICES ASSUME ~apart
                 PROVE  (Right(markers))' /\ (Whole(markers, Away))' /\ (Older(markers))'
      BY <1>1 DEF MarkersRight
    <3>1. markers \in Seq(Copy) /\ Right(markers) /\ Older(markers)
      BY DEF MapInv, MarkersRight, MapTypeOK
    <3>2. (Right(markers))'
      BY <1>1, <2>8, <3>1 DEF Right
    <3>3. (Older(markers))'
      BY <1>1, <2>9, <3>1 DEF Older, MapInv, Past
    <3> QED
      BY <2>2, <3>2, <3>3 DEF Whole
  <2>11. ASSUME NEW l \in Loads PROVE RowsRight(l)'
    <3> SUFFICES ASSUME Clean(l) PROVE RowsRight(l)'
      BY <1>1 DEF RowsRight, Clean
    <3>1. load[l].rows \in Seq(Copy) /\ Right(load[l].rows) /\ Older(load[l].rows)
      BY DEF MapInv, RowsRight, MapTypeOK, LoadRec
    <3>2. (Right(load[l].rows))'
      BY <1>1, <2>8, <3>1 DEF Right
    <3>3. (Older(load[l].rows))'
      BY <1>1, <2>9, <3>1 DEF Older, MapInv, Past
    <3>4. (Whole(load[l].rows, FALSE))'
      BY <2>2 DEF Whole
    <3> QED
      BY <1>1, <3>2, <3>3, <3>4 DEF RowsRight, MapInv
  <2>12. \A l \in Loads : ToCome(l)'
    BY <1>1, <2>6 DEF ToCome, MapInv, InFlight
  <2>13. Past'
    <3>1. /\ \A i \in DOMAIN markers : markers[i].version <= version'
          /\ \A l \in Loads : \A i \in DOMAIN load[l].rows : load[l].rows[i].version <= version'
      BY <2>1, Numbers DEF MapInv, Past
    <3> QED
      BY <1>1, <3>1 DEF Past
  <2> QED
    BY <2>5, <2>6, <2>7, <2>10, <2>11, <2>12, <2>13 DEF MapInv
<1> QED
  BY <1>2, <1>3, PatchEffect

LEMMA DeleteKept ==
    ASSUME TypeOK, MapTypeOK, MapInv, NEW s \in Slots, DeleteRow(s)
    PROVE  MapInv'
<1>1. /\ UNCHANGED <<status, version, created, announce, line, inside, due, markers>>
      /\ created
  BY DeleteEffect DEF page
<1>2. CASE UNCHANGED <<deleted, load, apart>>
  BY <1>1, <1>2, Framed
<1>3. CASE Blurred(TRUE)
  <2>1. History'
    BY <1>1 DEF MapInv, History, Pending, Row
  <2> QED
    BY <1>1, <1>3, <2>1, Doubted
<1> QED
  BY <1>2, <1>3, DeleteEffect

(* An event that is emitted stays pending, at the end of the line; a lost  *)
(* one leaves the markers in doubt.                                        *)
LEMMA EmitKept ==
    ASSUME TypeOK, MapTypeOK, MapInv, NEW e \in announce, Emit(e)
    PROVE  MapInv'
<1>1. /\ announce' = announce \ {e}
      /\ UNCHANGED <<status, version, deleted, created, inside, due, markers>>
  BY DEF Emit, vars, page
<1>2. Row' = Row
  BY <1>1 DEF Row
<1>3. CASE Blurred(TRUE) /\ UNCHANGED line
  <2>1. Pending' \subseteq Pending
    BY <1>1, <1>3 DEF Pending
  <2>2. History'
    BY <1>1, <1>2, <2>1 DEF MapInv, History
  <2> QED
    BY <1>1, <1>3, <2>2, Doubted
<1>4. CASE line' = Append(line, e) /\ Blurred(\E o \in announce : o.copy.version < e.copy.version)
  <2> DEFINE c == \E o \in announce : o.copy.version < e.copy.version
  <2>1. apart' = (apart \/ c) /\ Spoil(c) /\ c \in BOOLEAN
    BY <1>4 DEF Blurred
  <2>2. \A l \in Loads : /\ load'[l].within = load[l].within
                         /\ load'[l].rows = load[l].rows
                         /\ InFlight(l)' = InFlight(l)
                         /\ load[l].blur => load'[l].blur
                         /\ Clean(l)' => Clean(l) /\ ~c
    BY <2>1, SpoilEffect
  <2>3. /\ e \in Event /\ line \in Seq(Event)
        /\ DOMAIN line = 1 .. Len(line) /\ Len(line) \in Nat
        /\ DOMAIN line' = 1 .. Len(line) + 1
        /\ \A i \in DOMAIN line : line'[i] = line[i]
        /\ line'[Len(line) + 1] = e
    <3>1. e \in Event /\ line \in Seq(Event)
      BY DEF MapTypeOK
    <3> QED
      BY <1>4, <3>1
  <2>4. Pending' = Pending
    <3>1. Pending' \subseteq Pending
      BY <1>1, <2>3 DEF Pending
    <3>2. {line[i] : i \in DOMAIN line} \subseteq {line'[i] : i \in DOMAIN line'}
      BY <2>3
    <3>3. e \in {line'[i] : i \in DOMAIN line'}
      BY <2>3
    <3> QED
      BY <1>1, <3>1, <3>2, <3>3 DEF Pending
  <2>5. History'
    BY <1>1, <1>2, <2>4 DEF MapInv, History
  <2>6. Synced' => Synced /\ ~c
    BY <2>1, <2>2 DEF Synced
  <2>7. ASSUME Ordered, ~c PROVE Ordered'
    <3>1. \A i, j \in DOMAIN line' : i < j => line'[i].copy.version < line'[j].copy.version
      BY <2>3, <2>7, Numbers DEF Ordered
    <3>2. \A i \in DOMAIN line', f \in announce' : line'[i].copy.version < f.copy.version
      <4> SUFFICES ASSUME NEW i \in DOMAIN line', NEW f \in announce'
                   PROVE  line'[i].copy.version < f.copy.version
        OBVIOUS
      <4>1. f \in announce /\ f # e
        BY <1>1
      <4>2. CASE i \in DOMAIN line
        BY <2>3, <2>7, <4>1, <4>2 DEF Ordered
      <4>3. CASE i = Len(line) + 1
        <5>1. f.copy.version \in Nat /\ e.copy.version \in Nat
          BY <4>1, Numbers
        <5>2. f.copy.version # e.copy.version /\ ~(f.copy.version < e.copy.version)
          BY <2>7, <4>1 DEF MapInv, History
        <5> QED
          BY <2>3, <4>3, <5>1, <5>2
      <4> QED
        BY <2>3, <4>2, <4>3
    <3> QED
      BY <1>1, <2>4, <2>7, <3>1, <3>2 DEF Ordered
  <2>8. /\ Away' = Away
        /\ \A m : (Right(m)' = Right(m)) /\ (Older(m)' = Older(m))
    BY <1>1, <2>2, <2>4 DEF Away, Right, Older
  <2>9. (Listing(TRUE))' = Listing(TRUE)
    BY <1>1, <1>2 DEF Listing
  <2>10. MarkersRight'
    BY <1>1, <1>2, <2>1, <2>4, <2>8, <2>9 DEF MapInv, MarkersRight, Right, Older, Whole
  <2>11. ASSUME NEW l \in Loads PROVE RowsRight(l)' /\ ToCome(l)'
    BY <1>1, <1>2, <2>2, <2>4, <2>8, <2>9
    DEF MapInv, RowsRight, ToCome, Right, Older, Whole
  <2>12. Past'
    BY <1>1, <2>2 DEF MapInv, Past
  <2> QED
    BY <2>5, <2>6, <2>7, <2>10, <2>11, <2>12 DEF MapInv
<1> QED
  BY <1>3, <1>4 DEF Emit

LEMMA DisconnectKept ==
    ASSUME TypeOK, MapTypeOK, MapInv, Disconnect
    PROVE  MapInv'
<1>1. /\ line' = <<>> /\ Blurred(TRUE)
      /\ UNCHANGED <<status, version, deleted, created, announce, inside, due, markers>>
  BY DEF Disconnect, vars, server, page
<1>2. Pending' \subseteq Pending
  BY <1>1 DEF Pending
<1>3. History'
  BY <1>1, <1>2 DEF MapInv, History, Row
<1> QED
  BY <1>1, <1>3, Doubted

(* The first event of the line is older than all that stay pending, and    *)
(* the last one pending carries the row as it is.                          *)
LEMMA HearKept ==
    ASSUME TypeOK, MapTypeOK, MapTypeOK', MapInv, Hear
    PROVE  MapInv'
<1> DEFINE e == Head(line)
           unlisted == e.event = "updated" /\ e.copy.status = "unverified" /\ markers = <<>>
<1>1. /\ line # <<>> /\ line' = Tail(line) /\ Spoil(TRUE)
      /\ markers' = Shown(e) /\ apart' = (apart \/ unlisted)
      /\ UNCHANGED <<status, version, deleted, created, announce, inside, due>>
  BY DEF Hear, vars, server
<1>2. Row' = Row /\ (Listing(TRUE))' = Listing(TRUE)
  BY <1>1 DEF Row, Listing
<1>3. /\ line \in Seq(Event) /\ Len(line) \in Nat \ {0}
      /\ DOMAIN line = 1 .. Len(line) /\ DOMAIN line' = 1 .. Len(line) - 1
      /\ e = line[1] /\ 1 \in DOMAIN line
      /\ \A i \in DOMAIN line' : line'[i] = line[i + 1] /\ i + 1 \in DOMAIN line
  <2>1. line \in Seq(Event)
    BY DEF MapTypeOK
  <2> QED
    BY <1>1, <2>1
<1>4. /\ e \in Pending /\ Pending' \subseteq Pending
      /\ \A f \in Pending : f = e \/ f \in Pending'
  <2>1. e \in Pending /\ Pending' \subseteq Pending
    BY <1>1, <1>3 DEF Pending
  <2>2. ASSUME NEW i \in DOMAIN line PROVE line[i] = e \/ line[i] \in Pending'
    <3>1. CASE i = 1
      BY <1>3, <3>1
    <3>2. CASE i # 1
      <4>1. i - 1 \in DOMAIN line' /\ line'[i - 1] = line[i]
        BY <1>3, <3>2
      <4> QED
        BY <4>1 DEF Pending
    <3> QED
      BY <3>1, <3>2
  <2> QED
    BY <1>1, <2>1, <2>2 DEF Pending
<1>5. \A l \in Loads : /\ load'[l].within = load[l].within
                       /\ load'[l].rows = load[l].rows
                       /\ InFlight(l)' = InFlight(l)
                       /\ load[l].blur => load'[l].blur
                       /\ ~Clean(l)'
  BY <1>1, SpoilEffect
<1>6. Away' = Away
  BY <1>1, <1>5 DEF Away
<1>7. History'
  BY <1>1, <1>2, <1>4 DEF MapInv, History
\* e is in order before whatever is still pending
<1>8. Ordered => \A f \in Pending' : e.copy.version < f.copy.version
  <2> SUFFICES ASSUME Ordered, NEW f \in Pending' PROVE e.copy.version < f.copy.version
    OBVIOUS
  <2>1. CASE f \in announce
    BY <1>3, <2>1 DEF Ordered
  <2>2. ASSUME NEW i \in DOMAIN line', f = line'[i] PROVE e.copy.version < f.copy.version
    <3>1. i + 1 \in DOMAIN line /\ 1 < i + 1 /\ f = line[i + 1]
      BY <1>3, <2>2
    <3> QED
      BY <1>3, <3>1 DEF Ordered
  <2> QED
    BY <1>1, <2>1, <2>2 DEF Pending
<1>9. Ordered => Ordered'
  <2> SUFFICES ASSUME Ordered PROVE Ordered'
    OBVIOUS
  <2>1. \A i, j \in DOMAIN line' : i < j => line'[i].copy.version < line'[j].copy.version
    BY <1>3 DEF Ordered
  <2>2. \A i \in DOMAIN line', f \in announce : line'[i].copy.version < f.copy.version
    BY <1>3 DEF Ordered
  <2>3. ASSUME NEW f \in Pending', e.copy.version = version PROVE FALSE
    BY <1>4, <1>8, <2>3, Numbers DEF MapInv, History
  <2>4. Pending' # {} => \E f \in Pending' : f.copy.version = version
    BY <1>4, <2>3 DEF Ordered
  <2> QED
    BY <1>1, <2>1, <2>2, <2>4 DEF Ordered
<1>10. (Synced => Ordered)'
  <2>1. Synced' => ~apart
    BY <1>1, <1>5 DEF Synced
  <2> QED
    BY <1>9, <2>1 DEF Synced, MapInv
<1>11. e \in Event /\ e.copy.version \in Nat /\ e.copy.version <= version
  BY <1>4, Numbers DEF MapInv, History
<1>12. /\ e.event = "created" => markers' = <<e.copy>> \o markers
       /\ e.event # "created" => /\ DOMAIN markers' = DOMAIN markers
                                 /\ \A i \in DOMAIN markers : markers'[i] = e.copy
  BY <1>1 DEF Shown
<1>13. MarkersRight'
  <2> SUFFICES ASSUME ~apart'
               PROVE  (Right(markers))' /\ (Whole(markers, Away))' /\ (Older(markers))'
    BY DEF MarkersRight
  <2>1. ~apart /\ ~unlisted
    BY <1>1
  <2>2. Right(markers) /\ Whole(markers, Away) /\ Older(markers) /\ Ordered
    BY <2>1 DEF MapInv, MarkersRight, Synced
  <2>3. markers \in Seq(Copy) /\ markers' \in Seq(Copy)
    BY DEF MapTypeOK
  \* every copy shown now is e's, and there is at most one
  <2>4. /\ Len(markers') <= 1
        /\ \A i \in DOMAIN markers' : markers'[i] = e.copy
        /\ markers' # <<>> => markers' = <<e.copy>>
    <3>1. CASE e.event = "created"
      <4>1. markers = <<>>
        BY <1>4, <2>2, <3>1 DEF Right
      <4>2. markers' = <<e.copy>>
        BY <1>12, <3>1, <4>1
      <4> QED
        BY <4>2
    <3>2. CASE e.event # "created"
      <4>1. Len(markers') = Len(markers) /\ Len(markers) <= 1
        BY <1>12, <2>2, <2>3, <3>2 DEF Right
      <4>2. \A i \in DOMAIN markers' : markers'[i] = e.copy
        BY <1>12, <3>2
      <4>3. ASSUME markers' # <<>> PROVE markers' = <<e.copy>>
        <5>1. Len(markers') = 1 /\ DOMAIN markers' = 1 .. 1
          <6>1. Len(markers') \in Nat /\ DOMAIN markers' = 1 .. Len(markers')
            BY <2>3
          <6>2. Len(markers') # 0
            BY <2>3, <4>3
          <6>3. Len(markers') <= 1
            BY <4>1
          <6> QED
            BY <6>1, <6>2, <6>3
        <5>2. markers' = [i \in 1 .. 1 |-> e.copy]
          BY <2>3, <4>2, <5>1
        <5> QED
          BY <5>2
      <4> QED
        BY <2>3, <4>1, <4>2, <4>3
    <3> QED
      BY <3>1, <3>2
  <2>5. (Older(markers))'
    BY <1>8, <2>2, <2>4 DEF Older
  <2>6. created /\ (deleted => markers' = <<>> /\ \A f \in Pending' : f.event # "created")
    <3>1. created
      BY <1>4 DEF MapInv, History
    <3>2. deleted => markers = <<>> /\ \A f \in Pending : f.event # "created"
      BY <2>2 DEF Right
    <3>3. e.event # "created" /\ markers = <<>> => markers' = <<>>
      BY <1>12, <2>3
    <3> QED
      BY <1>4, <3>1, <3>2, <3>3
  \* the creation is heard before anything else
  <2>7. \A f \in Pending' : f.event # "created"
    <3> SUFFICES ASSUME NEW f \in Pending', f.event = "created" PROVE FALSE
      OBVIOUS
    <3>1. f.copy.version = 0
      BY <1>4 DEF MapInv, History
    <3> QED
      BY <1>8, <1>11, <2>2, <3>1
  <2>8. (Right(markers))'
    BY <1>1, <2>4, <2>6, <2>7 DEF Right
  <2>9. (Whole(markers, Away))'
    <3> SUFFICES ASSUME Pending' = {}
                 PROVE  markers' = <<Row>> \/ (markers' = <<>> /\ Listing(TRUE) = <<>>)
      BY <1>2, <1>6 DEF Whole
    <3>1. e.copy.version = version
      BY <1>4, <2>2 DEF Ordered
    <3>2. e.copy = Row
      BY <1>4, <3>1 DEF MapInv, History
    <3>3. CASE markers' # <<>>
      BY <2>4, <3>2, <3>3
    <3>4. CASE markers' = <<>>
      <4>1. e.event = "updated" /\ markers = <<>>
        <5>1. e.event # "created"
          <6> SUFFICES ASSUME e.event = "created" PROVE FALSE
            OBVIOUS
          <6>1. markers' = <<e.copy>> \o markers /\ Len(markers') = 1 + Len(markers)
            BY <1>12, <2>3
          <6> QED
            BY <2>3, <3>4, <6>1
        <5> QED
          BY <1>11, <1>12, <2>3, <3>4, <5>1 DEF Event
      <4>2. status # "unverified"
        BY <2>1, <3>2, <4>1 DEF Row
      <4> QED
        BY <3>4, <4>2 DEF Listing
    <3> QED
      BY <3>3, <3>4
  <2> QED
    BY <2>5, <2>8, <2>9
<1>14. \A l \in Loads : RowsRight(l)' /\ ToCome(l)'
  BY <1>5, <1>6 DEF RowsRight, ToCome, MapInv
<1>15. Past'
  <2>1. \A i \in DOMAIN markers' : markers'[i].version <= version
    <3>1. CASE e.event = "created"
      <4>1. markers \in Seq(Copy) /\ markers' = <<e.copy>> \o markers
        BY <1>12, <3>1 DEF MapTypeOK
      <4>2. \A i \in DOMAIN markers' : \/ markers'[i] = e.copy
                                       \/ \E j \in DOMAIN markers : markers'[i] = markers[j]
        BY <4>1
      <4> QED
        BY <1>11, <4>2 DEF MapInv, Past
    <3>2. CASE e.event # "created"
      BY <1>11, <1>12, <3>2
    <3> QED
      BY <3>1, <3>2
  <2> QED
    BY <1>1, <1>5, <2>1 DEF Past, MapInv
<1> QED
  BY <1>7, <1>10, <1>13, <1>14, <1>15 DEF MapInv

LEMMA MoveKept ==
    ASSUME MapInv, Move
    PROVE  MapInv'
<1>1. /\ due' = TRUE
      /\ UNCHANGED <<status, version, deleted, created, announce, line, load, markers, apart>>
  BY DEF Move, vars, server
<1>2. Away' /\ Pending' = Pending /\ Row' = Row /\ (Listing(TRUE))' = Listing(TRUE)
  BY <1>1 DEF Away, Pending, Row, Listing
<1>3. History' /\ Ordered' = Ordered /\ Synced' = Synced /\ Past'
  BY <1>1, <1>2 DEF MapInv, History, Ordered, Synced, Clean, Past
<1>4. MarkersRight'
  BY <1>1, <1>2 DEF MapInv, MarkersRight, Right, Whole, Older
<1>5. \A l \in Loads : RowsRight(l)' /\ ToCome(l)'
  BY <1>1, <1>2 DEF MapInv, RowsRight, ToCome, Clean, Right, Whole, Older
<1> QED
  BY <1>3, <1>4, <1>5 DEF MapInv

(* A load under way may be joined or replaced by another; none of these    *)
(* steps touches the row, the events or the bounds.                        *)
LEMMA AskKept ==
    ASSUME MapTypeOK, MapInv, NEW l \in Loads, Ask(l)
    PROVE  MapInv'
<1>1. /\ due /\ load[l] = NoLoad
      /\ load' = [load EXCEPT ![l] = Load("asked", inside, <<>>, FALSE)]
      /\ UNCHANGED <<status, version, deleted, created, announce, line, inside, markers, apart>>
  BY DEF Ask, vars, server
<1>2. Pending' = Pending /\ Row' = Row /\ (Listing(TRUE))' = Listing(TRUE)
  BY <1>1 DEF Pending, Row, Listing
<1>3. /\ load'[l].pc = "asked" /\ load'[l].within = inside
      /\ load'[l].rows = <<>> /\ load'[l].blur = FALSE
      /\ \A k \in Loads : k # l => load'[k] = load[k]
  BY <1>1 DEF Load, MapTypeOK
<1>4. ~Clean(l) /\ ~Clean(l)' /\ InFlight(l)'
  BY <1>1, <1>3 DEF Clean, NoLoad, Load, InFlight
<1>5. \A k \in Loads : Clean(k)' = Clean(k)
  BY <1>3, <1>4 DEF Clean
<1>6. Away'
  <2>1. CASE inside
    BY <1>3, <1>4, <2>1 DEF Away
  <2>2. CASE ~inside
    BY <1>1, <2>2 DEF Away
  <2> QED
    BY <2>1, <2>2
<1>7. History' /\ Ordered' = Ordered /\ Synced' = Synced
  BY <1>1, <1>2, <1>5 DEF MapInv, History, Ordered, Synced
<1>8. MarkersRight'
  BY <1>1, <1>2, <1>6 DEF MapInv, MarkersRight, Right, Whole, Older
<1>9. ASSUME NEW k \in Loads PROVE RowsRight(k)' /\ ToCome(k)'
  <2>1. ToCome(k)'
    BY <1>6 DEF ToCome
  <2>2. CASE k = l
    BY <1>4, <2>1, <2>2 DEF RowsRight
  <2>3. CASE k # l
    BY <1>1, <1>2, <1>3, <1>5, <2>1, <2>3
    DEF MapInv, RowsRight, Right, Whole, Older
  <2> QED
    BY <2>2, <2>3
<1>10. Past'
  <2>1. ASSUME NEW k \in Loads, NEW i \in DOMAIN load'[k].rows
        PROVE  load'[k].rows[i].version <= version
    <3>1. k # l
      BY <1>3
    <3> QED
      BY <1>3, <3>1 DEF MapInv, Past
  <2> QED
    BY <1>1, <2>1 DEF MapInv, Past
<1> QED
  BY <1>7, <1>8, <1>9, <1>10 DEF MapInv

(* An answer leaves the load under way: what is to come still is.          *)
LEMMA AnsweredKept ==
    ASSUME TypeOK, MapTypeOK, MapInv, NEW l \in Loads, InFlight(l),
           NEW rows \in Seq(Copy), NEW blur \in BOOLEAN,
           load' = [load EXCEPT ![l] = Load("answered", load[l].within, rows, blur)],
           UNCHANGED <<status, version, deleted, created, announce, line, inside, due,
                       markers, apart>>,
           ~blur => /\ ~load[l].blur /\ announce = {} /\ line = <<>>
                    /\ rows = Listing(load[l].within),
           \A i \in DOMAIN rows : rows[i].version <= version
    PROVE  MapInv'
<1>2. Pending' = Pending /\ Row' = Row /\ (Listing(TRUE))' = Listing(TRUE)
  BY DEF Pending, Row, Listing
<1>3. /\ load'[l].pc = "answered" /\ load'[l].within = load[l].within
      /\ load'[l].rows = rows /\ load'[l].blur = blur
      /\ \A k \in Loads : k # l => load'[k] = load[k]
  BY DEF Load, MapTypeOK
<1>4. \A k \in Loads : InFlight(k)' = InFlight(k) /\ load'[k].within = load[k].within
  BY <1>3 DEF InFlight
<1>5. Away' = Away
  BY <1>4 DEF Away
<1>6. ~blur => Pending = {}
  BY DEF Pending
<1>7. History' /\ Ordered' = Ordered
  BY <1>2 DEF MapInv, History, Ordered
<1>8. (Synced => Ordered)'
  <2>1. Pending = {} => Ordered
    <3> SUFFICES ASSUME Pending = {} PROVE Ordered
      OBVIOUS
    <3>1. announce = {} /\ DOMAIN line = {}
      BY DEF Pending
    <3> QED
      BY <3>1 DEF Ordered
  <2>2. Synced' => Synced \/ ~blur
    BY <1>3 DEF Synced, Clean
  <2> QED
    BY <1>6, <1>7, <2>1, <2>2 DEF MapInv
<1>9. MarkersRight'
  BY <1>2, <1>5 DEF MapInv, MarkersRight, Right, Whole, Older
<1>10. ASSUME NEW k \in Loads PROVE RowsRight(k)' /\ ToCome(k)'
  <2>1. CASE k # l
    BY <1>2, <1>3, <1>4, <1>5, <2>1
    DEF MapInv, RowsRight, ToCome, Clean, Right, Whole, Older
  <2>2. CASE k = l
    <3>1. ToCome(l)'
      BY <1>3, <1>5 DEF MapInv, ToCome
    <3>2. CASE blur
      BY <1>3, <2>2, <3>1, <3>2 DEF RowsRight, Clean
    <3>3. CASE ~blur
      <4>1. rows = Listing(load[l].within) /\ Pending = {}
        BY <1>6, <3>3
      <4>2. rows = <<>> \/ (rows = <<Row>> /\ created /\ ~deleted)
        BY <4>1 DEF Listing
      <4>3. (Right(load[l].rows))' /\ (Older(load[l].rows))'
        <5>1. Len(rows) <= 1
          BY <4>2
        <5> QED
          BY <1>2, <1>3, <4>1, <4>2, <5>1 DEF Right, Older
      <4>4. \A i \in DOMAIN rows, j \in DOMAIN markers :
               markers[j].version <= rows[i].version
        <5>1. \A i \in DOMAIN rows : rows[i] = Row
          BY <4>2
        <5> QED
          BY <5>1, Numbers DEF MapInv, Past
      <4>5. IF load[l].within THEN (Whole(load[l].rows, FALSE))' ELSE rows = <<>>
        <5>1. CASE load[l].within
          <6>1. load[l].within = TRUE
            BY <5>1 DEF MapTypeOK, LoadRec
          <6>2. rows = Listing(TRUE)
            BY <4>1, <6>1
          <6> QED
            BY <1>2, <1>3, <4>2, <5>1, <6>2 DEF Whole
        <5>2. CASE ~load[l].within
          BY <4>1, <5>2 DEF Listing
        <5> QED
          BY <5>1, <5>2
      <4> QED
        BY <1>3, <2>2, <3>1, <4>3, <4>4, <4>5 DEF RowsRight
    <3> QED
      BY <3>2, <3>3
  <2> QED
    BY <2>1, <2>2
<1>11. Past'
  BY <1>3 DEF MapInv, Past
<1> QED
  BY <1>7, <1>8, <1>9, <1>10, <1>11 DEF MapInv

LEMMA AnswerKept ==
    ASSUME TypeOK, MapTypeOK, MapInv, NEW l \in Loads, Answer(l)
    PROVE  MapInv'
<1> DEFINE rows == Listing(load[l].within)
<1>1. PICK blur \in BOOLEAN :
         /\ load' = [load EXCEPT ![l] = Load("answered", load[l].within, rows, blur)]
         /\ ~blur => ~load[l].blur /\ announce = {} /\ line = <<>>
  BY DEF Answer
<1>2. InFlight(l) /\ UNCHANGED <<status, version, deleted, created, announce, line,
                                 inside, due, markers, apart>>
  BY DEF Answer, InFlight, vars, server, page
<1>3. rows \in Seq(Copy)
  BY ListingType DEF MapTypeOK, LoadRec
<1>4. \A i \in DOMAIN rows : rows[i].version <= version
  <2>1. rows = <<>> \/ rows = <<Row>>
    BY DEF Listing
  <2>2. \A i \in DOMAIN rows : rows[i] = Row
    BY <2>1
  <2> QED
    BY <2>2, Numbers
<1> HIDE DEF rows
<1>5. ~blur => /\ ~load[l].blur /\ announce = {} /\ line = <<>>
               /\ rows = Listing(load[l].within)
  BY <1>1 DEF rows
<1> QED
  BY <1>1, <1>2, <1>3, <1>4, <1>5, AnsweredKept

LEMMA FailKept ==
    ASSUME TypeOK, MapTypeOK, MapInv, NEW l \in Loads, Fail(l)
    PROVE  MapInv'
<1>1. load' = [load EXCEPT ![l] = Load("answered", load[l].within, <<>>, TRUE)]
  BY DEF Fail
<1>2. InFlight(l) /\ UNCHANGED <<status, version, deleted, created, announce, line,
                                 inside, due, markers, apart>>
  BY DEF Fail, vars, server, page
<1>3. <<>> \in Seq(Copy) /\ \A i \in DOMAIN <<>> : <<>>[i].version <= version
  OBVIOUS
<1> QED
  BY <1>1, <1>2, <1>3, AnsweredKept

(* Of all the loads only the one shown can leave the map without doubt.    *)
LEMMA ShownKept ==
    ASSUME TypeOK, MapTypeOK, MapInv, NEW l \in Loads, Show(l)
    PROVE  MapInv'
<1>1. /\ load[l].pc = "answered" /\ markers' = load[l].rows
      /\ apart' = ((apart /\ ~load[l].within) \/ load[l].blur)
      /\ load' = [k \in Loads |->
             IF k = l THEN NoLoad
             ELSE IF InFlight(k) THEN [load[k] EXCEPT !.blur = TRUE] ELSE load[k]]
      /\ UNCHANGED <<status, version, deleted, created, announce, line, inside, due>>
  BY DEF Show, ShowAs, vars, server
<1>2. Pending' = Pending /\ Row' = Row /\ (Listing(TRUE))' = Listing(TRUE)
  BY <1>1 DEF Pending, Row, Listing
<1>3. /\ load'[l] = NoLoad /\ ~InFlight(l)' /\ load'[l].rows = <<>>
      /\ \A k \in Loads : k # l =>
            /\ InFlight(k)' = InFlight(k) /\ load'[k].within = load[k].within
            /\ load'[k].rows = load[k].rows
            /\ InFlight(k) => load'[k].blur
  BY <1>1 DEF InFlight, NoLoad, Load, MapTypeOK, LoadRec
<1>4. \A k \in Loads : ~Clean(k)' /\ ToCome(k)'
  BY <1>3 DEF Clean, InFlight, ToCome
<1>5. History' /\ Ordered' = Ordered
  BY <1>1, <1>2 DEF MapInv, History, Ordered
<1>6. ~apart' => Clean(l) /\ (load[l].within \/ ~apart)
  BY <1>1 DEF Clean
<1>7. (Synced => Ordered)'
  BY <1>4, <1>5, <1>6 DEF MapInv, Synced
<1>8. MarkersRight'
  <2> SUFFICES ASSUME ~apart'
               PROVE  (Right(markers))' /\ (Whole(markers, Away))' /\ (Older(markers))'
    BY DEF MarkersRight
  <2>1. Right(load[l].rows) /\ Older(load[l].rows)
    BY <1>6 DEF MapInv, RowsRight
  <2>2. (Right(markers))' /\ (Older(markers))'
    BY <1>1, <1>2, <2>1 DEF Right, Older
  <2>3. CASE load[l].within
    <3>1. Whole(load[l].rows, FALSE)
      BY <1>6, <2>3 DEF MapInv, RowsRight
    <3>2. (Whole(markers, Away))'
      BY <1>1, <1>2, <3>1 DEF Whole
    <3> QED
      BY <2>2, <3>2
  \* the map is elsewhere, or a load that looks here is still to be shown
  <2>4. CASE ~load[l].within
    <3>1. load[l].rows = <<>> /\ Away
      BY <1>1, <1>6, <2>4 DEF MapInv, RowsRight, ToCome, Clean, InFlight
    <3>2. Away'
      BY <1>1, <1>3, <2>4, <3>1 DEF Away
    <3> QED
      BY <1>1, <2>2, <3>1, <3>2 DEF Whole
  <2> QED
    BY <2>3, <2>4
<1>9. \A k \in Loads : RowsRight(k)'
  BY <1>4 DEF RowsRight
<1>10. Past'
  <2>1. \A k \in Loads : \A i \in DOMAIN load'[k].rows : load'[k].rows[i].version <= version
    BY <1>3 DEF MapInv, Past
  <2> QED
    BY <1>1, <2>1 DEF MapInv, Past
<1> QED
  BY <1>4, <1>5, <1>7, <1>8, <1>9, <1>10 DEF MapInv

LEMMA MapStarts ==
    ASSUME MapInit
    PROVE  MapTypeOK /\ MapInv
<1>1. /\ status = "unverified" /\ version = 0 /\ deleted = FALSE
      /\ created = FALSE /\ announce = {} /\ line = <<>> /\ inside = TRUE /\ due = TRUE
      /\ load = [l \in Loads |-> NoLoad] /\ markers = <<>> /\ apart = FALSE
  BY DEF MapInit, Init
<1>2. <<>> \in Seq(Copy) /\ <<>> \in Seq(Event) /\ DOMAIN <<>> = {} /\ Len(<<>>) = 0
  OBVIOUS
<1>3. NoLoad \in LoadRec
  BY <1>2, LoadTyped DEF NoLoad
<1>4. MapTypeOK
  BY <1>1, <1>2, <1>3 DEF MapTypeOK
<1>5. Pending = {} /\ Away
  BY <1>1, <1>2 DEF Pending, Away
<1>6. \A l \in Loads : ~Clean(l) /\ load[l].rows = <<>>
  BY <1>1 DEF Clean, NoLoad, Load
<1>7. History /\ Ordered
  BY <1>1, <1>2, <1>5 DEF History, Ordered
<1>8. MarkersRight
  BY <1>1, <1>2, <1>5 DEF MarkersRight, Right, Whole, Older
<1>9. \A l \in Loads : RowsRight(l) /\ ToCome(l)
  BY <1>5, <1>6 DEF RowsRight, ToCome
<1>10. Past
  BY <1>1, <1>2, <1>6 DEF Past
<1> QED
  BY <1>4, <1>7, <1>8, <1>9, <1>10 DEF MapInv

LEMMA MapSteps ==
    ASSUME TypeOK, TypeOK', MapTypeOK, MapTypeOK', MapInv, [MapNext]_mapVars
    PROVE  MapInv'
<1>1. CASE Post
  BY <1>1, PostKept
<1>2. ASSUME NEW s \in Slots, PatchRow(s) PROVE MapInv'
  BY <1>2, PatchKept
<1>3. ASSUME NEW s \in Slots, DeleteRow(s) PROVE MapInv'
  BY <1>3, DeleteKept
<1>4. ASSUME NEW e \in announce, Emit(e) PROVE MapInv'
  BY <1>4, EmitKept
<1>5. CASE Disconnect
  BY <1>5, DisconnectKept
<1>6. CASE Hear
  BY <1>6, HearKept
<1>7. CASE Move
  BY <1>7, MoveKept
<1>8. ASSUME NEW l \in Loads, Ask(l) PROVE MapInv'
  BY <1>8, AskKept
<1>9. ASSUME NEW l \in Loads, Answer(l) PROVE MapInv'
  BY <1>9, AnswerKept
<1>10. ASSUME NEW l \in Loads, Fail(l) PROVE MapInv'
  BY <1>10, FailKept
<1>11. ASSUME NEW l \in Loads, Show(l) PROVE MapInv'
  BY <1>11, ShownKept
<1>12. CASE UNCHANGED mapVars
  BY <1>12, Framed DEF mapVars, vars, server, page
<1> QED
  BY <1>1, <1>2, <1>3, <1>4, <1>5, <1>6, <1>7, <1>8, <1>9, <1>10, <1>11, <1>12
  DEF MapNext

LEMMA MapInvariant == MapSpec => [](TypeOK /\ MapTypeOK /\ MapInv)
<1>1. MapInit => MapTypeOK /\ MapInv
  BY MapStarts
<1>2. TypeOK /\ TypeOK' /\ MapTypeOK /\ MapInv /\ [MapNext]_mapVars
      => MapTypeOK' /\ MapInv'
  BY MapTypes, MapSteps
<1> QED
  BY <1>1, <1>2, MapKeepsRow, TypeCorrect, PTL DEF MapSpec

(* Once everything announced has been heard and every load shown, the map  *)
(* shows the incident as the table has it, whatever the interleaving of    *)
(* requests, events and loads (MarkersAreCurrent): MapPage's listeners and *)
(* fetchIncidents go wrong in no way but those the model names.            *)
THEOREM MarkersCurrent == MapSpec => []MarkersAreCurrent
<1>1. MapTypeOK /\ MapInv => MarkersAreCurrent
  <2> SUFFICES ASSUME MapTypeOK, MapInv, Settled, inside, ~apart
               PROVE  \/ markers = Listing(TRUE)
                      \/ created /\ ~deleted /\ status # "unverified" /\ markers = <<Row>>
    BY DEF MarkersAreCurrent
  <2>1. Pending = {} /\ ~Away
    <3>1. DOMAIN line = {} /\ announce = {}
      BY DEF Settled
    <3> QED
      BY <3>1 DEF Settled, Pending, Away
  <2>2. Right(markers) /\ Whole(markers, FALSE)
    BY <2>1 DEF MapInv, MarkersRight, Whole
  <2>3. CASE markers = <<Row>>
    <3>1. created /\ ~deleted
      BY <2>2, <2>3 DEF Right
    <3> QED
      BY <2>3, <3>1 DEF Listing
  <2>4. CASE markers # <<Row>>
    BY <2>1, <2>2, <2>4 DEF Whole
  <2> QED
    BY <2>3, <2>4
<1> QED
  BY <1>1, MapInvariant, PTL

(* An event heard undoubted is newer than all the map shows.               *)
LEMMA HearForward ==
    ASSUME TypeOK, MapTypeOK, MapTypeOK', MapInv, Hear, Regress
    PROVE  apart'
<1> SUFFICES ASSUME ~apart' PROVE FALSE
  OBVIOUS
<1> DEFINE e == Head(line)
<1>1. /\ line # <<>> /\ markers' = Shown(e) /\ ~apart
      /\ UNCHANGED deleted
  BY DEF Hear, vars
<1>2. Right(markers) /\ Older(markers)
  BY <1>1 DEF MapInv, MarkersRight
<1>3. e \in Pending
  <2>1. line \in Seq(Event) /\ 1 \in DOMAIN line /\ e = line[1]
    BY <1>1 DEF MapTypeOK
  <2> QED
    BY <2>1 DEF Pending
<1>4. markers \in Seq(Copy) /\ markers' \in Seq(Copy)
  BY DEF MapTypeOK
<1>5. CASE markers = <<>>
  <2>1. deleted /\ e.event # "created"
    BY <1>2, <1>3, <1>5 DEF Regress, Right
  <2>2. DOMAIN markers' = DOMAIN markers
    BY <1>1, <2>1 DEF Shown
  <2> QED
    BY <1>5, <2>2 DEF Regress
<1>6. CASE markers # <<>>
  <2>1. e.event # "created"
    BY <1>2, <1>3, <1>6 DEF Right
  <2>2. /\ DOMAIN markers' = DOMAIN markers
        /\ \A i \in DOMAIN markers : markers'[i] = e.copy
    BY <1>1, <2>1 DEF Shown
  <2>3. PICK i \in DOMAIN markers : \A j \in DOMAIN markers :
           markers'[i].version < markers[j].version
    BY <2>2 DEF Regress
  <2>4. e.copy.version < markers[i].version
    BY <2>2, <2>3
  <2>5. markers[i].version < e.copy.version
    BY <1>2, <1>3 DEF Older
  <2> QED
    BY <1>3, <2>4, <2>5, Numbers
<1> QED
  BY <1>5, <1>6

(* An answer shown undoubted is no older than what the map shows.          *)
LEMMA ShowForward ==
    ASSUME TypeOK, MapTypeOK, MapInv, NEW l \in Loads, Show(l), Regress
    PROVE  apart'
<1> SUFFICES ASSUME ~apart' PROVE FALSE
  OBVIOUS
<1>1. markers' = load[l].rows /\ Clean(l)
  BY DEF Show, ShowAs, Clean
<1>2. /\ Right(load[l].rows)
      /\ \A i \in DOMAIN load[l].rows, j \in DOMAIN markers :
            markers[j].version <= load[l].rows[i].version
  BY <1>1 DEF MapInv, RowsRight
<1>3. PICK i \in DOMAIN load[l].rows : \A j \in DOMAIN markers :
         load[l].rows[i].version < markers[j].version
  BY <1>1 DEF Regress
<1>4. CASE markers = <<>>
  <2>1. deleted
    BY <1>4 DEF Regress
  <2>2. load[l].rows = <<>>
    BY <1>2, <2>1 DEF Right
  <2> QED
    BY <1>3, <2>2
<1>5. CASE markers # <<>>
  <2>1. 1 \in DOMAIN markers
    BY <1>5 DEF MapTypeOK
  <2>2. /\ load[l].rows[i].version < markers[1].version
        /\ markers[1].version <= load[l].rows[i].version
    BY <1>2, <1>3, <2>1
  <2> QED
    BY <1>3, <2>1, <2>2, Numbers
<1> QED
  BY <1>4, <1>5

(* Hearing and loading move the map forward (BackwardsForACause): a marker *)
(* that goes back, or comes back, is the work of one of the named ways.    *)
THEOREM NoBackwards == MapSpec => BackwardsForACause
<1>1. /\ TypeOK /\ MapTypeOK /\ MapTypeOK' /\ MapInv /\ [MapNext]_mapVars
      => [Regress => apart']_mapVars
  <2> SUFFICES ASSUME TypeOK, MapTypeOK, MapTypeOK', MapInv, MapNext, Regress
               PROVE  apart'
    OBVIOUS
  <2>1. ASSUME markers' = markers PROVE FALSE
    <3>1. PICK i \in DOMAIN markers : \A j \in DOMAIN markers :
             markers[i].version < markers[j].version
      BY <2>1 DEF Regress
    <3>2. markers[i].version < markers[i].version
      BY <3>1
    <3> QED
      BY <3>1, <3>2, Numbers
  <2>2. Hear \/ \E l \in Loads : Show(l)
    <3> SUFFICES ASSUME ~Hear, ~\E l \in Loads : Show(l) PROVE markers' = markers
      BY <2>1
    <3> QED
      BY PatchEffect, DeleteEffect
      DEF MapNext, Post, Emit, Disconnect, Move, Ask, Answer, Fail, page
  <2> QED
    BY <2>2, HearForward, ShowForward
<1> QED
  BY <1>1, MapInvariant, PTL DEF MapSpec, BackwardsForACause
============================================================================
