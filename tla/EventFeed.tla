------------------------------ MODULE EventFeed -----------------------------
(***************************************************************************)
(* A workspace's event log and its WebSocket feed: appendWorkspaceEvent,    *)
(* publishEvent, SubscribeWithOverflow and the event queries of             *)
(* internal/relayfile/store.go, and handleFileEventsWebSocket of            *)
(* internal/httpapi/websocket.go.                                           *)
(*                                                                          *)
(* A writer appends and publishes under s.mu and saves before it unlocks;   *)
(* the handler reads pages under s.mu and takes published events without    *)
(* it.  One workspace, one subscriber with one connection at a time.  What  *)
(* an event says is left out; its kind says what the subscriber may see.    *)
(* `serial' tells apart two events that got the same id, one before and one *)
(* after a crash.                                                           *)
(***************************************************************************)
EXTENDS Integers, Sequences, Functions

CONSTANTS
    Kinds,        \* the kinds of event that occur, see Event
    MaxSerial,    \* bound on the events ever appended
    Buffered,     \* webSocketLiveSubscriptionBuffer
    PageSize,     \* pageSize of webSocketCatchUpEvents
    Recent,       \* events of the legacy catch-up
    WireSize,     \* messages on their way before a send blocks
    CleanStops,   \* restarts happen only while no writer holds s.mu
    MaxCrashes    \* bound on restarts

ASSUME FeedAssumption ==
    /\ Kinds \subseteq {"wanted", "unwanted", "hidden"}
    /\ MaxSerial \in Nat \ {0}
    /\ Buffered \in Nat \ {0} /\ PageSize \in Nat \ {0}
    /\ Recent \in Nat \ {0} /\ WireSize \in Nat \ {0}
    /\ CleanStops \in BOOLEAN /\ MaxCrashes \in Nat

VARIABLES
    log,        \* ws.Events
    disk,       \* ws.Events of the last snapshot
    writing,    \* a writer holds s.mu
    serials,    \* events appended so far
    sub,        \* the eventSubscriber and its channel
    handler,    \* handleFileEventsWebSocket
    wire,       \* messages sent and not yet received
    crashes

storeVars == <<log, disk, writing, serials, crashes>>
feedVars  == <<sub, handler, wire>>

(* A wanted event matches the subscription's path filters, an unwanted one  *)
(* does not, a hidden one may not be read by the subscriber.                *)
Event == [id : 1..MaxSerial, serial : 1..MaxSerial, kind : Kinds]

NoCursor == 0
Cursors  == 0..MaxSerial

NoSub  == [on |-> FALSE, events |-> <<>>, overflowed |-> FALSE, signal |-> FALSE]
NoConn == [pc |-> "closed", cursor |-> NoCursor, catchUp |-> <<>>, ids |-> {}]

FeedTypeOK ==
    /\ log \in Seq(Event) /\ disk \in Seq(Event)
    /\ writing \in BOOLEAN
    /\ serials \in 0..MaxSerial /\ crashes \in 0..MaxCrashes
    /\ sub \in [on : BOOLEAN, events : Seq(Event), overflowed : BOOLEAN,
                signal : BOOLEAN]
    /\ Len(sub.events) <= Buffered
    /\ handler \in [pc : {"closed", "paging", "sending", "live"},
                    cursor : Cursors, catchUp : Seq(Event),
                    ids : SUBSET (1..MaxSerial)]
    /\ wire \in Seq(Event) /\ Len(wire) <= WireSize

-----------------------------------------------------------------------------
(* The loop that keeps the events of a page that are in a set, in their     *)
(* order.                                                                   *)
Keep(events, set) ==
    LET kept[i \in 0..Len(events)] ==
          IF i = 0 THEN <<>>
          ELSE IF events[i] \in set THEN Append(kept[i - 1], events[i])
          ELSE kept[i - 1]
    IN  kept[Len(events)]

-----------------------------------------------------------------------------
(* The store *)

(* Mutant: a subscriber that missed an event is given the later ones. *)
publishEventUnlatched(e) ==
    IF sub.on /\ Len(sub.events) < Buffered
    THEN [sub EXCEPT !.events = Append(@, e)]
    ELSE [sub EXCEPT !.signal = @ \/ sub.on, !.overflowed = sub.on]

(* Mutant: the overflow is latched and nobody is told. *)
publishEventUnsignalled(e) ==
    IF ~sub.on \/ sub.overflowed THEN sub
    ELSE IF Len(sub.events) < Buffered
         THEN [sub EXCEPT !.events = Append(@, e)]
         ELSE [sub EXCEPT !.overflowed = TRUE]

(* The subscriber after publishEvent: a full channel latches the overflow   *)
(* and signals it once.                                                     *)
publishEvent(e) ==
    IF ~sub.on \/ sub.overflowed THEN sub
    ELSE IF Len(sub.events) < Buffered
         THEN [sub EXCEPT !.events = Append(@, e)]
         ELSE [sub EXCEPT !.overflowed = TRUE, !.signal = TRUE]

(* appendWorkspaceEventLocked by a writer that has or takes s.mu. *)
appendWorkspaceEvent(kind) ==
    LET e == [id |-> Len(log) + 1, serial |-> serials + 1, kind |-> kind]
    IN  /\ serials < MaxSerial
        /\ serials' = serials + 1
        /\ log' = Append(log, e)
        /\ writing' = TRUE
        /\ sub' = publishEvent(e)
        /\ UNCHANGED <<disk, crashes, handler, wire>>

(* The writer saves and unlocks. *)
SaveAndUnlock ==
    /\ writing
    /\ writing' = FALSE
    /\ disk' = log
    /\ UNCHANGED <<log, serials, crashes, feedVars>>

(* The place of the event a cursor names, 0 if there is none. *)
IndexOf(cursor) ==
    IF \E i \in DOMAIN log : log[i].id = cursor
    THEN CHOOSE i \in DOMAIN log : log[i].id = cursor
    ELSE 0

(* At most `limit' events after the cursor; none if the cursor is unknown.  *)
GetEventsAfterCursor(cursor, limit) ==
    IF IndexOf(cursor) = 0 THEN <<>>
    ELSE SubSeq(log, IndexOf(cursor) + 1,
                IF IndexOf(cursor) + limit < Len(log) THEN IndexOf(cursor) + limit
                                                      ELSE Len(log))

GetRecentEvents(limit) ==
    SubSeq(log, IF Len(log) > limit THEN Len(log) - limit + 1 ELSE 1, Len(log))

(* visibleEvents over GetEvents, as one read of the append-only log: what   *)
(* the caller may see after the cursor, and of the whole log if the cursor  *)
(* is unknown or missing.                                                   *)
visibleEvents(cursor) ==
    Keep(SubSeq(log, IndexOf(cursor) + 1, Len(log)),
         {e \in Range(log) : e.kind # "hidden"})

-----------------------------------------------------------------------------
(* handleFileEventsWebSocket *)

(* The handler subscribes before it reads; that needs no s.mu. *)
Accept(cursor, legacy) ==
    /\ handler.pc = "closed"
    /\ sub' = [NoSub EXCEPT !.on = TRUE]
    /\ handler' =
         IF cursor = NoCursor /\ ~legacy
         THEN [NoConn EXCEPT !.pc = "sending"]
         ELSE [NoConn EXCEPT !.pc = "paging", !.cursor = cursor]

(* One page of webSocketCatchUpEvents, under s.mu; a short page is the      *)
(* last, and what was collected is sent next.                               *)
webSocketCatchUpPage ==
    /\ handler.pc = "paging"
    /\ ~writing
    /\ LET page == IF handler.cursor = NoCursor THEN GetRecentEvents(Recent)
                   ELSE GetEventsAfterCursor(handler.cursor, PageSize)
           last == handler.cursor = NoCursor \/ Len(page) < PageSize
           events == handler.catchUp \o page
       IN  handler' = [handler EXCEPT
             !.catchUp = events,
             !.pc = IF last THEN "sending" ELSE "paging",
             !.cursor = IF last THEN @ ELSE page[Len(page)].id,
             !.ids = IF last THEN {e.id : e \in Range(events)} ELSE {}]
    /\ UNCHANGED <<storeVars, sub, wire>>

(* Sends an event that the filters and the permissions let through. *)
writeWebSocketEvent(e) ==
    \/ /\ e.kind = "wanted"
       /\ Len(wire) < WireSize
       /\ wire' = Append(wire, e)
    \/ /\ e.kind # "wanted"
       /\ UNCHANGED wire

SendCatchUp ==
    /\ handler.pc = "sending"
    /\ \/ /\ handler.catchUp = <<>>
          /\ handler' = [handler EXCEPT !.pc = "live"]
          /\ UNCHANGED wire
       \/ /\ handler.catchUp # <<>>
          /\ writeWebSocketEvent(Head(handler.catchUp))
          /\ handler' = [handler EXCEPT !.catchUp = Tail(@)]
    /\ UNCHANGED <<storeVars, sub>>

(* The select takes a published event; one that was sent during catch-up is *)
(* skipped once.                                                            *)
SendLive ==
    /\ handler.pc = "live"
    /\ sub.events # <<>>
    /\ sub' = [sub EXCEPT !.events = Tail(@)]
    /\ LET e == Head(sub.events)
       IN  \/ /\ e.kind # "unwanted" /\ e.id \in handler.ids
              /\ handler' = [handler EXCEPT !.ids = @ \ {e.id}]
              /\ UNCHANGED wire
           \/ /\ e.kind = "unwanted" \/ e.id \notin handler.ids
              /\ writeWebSocketEvent(e)
              /\ UNCHANGED handler
    /\ UNCHANGED storeVars

(* The select takes the overflow signal: StatusTryAgainLater, and what is   *)
(* still buffered is dropped.                                               *)
CloseOnOverflow ==
    /\ handler.pc = "live"
    /\ sub.signal
    /\ sub' = NoSub
    /\ handler' = NoConn
    /\ UNCHANGED <<storeVars, wire>>

(* The connection breaks: the handler returns and unsubscribes, messages    *)
(* under way are lost.                                                      *)
Disconnect ==
    /\ sub' = NoSub
    /\ handler' = NoConn
    /\ wire' = <<>>

(* The process stops, in a crash at any point of a writer's critical        *)
(* section, and loads the last snapshot.                                    *)
Restart ==
    /\ crashes < MaxCrashes
    /\ CleanStops => ~writing
    /\ crashes' = crashes + 1
    /\ log' = disk
    /\ writing' = FALSE
    /\ UNCHANGED <<disk, serials>>
    /\ Disconnect

(* The store starts with one saved event. *)
FeedInit ==
    /\ \E k \in Kinds : log = <<[id |-> 1, serial |-> 1, kind |-> k]>>
    /\ disk = log /\ writing = FALSE
    /\ serials = 1 /\ crashes = 0
    /\ sub = NoSub /\ handler = NoConn /\ wire = <<>>

FeedNext ==
    \/ \E k \in Kinds : appendWorkspaceEvent(k)
    \/ SaveAndUnlock
    \/ webSocketCatchUpPage
    \/ SendCatchUp
    \/ SendLive
    \/ CloseOnOverflow
=============================================================================
