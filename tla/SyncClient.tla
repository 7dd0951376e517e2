----------------------------- MODULE SyncClient -----------------------------
(***************************************************************************)
(* RelayFileSync of packages/sdk/typescript/src/sync.ts against EventFeed:  *)
(* it streams events over a WebSocket, reconnects with its cursor, and      *)
(* falls back to polling the event feed, which yields to the WebSocket      *)
(* again.                                                                   *)
(*                                                                          *)
(* JavaScript runs one callback at a time, so a callback is one action.     *)
(* Heartbeats, error timers and back-off decide only when a connection is   *)
(* given up: a connection may be lost, and a poll request fail, at any      *)
(* time.                                                                    *)
(***************************************************************************)
EXTENDS EventFeed

CONSTANTS
    Starts,       \* ways to start: with a cursor, from now, or legacy
    Fallback,     \* a WebSocket may fail before it opens
    PollLimit,    \* events per poll request
    DedupeLimit,  \* POLLING_DEDUPE_CACHE_LIMIT
    MaxDrops      \* bound on connections lost or refused, requests failed

ASSUME ClientAssumption ==
    /\ Starts \subseteq {"cursor", "now", "legacy"}
    /\ Fallback \in BOOLEAN
    /\ PollLimit \in Nat \ {0} /\ DedupeLimit \in Nat \ {0}
    /\ MaxDrops \in Nat

VARIABLES
    client,   \* the RelayFileSync object
    since,    \* history: the client owes its handlers what comes after this
    emitted,  \* history: events given to the handlers
    silenced, \* history: owed events the first poll passed in silence
    dropped,  \* history: events that a failed poll had read and let go
    drops     \* history: connections lost or refused, requests failed

clientVars == <<client, since, emitted, silenced, dropped, drops>>
syncVars == <<storeVars, feedVars, clientVars>>

(* polledCursor, polledLatest and pending are locals of pollLoop. *)
Client == [state : {"reconnecting", "open", "polling"},
           from : {"cursor", "now", "legacy"}, cursor : Cursors,
           firstPollComplete : BOOLEAN, polledEventOrder : Seq(1..MaxSerial),
           polledCursor : Cursors, polledLatest : Cursors,
           pending : Seq(Event)]

SyncTypeOK ==
    /\ FeedTypeOK
    /\ client \in Client
    /\ since \in Cursors \cup {-1}
    /\ emitted \in Seq(Event)
    /\ silenced \subseteq 1..MaxSerial
    /\ dropped \subseteq 1..MaxSerial
    /\ drops \in 0..MaxDrops

(* The cursor moves; before the first one nothing is owed. *)
SetCursor(c) ==
    since' = IF since = -1 /\ c # NoCursor THEN c ELSE since

-----------------------------------------------------------------------------
(* The WebSocket *)

openWebSocket ==
    /\ client.state = "reconnecting"
    /\ wire = <<>>
    /\ Accept(client.cursor, client.from = "legacy")
    /\ client' = [client EXCEPT !.state = "open"]
    /\ UNCHANGED <<storeVars, wire, since, emitted, silenced, dropped, drops>>

handleSocketMessage ==
    /\ client.state = "open"
    /\ wire # <<>>
    /\ wire' = Tail(wire)
    /\ LET e == Head(wire)
       IN  /\ client' = [client EXCEPT !.cursor = e.id]
           /\ emitted' = Append(emitted, e)
           /\ SetCursor(e.id)
    /\ UNCHANGED <<storeVars, sub, handler, silenced, dropped, drops>>

(* The server closed the socket: the close comes after its messages. *)
SocketClosed ==
    /\ client.state = "open"
    /\ handler.pc = "closed" /\ wire = <<>>
    /\ client' = [client EXCEPT !.state = "reconnecting"]
    /\ UNCHANGED <<storeVars, feedVars, since, emitted, silenced, dropped, drops>>

(* The connection is lost, or the heartbeat gives it up. *)
forceReconnect ==
    /\ client.state = "open"
    /\ drops < MaxDrops
    /\ drops' = drops + 1
    /\ Disconnect
    /\ client' = [client EXCEPT !.state = "reconnecting"]
    /\ UNCHANGED <<storeVars, since, emitted, silenced, dropped>>

-----------------------------------------------------------------------------
(* Polling *)

NewPoll(c) == [c EXCEPT !.polledCursor = c.cursor, !.polledLatest = c.cursor,
                        !.pending = <<>>]

(* The socket fails before it opened, its factory throws or there is no     *)
(* token.                                                                   *)
startPolling ==
    /\ Fallback
    /\ client.state = "reconnecting"
    /\ drops < MaxDrops
    /\ drops' = drops + 1
    /\ client' = NewPoll([client EXCEPT !.state = "polling"])
    /\ UNCHANGED <<storeVars, feedVars, since, emitted, silenced, dropped>>

(* polledEventOrder after an event: the dedupe cache forgets its oldest id. *)
rememberPolledEvent(order, id) ==
    LET longer == Append(order, id)
    IN  IF id \in Range(order) THEN order
        ELSE IF Len(longer) > DedupeLimit THEN Tail(longer)
        ELSE longer

(* ... and after each of the first events of a page. *)
Remembered(order, events) ==
    LET after[k \in 0..Len(events)] ==
          IF k = 0 THEN order
          ELSE rememberPolledEvent(after[k - 1], events[k].id)
    IN  after

(* The events of a page whose ids are not in the cache when their turn      *)
(* comes.                                                                   *)
NotPolled(order, events) ==
    LET after == Remembered(order, events)
    IN  Keep(events, {events[k] : k \in {n \in 1..Len(events) :
                                    events[n].id \notin Range(after[n - 1])}})

(* One request of pollLoop, answered under s.mu.  The first poll of the     *)
(* object only moves the cursor.  After the last page the cursor is set and *)
(* what is pending emitted, in one go.                                      *)
pollLoop ==
    /\ client.state = "polling"
    /\ ~writing
    /\ LET visible == visibleEvents(client.polledCursor)
           more == Len(visible) > PollLimit
           events == IF more THEN SubSeq(visible, 1, PollLimit) ELSE visible
           fresh == NotPolled(client.polledEventOrder, events)
           latest == IF events = <<>> THEN client.polledLatest
                                      ELSE events[Len(events)].id
           pending == IF client.firstPollComplete THEN client.pending \o fresh
                                                  ELSE <<>>
           polled == [client EXCEPT
                        !.polledEventOrder = Remembered(@, events)[Len(events)]]
           silent == {e \in Range(events) : e.kind = "wanted" /\ since >= 0}
       IN  /\ silenced' = silenced \cup
                (IF client.firstPollComplete THEN {}
                 ELSE {e.serial : e \in silent})
           /\ \/ /\ more
                 /\ client' = [polled EXCEPT !.polledCursor = latest,
                                             !.polledLatest = latest,
                                             !.pending = pending]
                 /\ UNCHANGED <<since, emitted>>
              \/ /\ ~more
                 /\ client' = NewPoll([polled EXCEPT !.cursor = latest,
                                                     !.firstPollComplete = TRUE])
                 /\ emitted' = emitted \o Keep(pending, {e \in Range(pending) :
                                                        e.kind = "wanted"})
                 /\ SetCursor(latest)
    /\ UNCHANGED <<storeVars, feedVars, dropped, drops>>

Wanted(events) == {e \in Range(events) : e.kind = "wanted"}

(* A request of pollLoop fails.  The events of the pages before it are let  *)
(* go and stay remembered; an abort ends the loop, any other error starts   *)
(* the poll again from the cursor.                                          *)
pollFails ==
    /\ client.state = "polling"
    /\ drops < MaxDrops
    /\ drops' = drops + 1
    /\ \E state \in {"polling", "reconnecting"} :
         client' = NewPoll([client EXCEPT !.state = state])
    /\ dropped' = dropped \cup {e.serial : e \in Wanted(client.pending)}
    /\ UNCHANGED <<storeVars, feedVars, since, emitted, silenced>>

(* Between two polls the loop ends when the WebSocket is due again. *)
pollLoopYields ==
    /\ client.state = "polling"
    /\ client.polledCursor = client.cursor
    /\ client' = [client EXCEPT !.state = "reconnecting"]
    /\ UNCHANGED <<storeVars, feedVars, since, emitted, silenced, dropped, drops>>

-----------------------------------------------------------------------------
SyncInit ==
    /\ FeedInit
    /\ \E from \in Starts :
         /\ client = [state |-> "reconnecting", from |-> from,
                      cursor |-> IF from = "cursor" THEN 1 ELSE NoCursor,
                      firstPollComplete |-> FALSE, polledEventOrder |-> <<>>,
                      polledCursor |-> NoCursor, polledLatest |-> NoCursor,
                      pending |-> <<>>]
         /\ since = IF from = "cursor" THEN 1 ELSE -1
    /\ emitted = <<>> /\ silenced = {} /\ dropped = {} /\ drops = 0

ClientNext ==
    \/ openWebSocket
    \/ handleSocketMessage
    \/ SocketClosed
    \/ forceReconnect
    \/ startPolling
    \/ pollLoop
    \/ pollFails
    \/ pollLoopYields

SyncNext ==
    \/ FeedNext /\ UNCHANGED clientVars
    \/ ClientNext
    \/ Restart /\ UNCHANGED clientVars

SyncSpec == SyncInit /\ [][SyncNext]_syncVars

(* Writers end their critical sections, the handler takes what its select   *)
(* offers, the client reconnects and reads, and a poll loop goes on until   *)
(* the WebSocket is due again.                                              *)
Fairness ==
    /\ WF_syncVars(SaveAndUnlock /\ UNCHANGED clientVars)
    /\ WF_syncVars((webSocketCatchUpPage \/ SendCatchUp \/ SendLive
                  \/ CloseOnOverflow) /\ UNCHANGED clientVars)
    /\ WF_syncVars(openWebSocket \/ handleSocketMessage \/ SocketClosed)
    /\ WF_syncVars(pollLoop \/ pollLoopYields)

FairSpec == SyncSpec /\ Fairness

-----------------------------------------------------------------------------
(* Properties *)

Emitted == {e.serial : e \in Range(emitted)}

(* RF-WS-001, "reconnect resumes exclusively from the last cursor", and     *)
(* what the handler's comments promise: the handlers see events in the      *)
(* order of the log and none twice, whatever catch-up, live delivery,       *)
(* overflow, reconnects and polling overlap.                                *)
EmittedInOrder ==
    \A i, j \in DOMAIN emitted : i < j => emitted[i].serial < emitted[j].serial

(* RF-WS-002, "resumes from a durable cursor without gaps", as far as the   *)
(* code keeps it: a cursor passes no wanted event that the handlers have    *)
(* not seen, but for what a first poll has passed and what a poll had read  *)
(* when one of its later requests failed.                                   *)
NothingSkipped ==
    \A e \in Range(log) :
      (e.kind = "wanted" /\ since >= 0 /\ since < e.id /\ e.id <= client.cursor)
        => e.serial \in Emitted \cup silenced \cup dropped

(* sync.ts says that a socket opened after polling "resumes exactly where   *)
(* polling left off (no gap, no replay)": the cursor passes no wanted event *)
(* that the handlers have not seen, but for what a first poll has passed.   *)
(* A poll whose second request fails breaks it: the events of its first     *)
(* page are dropped, the retry skips them as polled and passes them.        *)
PollingLeavesNoGap ==
    \A e \in Range(log) :
      (e.kind = "wanted" /\ since >= 0 /\ since < e.id /\ e.id <= client.cursor)
        => e.serial \in Emitted \cup silenced

(* sync.ts: while polling "live events will be delayed".  The poll that     *)
(* takes over from a failed WebSocket does not pass over events that the    *)
(* client has asked for.                                                    *)
FallbackOnlyDelays == silenced = {}

(* Every wanted event after the client's cursor is emitted in the end,      *)
(* unless a first poll has passed it or a failed poll has let it go.        *)
CatchesUp ==
    \A s \in 1..MaxSerial :
      (\E e \in Range(log) : e.serial = s /\ e.kind = "wanted"
                             /\ since >= 0 /\ since < e.id)
        ~> (s \in Emitted \cup silenced \cup dropped)
=============================================================================
