----------------------------- MODULE FuseMount -----------------------------
(***************************************************************************)
(* The FUSE mount (internal/mountfuse) at one file of one directory, in a   *)
(* repository whose files the server fetches at the first look.  Kernel     *)
(* requests run concurrently; they read through two caches, entries of      *)
(* which pass away with time and are thrown out by the events of a          *)
(* WebSocket, and write with the revision their handle has read.  The HTTP  *)
(* client sends a request again when its answer is lost.                    *)
(***************************************************************************)
EXTENDS Naturals, Sequences

CONSTANTS
    Handles,      \* descriptions of the open file
    Requests,     \* requests the kernel has running at a time
    Uses,         \* sets of kinds of requests the kernel may mix
    MaxRevision,  \* bound on the revisions the server hands out
    MaxWrites,    \* bound on the writes into buffers
    MaxCalls      \* bound on the requests the kernel makes

VARIABLES
    uses,         \* the kinds of requests of this behaviour
    server,       \* the file's revision at the server, 0 when it has none
    stored,       \* history: the content every revision stored
    events,       \* events of the file on their way to the invalidator
    socket,       \* WSInvalidator: "up", "down"
    fileCache,    \* fsState.fileCache: [rev, text], or NoFile
    dirCache,     \* fsState.dirCache: the revision the listing shows, 0 for no file; or {}
    repo,         \* LazyMaterializeCache: "unknown", "loading", "ready"
    node,         \* FileNode: revision and content its attributes come from
    handle,       \* FileHandle: [open, buf, revision, dirty, writeGen]
    request,      \* what each request is doing
    writes,       \* writes into buffers so far
    made          \* requests made so far

(* A request that has no handle names none of them.                         *)
ASSUME FuseBounds == "none" \notin Handles

fuseVars == <<uses, server, stored, events, socket, fileCache, dirCache, repo, node,
              handle, request, writes, made>>
serverVars == <<uses, server, stored, events>>

Empty == <<>>
NoFile == [rev |-> 0, text |-> Empty]
Closed == [open |-> FALSE, buf |-> Empty, revision |-> 0, dirty |-> FALSE, writeGen |-> 0]
NoRequest == [at |-> "idle", kind |-> "none", h |-> "none", file |-> NoFile, base |-> 0, gen |-> 0]

Listing == {"lookup", "readdir", "create", "unlink"}   \* requests that list the directory first

FuseInit ==
    /\ uses \in Uses
    /\ server = 0 /\ stored = <<>> /\ events = 0 /\ socket = "up"
    /\ fileCache = NoFile /\ dirCache = {} /\ node = NoFile
    /\ repo = "unknown"
    /\ handle = [h \in Handles |-> Closed]
    /\ request = [r \in Requests |-> NoRequest]
    /\ writes = 0 /\ made = 0

RequestEnds(r) == request' = [request EXCEPT ![r] = NoRequest]
RequestAt(r, at) == request' = [request EXCEPT ![r].at = at]
OnHandle(h) == {r \in Requests : request[r].h = h}

(* Requests are alike, and so are handles: the next one is any free one.    *)
Idle(r) ==
    LET free == {q \in Requests : request[q].at = "idle"}
    IN  free # {} /\ r = CHOOSE q \in free : TRUE
Unopened(h) ==
    LET free == {k \in Handles : ~handle[k].open /\ OnHandle(k) = {}}
    IN  free # {} /\ h = CHOOSE k \in free : TRUE

--------------------------------------------------------------------------
(* The server and its other clients                                         *)

Announced == IF socket = "up" THEN events + 1 ELSE events

Stores(text) ==
    /\ Len(stored) < MaxRevision
    /\ stored' = Append(stored, text)
    /\ server' = Len(stored')
    /\ events' = Announced

RemoteWrites ==
    /\ Stores(<<"remote", Len(stored) + 1>>)
    /\ UNCHANGED <<uses, socket, fileCache, dirCache, repo, node, handle, request, writes, made>>

RemoteDeletes ==
    /\ server # 0
    /\ server' = 0 /\ events' = Announced
    /\ UNCHANGED <<uses, stored, socket, fileCache, dirCache, repo, node, handle, request, writes, made>>

--------------------------------------------------------------------------
(* The invalidator and the caches                                           *)

invalidate == fileCache' = NoFile /\ dirCache' = {}

handleEvent ==
    /\ socket = "up" /\ events > 0
    /\ events' = events - 1
    /\ invalidate
    /\ UNCHANGED <<uses, server, stored, socket, repo, node, handle, request, writes, made>>

SocketFails ==
    /\ socket = "up" /\ socket' = "down" /\ events' = 0
    /\ UNCHANGED <<uses, server, stored, fileCache, dirCache, repo, node, handle, request, writes, made>>

(* A connection without a cursor begins with the last events there were.    *)
(* The invalidator may also never connect again: it gives up after refused  *)
(* credentials and after ten failures in a row.                             *)
Connects ==
    /\ socket = "down" /\ socket' = "up"
    /\ events' = IF stored = <<>> THEN 0 ELSE 1
    /\ UNCHANGED <<uses, server, stored, fileCache, dirCache, repo, node, handle, request, writes, made>>

FileExpires ==
    /\ fileCache # NoFile /\ fileCache' = NoFile
    /\ UNCHANGED <<serverVars, socket, dirCache, repo, node, handle, request, writes, made>>

DirExpires ==
    /\ dirCache # {} /\ dirCache' = {}
    /\ UNCHANGED <<serverVars, socket, fileCache, repo, node, handle, request, writes, made>>

--------------------------------------------------------------------------
(* Reading the file, to open it or for its attributes                       *)

Opened(file, kind) ==
    [open |-> TRUE, buf |-> IF kind = "trunc" THEN Empty ELSE file.text,
     revision |-> file.rev, dirty |-> kind = "trunc", writeGen |-> 0]

(* updateFromRemote, and newHandle when the file is opened.                 *)
HasRead(h, kind, file) ==
    /\ node' = file
    /\ handle' = IF kind \in {"open", "trunc"} THEN [handle EXCEPT ![h] = Opened(file, kind)] ELSE handle

ReadBegins(r, h, kind) ==
    /\ kind \in uses /\ Idle(r) /\ made < MaxCalls
    /\ made' = made + 1
    /\ IF kind = "stat" THEN h = "none" /\ node.text = Empty
       ELSE Unopened(h)
    /\ IF fileCache # NoFile
       THEN HasRead(h, kind, fileCache) /\ UNCHANGED request
       ELSE /\ request' = [request EXCEPT ![r] = [NoRequest EXCEPT !.at = "reading", !.kind = kind, !.h = h]]
            /\ UNCHANGED <<node, handle>>
    /\ UNCHANGED <<serverVars, socket, fileCache, dirCache, repo, writes>>

ReadAnswered(r) ==
    /\ request[r].at = "reading" /\ server # 0
    /\ request' = [request EXCEPT ![r].at = "read", ![r].file = [rev |-> server, text |-> stored[server]]]
    /\ UNCHANGED <<serverVars, socket, fileCache, dirCache, repo, node, handle, writes, made>>

ReadEnds(r) ==
    LET q == request[r] IN
    /\ q.at = "read"
    /\ fileCache' = q.file
    /\ HasRead(q.h, q.kind, q.file)
    /\ RequestEnds(r)
    /\ UNCHANGED <<serverVars, socket, dirCache, repo, writes, made>>

(* No such file, no answer, or the kernel gives the request up.  A lookup   *)
(* whose read fails still answers, with what the listing shows.             *)
CallFails(r) ==
    LET q == request[r] IN
    /\ q.at \in {"reading", "listing", "deleting", "waiting"}
    /\ node' = IF q.at = "reading" /\ q.kind = "lookup" THEN [NoFile EXCEPT !.rev = q.base] ELSE node
    /\ RequestEnds(r)
    /\ UNCHANGED <<serverVars, socket, fileCache, dirCache, repo, handle, writes, made>>

--------------------------------------------------------------------------
(* Writing through a handle                                                 *)

Write(h) ==
    /\ handle[h].open /\ writes < MaxWrites
    /\ \A r \in OnHandle(h) : request[r].kind # "release"
    /\ writes' = writes + 1
    /\ handle' = [handle EXCEPT ![h].buf = <<"mount", writes + 1>>, ![h].dirty = TRUE,
                                ![h].writeGen = @ + 1]
    /\ UNCHANGED <<serverVars, socket, fileCache, dirCache, repo, node, request, made>>

(* Flush and Fsync run beside each other and beside writes, Release comes   *)
(* when nothing else uses the handle.                                       *)
FlushBegins(r, h, kind) ==
    /\ kind \in uses /\ Idle(r) /\ made < MaxCalls
    /\ made' = made + 1
    /\ handle[h].open
    /\ \A q \in OnHandle(h) : kind = "flush" /\ request[q].kind = "flush"
    /\ IF handle[h].dirty
       THEN /\ request' = [request EXCEPT ![r] =
                  [at |-> "writing", kind |-> kind, h |-> h, base |-> handle[h].revision,
                   gen |-> handle[h].writeGen, file |-> [rev |-> 0, text |-> handle[h].buf]]]
            /\ UNCHANGED handle
       ELSE /\ kind = "release"
            /\ handle' = [handle EXCEPT ![h] = Closed]
            /\ UNCHANGED request
    /\ UNCHANGED <<serverVars, socket, fileCache, dirCache, repo, node, writes>>

(* The store accepts a write over the revision it names, 0 being no file;   *)
(* the answer may be lost, and then the client asks again.                  *)
WriteAccepted(r, lost) ==
    LET q == request[r] IN
    /\ q.at = "writing" /\ q.base = server
    /\ Stores(q.file.text)
    /\ request' = IF lost THEN request
                  ELSE [request EXCEPT ![r].at = "written", ![r].file.rev = Len(stored) + 1]
    /\ UNCHANGED <<uses, socket, fileCache, dirCache, repo, node, handle, writes, made>>

Released(h, kind) == handle' = IF kind = "release" THEN [handle EXCEPT ![h] = Closed] ELSE handle

(* A conflict, a file that is gone, or no answer: the edit stays in the     *)
(* handle, for as long as there is one.                                     *)
WriteRefused(r) ==
    /\ request[r].at = "writing"
    /\ Released(request[r].h, request[r].kind)
    /\ RequestEnds(r)
    /\ UNCHANGED <<serverVars, socket, fileCache, dirCache, repo, node, writes, made>>

FlushCaches(r) ==
    LET q == request[r] IN
    /\ q.at = "written"
    /\ fileCache' = q.file /\ dirCache' = {} /\ node' = q.file
    /\ RequestAt(r, "cached")
    /\ UNCHANGED <<serverVars, socket, repo, handle, writes, made>>

(* What was flushed is taken for what the handle holds.                     *)
FlushedWhole(hd, q) ==
    [hd EXCEPT !.revision = q.file.rev, !.dirty = FALSE]

(* A write that came during the flush keeps the handle dirty.               *)
Flushed(hd, q) ==
    [hd EXCEPT !.revision = q.file.rev,
               !.buf = IF hd.writeGen = q.gen THEN q.file.text ELSE @,
               !.dirty = IF hd.writeGen = q.gen THEN FALSE ELSE @]

FlushEnds(r) ==
    LET q == request[r] IN
    /\ q.at = "cached"
    /\ IF q.kind = "release" THEN Released(q.h, q.kind)
       ELSE handle' = [handle EXCEPT ![q.h] = Flushed(@, q)]
    /\ RequestEnds(r)
    /\ UNCHANGED <<serverVars, socket, fileCache, dirCache, repo, node, writes, made>>

--------------------------------------------------------------------------
(* The directory: listing it, creating the file and unlinking it            *)

(* ensureGithubRepoMaterialized: the first request asks the server for the  *)
(* repository, the others wait for it.  The kernel looks a name up before   *)
(* it creates it: "create" stands for both calls.                           *)
ListBegins(r, h, kind) ==
    /\ kind \in uses /\ Idle(r) /\ made < MaxCalls
    /\ made' = made + 1
    /\ IF kind = "create" THEN Unopened(h) ELSE h = "none"
    /\ request' = [request EXCEPT ![r] = [NoRequest EXCEPT !.kind = kind, !.h = h,
           !.at = CASE repo = "unknown" -> "materializing"
                    [] repo = "loading" -> "waiting"
                    [] repo = "ready" -> "looking"]]
    /\ repo' = IF repo = "unknown" THEN "loading" ELSE repo
    /\ UNCHANGED <<serverVars, socket, fileCache, dirCache, node, handle, writes>>

(* The channel is closed: who waited goes on, whatever came of it.          *)
Freed(r, next) ==
    request' = [q \in Requests |-> IF q = r THEN next
                                   ELSE IF request[q].at = "waiting" THEN [request[q] EXCEPT !.at = "looking"]
                                   ELSE request[q]]

Materialized(r) ==
    /\ request[r].at = "materializing"
    /\ repo' = "ready"
    /\ Freed(r, [request[r] EXCEPT !.at = "looking"])
    /\ \/ server = 0 /\ Stores(<<"remote", Len(stored) + 1>>)
       \/ UNCHANGED <<server, stored, events>>
    /\ UNCHANGED <<uses, socket, fileCache, dirCache, node, handle, writes, made>>

MaterializeFails(r) ==
    /\ request[r].at = "materializing"
    /\ repo' = "unknown"
    /\ Freed(r, NoRequest)
    /\ UNCHANGED <<serverVars, socket, fileCache, dirCache, node, handle, writes, made>>

(* What a request does once it has the listing.  Listings hold no sizes, so *)
(* that a lookup goes on to read the file.                                  *)
Proceeds(r, listed) ==
    LET q == request[r] IN
    CASE q.kind = "create" /\ listed = 0 ->
            /\ handle' = [handle EXCEPT ![q.h] = Opened(NoFile, "trunc")]
            /\ node' = NoFile
            /\ invalidate
            /\ RequestEnds(r)
      [] q.kind = "unlink" /\ listed # 0 ->
            /\ request' = [request EXCEPT ![r].at = "deleting", ![r].base = listed]
            /\ dirCache' = {listed}
            /\ UNCHANGED <<handle, node, fileCache>>
      [] q.kind = "lookup" /\ listed # 0 ->
            /\ dirCache' = {listed}
            /\ IF fileCache # NoFile THEN HasRead(q.h, q.kind, fileCache) /\ RequestEnds(r)
               ELSE /\ request' = [request EXCEPT ![r].at = "reading", ![r].base = listed]
                    /\ UNCHANGED <<node, handle>>
            /\ UNCHANGED fileCache
      [] OTHER -> RequestEnds(r) /\ dirCache' = {listed} /\ UNCHANGED <<handle, node, fileCache>>

Looks(r) ==
    /\ request[r].at = "looking"
    /\ IF dirCache # {}
       THEN \E listed \in dirCache : Proceeds(r, listed)
       ELSE RequestAt(r, "listing") /\ UNCHANGED <<handle, node, fileCache, dirCache>>
    /\ UNCHANGED <<serverVars, socket, repo, writes, made>>

ListAnswered(r) ==
    /\ request[r].at = "listing"
    /\ request' = [request EXCEPT ![r].at = "listed", ![r].base = server]
    /\ UNCHANGED <<serverVars, socket, fileCache, dirCache, repo, node, handle, writes, made>>

ListEnds(r) ==
    /\ request[r].at = "listed"
    /\ Proceeds(r, request[r].base)
    /\ UNCHANGED <<serverVars, socket, repo, writes, made>>

UnlinkAccepted(r, lost) ==
    LET q == request[r] IN
    /\ q.at = "deleting" /\ q.base = server
    /\ server' = 0 /\ events' = Announced
    /\ request' = IF lost THEN request ELSE [request EXCEPT ![r].at = "deleted"]
    /\ UNCHANGED <<uses, stored, socket, fileCache, dirCache, repo, node, handle, writes, made>>

UnlinkEnds(r) ==
    /\ request[r].at = "deleted"
    /\ invalidate /\ node' = NoFile
    /\ RequestEnds(r)
    /\ UNCHANGED <<serverVars, socket, repo, handle, writes, made>>

--------------------------------------------------------------------------
FuseNext ==
    \/ RemoteWrites \/ RemoteDeletes
    \/ handleEvent \/ SocketFails \/ Connects
    \/ FileExpires \/ DirExpires
    \/ \E h \in Handles : Write(h)
    \/ \E r \in Requests, h \in Handles, kind \in {"open", "trunc"} : ReadBegins(r, h, kind)
    \/ \E r \in Requests : ReadBegins(r, "none", "stat")
    \/ \E r \in Requests, h \in Handles, kind \in {"flush", "release"} : FlushBegins(r, h, kind)
    \/ \E r \in Requests, h \in Handles : ListBegins(r, h, "create")
    \/ \E r \in Requests, kind \in Listing \ {"create"} : ListBegins(r, "none", kind)
    \/ \E r \in Requests, lost \in BOOLEAN : WriteAccepted(r, lost) \/ UnlinkAccepted(r, lost)
    \/ \E r \in Requests :
          \/ ReadAnswered(r) \/ ReadEnds(r) \/ CallFails(r)
          \/ WriteRefused(r) \/ FlushCaches(r) \/ FlushEnds(r)
          \/ Materialized(r) \/ MaterializeFails(r)
          \/ Looks(r) \/ ListAnswered(r) \/ ListEnds(r) \/ UnlinkEnds(r)

--------------------------------------------------------------------------
(* Properties                                                               *)

(* A handle that calls itself clean holds bytes the server has stored:      *)
(* FileHandle.flush never takes a write for saved that came beside it, was  *)
(* refused, or followed a truncation.                                       *)
HandlesTruthful ==
    \A h \in Handles : handle[h].open /\ ~handle[h].dirty
                          => \E v \in DOMAIN stored : stored[v] = handle[h].buf

(* The mount's comment on the content's time to live (fs.go:22): "stale     *)
(* content cannot persist beyond a change event".  It can: an answer that   *)
(* was on its way when the event came is cached after it.                   *)
NoStaleContent ==
    (socket = "up" /\ events = 0 /\ \A r \in Requests : request[r].at = "idle")
        => fileCache = NoFile \/ fileCache.rev = server
=============================================================================
