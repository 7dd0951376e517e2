----------------------------- MODULE HttpApi -----------------------------
(***************************************************************************)
(* The file handlers of the HTTP API (internal/httpapi/server.go).  A       *)
(* handler is a sequence of store operations, each atomic under the store's *)
(* lock and nothing in between: pages are read, then every item's           *)
(* permissions are looked up, while other clients write, delete and change  *)
(* policies.  Paths are numbers in the order in which the store sorts them; *)
(* one directory has a marker file whose rules govern what lies below it.   *)
(***************************************************************************)
EXTENDS AccessControl, Integers, SequencesExt

CONSTANTS
    Entries,      \* every path the tree may list: files and directories
    Dirs,         \* directory -> the files below it
    Marker,       \* the .relayfile.acl file of the governed directory
    Governed,     \* the files that the marker governs
    Reader,       \* the claims of the client whose requests are followed
    RuleSets,     \* the rules that other clients give to files
    PageSize,     \* maxTreeEntriesPerPage = maxTreeEntriesPerHTTPPage
    QueryLimit,   \* the limit parameter of a query
    EventPage,    \* eventFilterPageSize
    EventLimit,   \* the limit parameter of an events request
    MaxChanges,   \* bound: changes made by other clients
    Absent,
    ApiConfigs    \* the situations explored, see ApiInit

Paths == Entries \ DOMAIN Dirs

ASSUME ApiBounds ==
    /\ Entries \subseteq Nat \ {0}
    /\ Marker \in Paths /\ Governed \subseteq Paths \ {Marker}
    /\ \A d \in DOMAIN Dirs : Dirs[d] \subseteq Paths /\ \A p \in Dirs[d] : d < p
    /\ {PageSize, QueryLimit, EventPage, EventLimit} \subseteq Nat \ {0}
    /\ MaxChanges \in Nat

(* The rules that a file may have. *)
Rules == (UNION RuleSets)
            \cup UNION {UNION {c.files[p].rules : p \in DOMAIN c.files} : c \in ApiConfigs}

(* A client names paths of the workspace and, if any, the revision that it   *)
(* was given before: 1, that of every file there is at first.                *)
ASSUME RequestAssumption ==
    /\ \A R \in SUBSET Rules : R # Absent
    /\ \A c \in ApiConfigs :
        /\ c.paths \in Seq(Paths) /\ c.history \in Seq(Paths) /\ c.changing \subseteq Paths
        /\ c.ifMatch \in {-1, 0, 1}
        /\ c.op \in {"bulk_read", "bulk_write", "read_file", "write_file", "delete_file"}
                => c.paths # <<>>

VARIABLES
    plan,      \* the situation: the request, the files and what others may change
    files,     \* path -> [rev, rules, seed] or Absent
    log,       \* the workspace's events: [path, type, acl, readable]
    changes,   \* the number of changes of other clients
    client,    \* the paging client: [cursor, got, steady, status]
    req,       \* the handler that is running
    effects    \* history: the contents served and the versions replaced

apiVars == <<plan, files, log, changes, client, req, effects>>

NoReq == [op |-> "none"]

NoRevision == 0     \* If-Match "0"
AnyRevision == -1   \* If-Match "*"

-----------------------------------------------------------------------------
(* The store's operations, each under its lock.  A file keeps the rules of   *)
(* its semantics; rules seeded inside its content are read by                *)
(* permissionsFromFile only, and only for want of the former.                *)

Present == {p \in Paths : files[p] # Absent}

permissionsFromFile(file) ==
    CASE file = Absent -> {}
      [] file # Absent /\ file.rules # {} -> file.rules
      [] OTHER -> file.seed

resolvePermissionsFromFiles(fs, p, includeTarget) ==
    LET semantic(q) == IF fs[q] = Absent THEN {} ELSE fs[q].rules
    IN  (IF p \in Governed THEN semantic(Marker) ELSE {})
            \cup (IF includeTarget THEN semantic(p) ELSE {})

ResolveFilePermissions(p, includeTarget) ==
    resolvePermissionsFromFiles(files, p, includeTarget)

Sorted(S) == SetToSortSeq(S, <)

(* A page of what follows the cursor and the cursor of the next page (0 for  *)
(* none); the cursor must name something that is listed.                     *)
Page(S, cursor, limit) ==
    LET rest == Sorted({e \in S : e > cursor})
    IN  [ok |-> cursor = 0 \/ cursor \in S,
         items |-> SubSeq(rest, 1, Min({limit, Len(rest)})),
         next |-> IF Len(rest) > limit THEN rest[limit] ELSE 0]

(* The cursor may name any file, also one outside of the base.               *)
QueryFiles(base, cursor, limit) ==
    [Page(base \cap Present, cursor, limit) EXCEPT !.ok = cursor = 0 \/ cursor \in Present]

ListTree(cursor) ==
    Page(Present \cup {d \in DOMAIN Dirs : Dirs[d] \cap Present # {}}, cursor, PageSize)

GetEvents(cursor, limit) ==
    LET last == Min({cursor + limit, Len(log)})
    IN  [items |-> [i \in 1..(last - cursor) |-> cursor + i],
         next |-> IF last < Len(log) THEN last ELSE 0]

(* Newest first, before the cursor.                                          *)
GetEventsTail(cursor, limit) ==
    LET end == IF cursor = 0 THEN Len(log) ELSE cursor - 1
        start == Max({end - limit, 0})
    IN  [items |-> [i \in 1..(end - start) |-> end + 1 - i],
         next |-> IF start > 0 THEN start + 1 ELSE 0]

-----------------------------------------------------------------------------
(* Visibility.                                                               *)

scopeAllows(p, action) == scopeMatchesPath(Reader.scopes, action, p)

permits(rules, action, p) == filePermissionAllows(rules, Reader, action, p)

treeFileVisible(p) ==
    scopeAllows(p, "read") /\ permits(ResolveFilePermissions(p, TRUE), "read", p)

eventVisibleByPolicy(e) ==
    /\ scopeAllows(e.path, "read")
    /\ permits(ResolveFilePermissions(e.path, e.type # "file.deleted"), "read", e.path)

(* A delete event without a snapshot of the file's rules stays hidden.       *)
eventVisibleToClaims(e) ==
    /\ e.type = "file.deleted" => e.acl # Absent
    /\ scopeAllows(e.path, "read")
    /\ e.acl # Absent => permits(e.acl, "read", e.path)
    /\ permits(ResolveFilePermissions(e.path, e.type # "file.deleted"), "read", e.path)

Visible(x) ==
    IF plan.op \in {"asc", "desc"} THEN eventVisibleToClaims(log[x])
    ELSE x \in Present /\ treeFileVisible(x)

-----------------------------------------------------------------------------
(* Init: some files with their rules, one event for each and perhaps a       *)
(* delete event of before the snapshots.                                     *)
ApiInit ==
    /\ plan \in ApiConfigs
    /\ files = [p \in Paths |-> IF p \in DOMAIN plan.files
                                 THEN [rev |-> 1, rules |-> plan.files[p].rules,
                                       seed |-> plan.files[p].seed]
                                 ELSE Absent]
    /\ log = [i \in 1..Len(plan.history) |->
                [path |-> plan.history[i], type |-> "file.deleted", acl |-> Absent,
                 readable |-> FALSE]]
    /\ changes = 0
    /\ client = [cursor |-> 0, got |-> <<>>, steady |-> {}, status |-> "start"]
    /\ req = NoReq
    /\ effects = {}

(* The events of a change: rules are snapshot after a write and before a     *)
(* delete.  What the client saw throughout shrinks to what it still may see. *)
StoreEvent(p, type, acl) ==
    log' = Append(log, [path |-> p, type |-> type, acl |-> acl,
                        readable |-> scopeAllows(p, "read") /\ permits(acl, "read", p)])

StillSteady == {x \in client.steady : Visible(x)'}

PutFile(p, rules, seed) ==
    /\ files' = [files EXCEPT ![p] =
                    IF @ = Absent THEN [rev |-> 2 + Len(log), rules |-> rules, seed |-> seed]
                    ELSE [rev |-> 2 + Len(log), seed |-> seed,
                          rules |-> IF rules = {} THEN @.rules ELSE rules]]
    /\ StoreEvent(p, IF files[p] = Absent THEN "file.created" ELSE "file.updated",
                  resolvePermissionsFromFiles(files', p, TRUE))

DropFile(p) ==
    /\ files' = [files EXCEPT ![p] = Absent]
    /\ StoreEvent(p, "file.deleted", ResolveFilePermissions(p, TRUE))

OtherChanges(p) ==
    /\ UNCHANGED <<plan, req, effects>>
    /\ changes < MaxChanges
    /\ client.status # "done"
    /\ changes' = changes + 1
    /\ \/ \E rules \in RuleSets, seeded \in BOOLEAN :
            /\ seeded => p = Marker
            /\ PutFile(p, IF seeded THEN {} ELSE rules, IF seeded THEN rules ELSE {})
       \/ files[p] # Absent /\ DropFile(p)
    /\ client' = [client EXCEPT !.steady = StillSteady]

-----------------------------------------------------------------------------
(* The client asks, page after page until no cursor is left.                 *)

FirstStep == [query |-> "cursor", tree |-> "first", asc |-> "page", desc |-> "page",
              export |-> "snapshot", bulk_read |-> "acl", bulk_write |-> "check",
              read_file |-> "preflight", write_file |-> "preflight",
              delete_file |-> "preflight"]

Single == {"read_file", "write_file", "delete_file"}

(* from: the store's cursor; want: the cursor of the request; todo: what is  *)
(* left of the current page; more: the store's next cursor.                  *)
Request ==
    /\ req = NoReq
    /\ client.status \in {"start", "next"}
    /\ req' = [op |-> plan.op, pc |-> FirstStep[plan.op], from |-> client.cursor,
               want |-> client.cursor, found |-> client.cursor = 0,
               todo |-> plan.paths, more |-> 0, items |-> <<>>,
               dir |-> 0, cache |-> Absent, version |-> Absent, ifMatch |-> plan.ifMatch,
               allowed |-> {}]
    /\ client' = IF client.status = "next" THEN [client EXCEPT !.status = "busy"]
                 ELSE [client EXCEPT !.status = "busy",
                            !.steady = {x \in (IF plan.op \in {"asc", "desc"}
                                               THEN DOMAIN log ELSE Paths) : Visible(x)}]
    /\ UNCHANGED <<plan, files, log, changes, effects>>

Step(op, pc) == req.op = op /\ req.pc = pc

Continue(r) == req' = r /\ UNCHANGED client

Answer(items, next) ==
    /\ req' = NoReq
    /\ client' = [client EXCEPT !.got = @ \o items, !.cursor = next,
                                !.status = IF next = 0 THEN "done" ELSE "next"]

Fail == req' = NoReq /\ client' = [client EXCEPT !.status = "failed"]

KeepStore == UNCHANGED <<plan, files, log, changes>>

-----------------------------------------------------------------------------
(* handleQueryFiles.                                                         *)

(* A cursor that names a hidden file is refused, one that names no file is   *)
(* left to the store.                                                        *)
QueryCursor ==
    /\ Step("query", "cursor")
    /\ Continue([req EXCEPT !.pc = IF req.want \in Present THEN "cursorAcl" ELSE "batch"])
    /\ UNCHANGED effects /\ KeepStore

QueryCursorAcl ==
    /\ Step("query", "cursorAcl")
    /\ IF treeFileVisible(req.want) THEN Continue([req EXCEPT !.pc = "batch"]) ELSE Fail
    /\ UNCHANGED effects /\ KeepStore

batchLimitWhole(items) == QueryLimit

(* A batch is never larger than what is still wanted, so that the cursor     *)
(* that the answer carries is the last item it holds.                        *)
batchLimit(items) == QueryLimit - Len(items)

QueryBatchDone(r) ==
    CASE r.todo # <<>> /\ Len(r.items) < QueryLimit -> Continue([r EXCEPT !.pc = "item"])
      [] r.more = 0 /\ ~(r.todo # <<>> /\ Len(r.items) < QueryLimit) -> Answer(r.items, 0)
      [] r.more # 0 /\ Len(r.items) >= QueryLimit -> Answer(r.items, r.more)
      [] OTHER -> Continue([r EXCEPT !.pc = "batch", !.from = r.more])

QueryBatch ==
    LET batch == QueryFiles(Paths, req.from, batchLimit(req.items))
    IN  /\ Step("query", "batch")
        /\ IF batch.ok THEN QueryBatchDone([req EXCEPT !.todo = batch.items, !.more = batch.next])
           ELSE Fail
        /\ UNCHANGED effects /\ KeepStore

QueryItem ==
    LET p == Head(req.todo)
    IN  /\ Step("query", "item")
        /\ QueryBatchDone([req EXCEPT !.todo = Tail(@),
                                      !.items = IF treeFileVisible(p) THEN Append(@, p) ELSE @])
        /\ UNCHANGED effects /\ KeepStore

-----------------------------------------------------------------------------
(* handleTree: the first page, the count of visible files, and then raw      *)
(* pages from the start up to one more visible entry than a page holds.      *)

TreeFirst ==
    LET page == ListTree(0)
    IN  /\ Step("tree", "first")
        /\ Continue([req EXCEPT !.pc = "count", !.from = 0, !.todo = page.items, !.more = page.next])
        /\ UNCHANGED effects /\ KeepStore

TreePageDone(r) ==
    CASE r.todo # <<>> ->
            Continue([r EXCEPT !.pc = IF Head(r.todo) \in Paths THEN "file" ELSE "dir", !.from = 0])
      [] r.todo = <<>> /\ r.more # 0 -> Continue([r EXCEPT !.pc = "raw"])
      [] r.todo = <<>> /\ r.more = 0 /\ r.found -> Answer(r.items, 0)
      [] OTHER -> Fail

(* One page of countVisibleTreeFiles; the total itself is left out.          *)
TreeCount ==
    LET batch == QueryFiles(Paths, req.from, PageSize)
    IN  /\ Step("tree", "count")
        /\ CASE ~batch.ok -> Fail
             [] batch.ok /\ batch.next # 0 -> Continue([req EXCEPT !.from = batch.next])
             [] OTHER -> TreePageDone(req)
        /\ UNCHANGED effects /\ KeepStore

TreeEntry(entry, visible) ==
    LET r == [req EXCEPT !.todo = Tail(@)]
        all == Append(req.items, entry)
    IN  CASE ~visible -> TreePageDone(r)
          [] visible /\ ~req.found -> TreePageDone([r EXCEPT !.found = entry = req.want])
          [] visible /\ req.found /\ Len(all) > PageSize -> Answer(req.items, Last(req.items))
          [] OTHER -> TreePageDone([r EXCEPT !.items = all])

TreeFile ==
    /\ Step("tree", "file")
    /\ TreeEntry(Head(req.todo), treeFileVisible(Head(req.todo)))
    /\ UNCHANGED effects /\ KeepStore

(* treeDirectoryVisible: pages of the files below, until one is visible.     *)
TreeDirPage ==
    LET batch == QueryFiles(Dirs[Head(req.todo)], req.from, PageSize)
    IN  /\ Step("tree", "dir")
        /\ CASE ~batch.ok -> Fail
             [] batch.ok /\ batch.items = <<>> -> TreeEntry(Head(req.todo), FALSE)
             [] OTHER -> Continue([req EXCEPT !.pc = "dirItem", !.cache = batch.items,
                                              !.from = batch.next])
        /\ UNCHANGED effects /\ KeepStore

TreeDirItem ==
    /\ Step("tree", "dirItem")
    /\ CASE treeFileVisible(Head(req.cache)) -> TreeEntry(Head(req.todo), TRUE)
         [] ~treeFileVisible(Head(req.cache)) /\ Len(req.cache) > 1 ->
                Continue([req EXCEPT !.cache = Tail(@)])
         [] ~treeFileVisible(Head(req.cache)) /\ Len(req.cache) = 1 /\ req.from # 0 ->
                Continue([req EXCEPT !.pc = "dir"])
         [] OTHER -> TreeEntry(Head(req.todo), FALSE)
    /\ UNCHANGED effects /\ KeepStore

TreeRaw ==
    LET page == ListTree(req.more)
    IN  /\ Step("tree", "raw")
        /\ IF page.ok THEN TreePageDone([req EXCEPT !.todo = page.items, !.more = page.next])
           ELSE Fail
        /\ UNCHANGED effects /\ KeepStore

-----------------------------------------------------------------------------
(* handleEvents, visibleEvents.                                              *)

EventPageDone(r) ==
    CASE r.todo # <<>> -> Continue([r EXCEPT !.pc = "event"])
      [] r.todo = <<>> /\ r.more = 0 -> Answer(r.items, 0)
      [] OTHER -> Continue([r EXCEPT !.pc = "page", !.from = r.more])

EventsPage ==
    LET page == IF req.op = "desc" THEN GetEventsTail(req.from, EventPage)
                ELSE GetEvents(req.from, EventPage)
    IN  /\ req.op \in {"asc", "desc"} /\ req.pc = "page"
        /\ EventPageDone([req EXCEPT !.todo = page.items, !.more = page.next])
        /\ UNCHANGED effects /\ KeepStore

EventItem ==
    LET i == Head(req.todo)
        rest == [req EXCEPT !.todo = Tail(@)]
    IN  /\ req.op \in {"asc", "desc"} /\ req.pc = "event"
        /\ CASE ~eventVisibleToClaims(log[i]) -> EventPageDone(rest)
             [] eventVisibleToClaims(log[i]) /\ Len(req.items) < EventLimit ->
                    EventPageDone([rest EXCEPT !.items = Append(@, i)])
             [] OTHER -> Answer(req.items, Last(req.items))
        /\ UNCHANGED effects /\ KeepStore

-----------------------------------------------------------------------------
(* handleExport: a snapshot of the workspace, then the rules of every file.  *)

ExportSnapshot ==
    /\ Step("export", "snapshot")
    /\ IF Present = {} THEN Answer(<<>>, 0)
       ELSE Continue([req EXCEPT !.pc = "item", !.todo = Sorted(Present)])
    /\ UNCHANGED effects /\ KeepStore

(* One visible file too many fails the whole export.                         *)
ExportItem ==
    LET p == Head(req.todo)
        items == IF treeFileVisible(p) THEN Append(req.items, p) ELSE req.items
    IN  /\ Step("export", "item")
        /\ CASE Len(items) > plan.maxExport -> Fail
             [] Len(items) <= plan.maxExport /\ Len(req.todo) = 1 -> Answer(items, 0)
             [] OTHER -> Continue([req EXCEPT !.todo = Tail(@), !.items = items])
        /\ UNCHANGED effects /\ KeepStore

-----------------------------------------------------------------------------
(* handleBulkRead.  Every path is reported, with its content or an error;    *)
(* the marker is read once for the first check of all paths, the second      *)
(* check uses the rules of the very version that is returned.                *)

NextPath(r) ==
    LET items == Append(r.items, Head(r.todo))
    IN  IF Len(r.todo) = 1 THEN Answer(items, 0)
        ELSE Continue([r EXCEPT !.todo = Tail(@), !.items = items, !.version = Absent,
                                !.pc = FirstStep[r.op]])

MarkerRules(p) == IF p \in Governed THEN permissionsFromFile(files[Marker]) ELSE {}

BulkReadAcl ==
    LET p == Head(req.todo)
    IN  /\ Step("bulk_read", "acl")
        /\ CASE \E i \in DOMAIN plan.paths : ~scopeAllows(plan.paths[i], "read") -> Fail
             [] OTHER -> Continue([req EXCEPT !.pc = "aclTarget",
                                              !.cache = IF p \in Governed /\ @ = Absent
                                                        THEN MarkerRules(p) ELSE @])
        /\ UNCHANGED effects /\ KeepStore

BulkReadAclTarget ==
    LET p == Head(req.todo)
        rules == permissionsFromFile(files[p]) \cup (IF p \in Governed THEN req.cache ELSE {})
    IN  /\ Step("bulk_read", "aclTarget")
        /\ IF permits(rules, "read", p) THEN Continue([req EXCEPT !.pc = "read"])
           ELSE NextPath(req)
        /\ UNCHANGED effects /\ KeepStore

BulkReadFile ==
    LET p == Head(req.todo)
    IN  /\ Step("bulk_read", "read")
        /\ IF files[p] = Absent THEN NextPath(req)
           ELSE Continue([req EXCEPT !.pc = "fresh", !.version = files[p]])
        /\ UNCHANGED effects /\ KeepStore

resolvePermissionsAnew(p, version) == MarkerRules(p) \cup permissionsFromFile(files[p])

resolveBulkReadPermissionsForReturnedFile(p, version) ==
    MarkerRules(p) \cup permissionsFromFile(version)

BulkReadFresh ==
    LET p == Head(req.todo)
        rules == resolveBulkReadPermissionsForReturnedFile(p, req.version)
    IN  /\ Step("bulk_read", "fresh")
        /\ effects' = IF permits(rules, "read", p)
                      THEN effects \cup {[path |-> p, action |-> "read", over |-> req.version]}
                      ELSE effects
        /\ NextPath(req)
        /\ KeepStore

-----------------------------------------------------------------------------
(* handleBulkWrite: every file is looked at and checked, then all that are   *)
(* allowed are written at once, each over the revision it names, if any.     *)

Checked(p, version) == permits(ResolveFilePermissions(p, version # Absent), "write", p)

BulkWriteNext(r, ok) ==
    LET p == Head(r.todo)
        s == [r EXCEPT !.todo = Tail(@), !.version = Absent,
                       !.allowed = IF ok THEN @ \cup {p} ELSE @,
                       !.items = IF ok THEN @ ELSE Append(@, p)]
    IN  Continue([s EXCEPT !.pc = IF s.todo = <<>> THEN "store" ELSE "check"])

BulkWriteCheck ==
    LET p == Head(req.todo)
    IN  /\ Step("bulk_write", "check")
        /\ IF scopeAllows(p, "write")
           THEN Continue([req EXCEPT !.pc = "resolve", !.version = files[p]])
           ELSE BulkWriteNext(req, FALSE)
        /\ UNCHANGED effects /\ KeepStore

BulkWriteResolve ==
    /\ Step("bulk_write", "resolve")
    /\ BulkWriteNext(req, Checked(Head(req.todo), req.version))
    /\ UNCHANGED effects /\ KeepStore

(* The If-Match rule of the store: a file that is not there is created by    *)
(* "0" or "*", one that is there is replaced by "*" or its revision.         *)
IfMatchHolds(file, ifMatch) ==
    IF file = Absent THEN ifMatch \in {NoRevision, AnyRevision}
    ELSE ifMatch \in {AnyRevision, file.rev}

Replaces(p) ==
    IF files[p] = Absent \/ req.ifMatch = AnyRevision THEN {}
    ELSE {[path |-> p, action |-> "write", over |-> files[p]]}

BulkWrite ==
    LET written == {p \in req.allowed : IfMatchHolds(files[p], req.ifMatch)}
        stored(p) == [rev |-> 2 + Len(log), seed |-> {},
                      rules |-> IF files[p] = Absent THEN {} ELSE files[p].rules]
        inOrder == Sorted(written)
    IN  /\ Step("bulk_write", "store")
        /\ files' = [p \in Paths |-> IF p \in written THEN stored(p) ELSE files[p]]
        /\ log' = log \o [i \in 1..Len(inOrder) |->
                    LET p == inOrder[i]
                        acl == ResolveFilePermissions(p, TRUE)
                    IN  [path |-> p,
                         type |-> IF files[p] = Absent THEN "file.created" ELSE "file.updated",
                         acl |-> acl,
                         readable |-> scopeAllows(p, "read") /\ permits(acl, "read", p)]]
        /\ effects' = effects \cup UNION {Replaces(p) : p \in written}
        /\ Answer(req.items \o Sorted(req.allowed), 0)
        /\ UNCHANGED <<plan, changes>>

-----------------------------------------------------------------------------
(* read_file, write_file, delete_file: the ACL preflight of ServeHTTP reads  *)
(* marker and target, the handler reads the file and resolves its rules      *)
(* again.  A write with If-Match "*" is checked without the target first.    *)

aclTargetExists == req.op # "write_file" \/ req.ifMatch # AnyRevision

FileAction == IF req.op = "read_file" THEN "read" ELSE "write"

Preflight ==
    LET p == Head(req.todo)
    IN  /\ req.op \in Single /\ req.pc = "preflight"
        /\ IF scopeAllows(p, FileAction)
           THEN Continue([req EXCEPT !.pc = "preflightTarget", !.cache = MarkerRules(p)])
           ELSE Fail
        /\ UNCHANGED effects /\ KeepStore

PreflightTarget ==
    LET p == Head(req.todo)
        target == IF aclTargetExists THEN permissionsFromFile(files[p]) ELSE {}
    IN  /\ req.op \in Single /\ req.pc = "preflightTarget"
        /\ IF permits(req.cache \cup target, FileAction, p)
           THEN Continue([req EXCEPT !.pc = "read"]) ELSE Fail
        /\ UNCHANGED effects /\ KeepStore

(* A read or a delete of what is not there ends here, or at the store.       *)
HandlerRead ==
    LET p == Head(req.todo)
    IN  /\ req.op \in Single /\ req.pc = "read"
        /\ CASE files[p] = Absent /\ req.op = "read_file" -> Fail
             [] files[p] = Absent /\ req.op = "delete_file" -> Continue([req EXCEPT !.pc = "store"])
             [] OTHER -> Continue([req EXCEPT !.pc = "resolve", !.version = files[p]])
        /\ UNCHANGED effects /\ KeepStore

HandlerResolve ==
    LET p == Head(req.todo)
    IN  /\ req.op \in Single /\ req.pc = "resolve"
        /\ CASE ~permits(ResolveFilePermissions(p, req.version # Absent), FileAction, p) -> Fail
             [] req.op = "read_file"
                /\ permits(ResolveFilePermissions(p, TRUE), "read", p) -> Answer(<<p>>, 0)
             [] OTHER -> Continue([req EXCEPT !.pc = "store"])
        /\ UNCHANGED effects /\ KeepStore

HandlerWrite ==
    LET p == Head(req.todo)
    IN  /\ Step("write_file", "store")
        /\ IF IfMatchHolds(files[p], req.ifMatch)
           THEN PutFile(p, {}, {}) /\ effects' = effects \cup Replaces(p) /\ Answer(<<p>>, 0)
           ELSE Fail /\ UNCHANGED <<files, log, effects>>
        /\ UNCHANGED <<plan, changes>>

HandlerDelete ==
    LET p == Head(req.todo)
    IN  /\ Step("delete_file", "store")
        /\ IF files[p] # Absent /\ IfMatchHolds(files[p], req.ifMatch)
           THEN DropFile(p) /\ effects' = effects \cup Replaces(p) /\ Answer(<<p>>, 0)
           ELSE Fail /\ UNCHANGED <<files, log, effects>>
        /\ UNCHANGED <<plan, changes>>

ApiNext ==
    \/ \E p \in plan.changing : OtherChanges(p)
    \/ Request
    \/ QueryCursor \/ QueryCursorAcl \/ QueryBatch \/ QueryItem
    \/ TreeFirst \/ TreeCount \/ TreeFile \/ TreeDirPage \/ TreeDirItem \/ TreeRaw
    \/ EventsPage \/ EventItem
    \/ ExportSnapshot \/ ExportItem
    \/ BulkReadAcl \/ BulkReadAclTarget \/ BulkReadFile \/ BulkReadFresh
    \/ BulkWriteCheck \/ BulkWriteResolve \/ BulkWrite
    \/ Preflight \/ PreflightTarget \/ HandlerRead \/ HandlerResolve
    \/ HandlerWrite \/ HandlerDelete

-----------------------------------------------------------------------------
(* A listing that ends without an error has answered, page by page and while *)
(* others write, delete and change policies between its store operations,    *)
(* everything that was there and visible all the time, and nothing twice; a  *)
(* bulk request reports every path that it was asked for exactly once.       *)
AnswersComplete ==
    client.status = "done" =>
        /\ IsInjective(client.got)
        /\ CASE plan.op \in {"bulk_read", "bulk_write"} -> Range(client.got) = Range(plan.paths)
             [] plan.op = "tree" ->
                    /\ client.steady \subseteq Range(client.got)
                    /\ \A d \in DOMAIN Dirs :
                        Dirs[d] \cap client.steady # {} => d \in Range(client.got)
             [] plan.op \in {"query", "asc", "desc", "export"} ->
                    client.steady \subseteq Range(client.got)
             [] OTHER -> TRUE

DeniedBy(rules, action, p) ==
    \E r \in rules : r.kind # "tag" /\ r.effect = "deny" /\ ruleMatches(r, Reader, action, p)

(* Rules are those of the moment: the events that a client is served could   *)
(* be read by it when they happened, whatever the policy is now; a bulk read *)
(* never returns a version whose own rules deny the reader, and a write that *)
(* names a revision never replaces a version whose own rules deny the        *)
(* writer, whoever changes rules between the check and the store.            *)
RulesRespected ==
    /\ plan.op \in {"asc", "desc"} =>
        \A i \in DOMAIN client.got : log[client.got[i]].readable
    /\ \A e \in effects :
        ~DeniedBy(IF e.action = "read" THEN permissionsFromFile(e.over) ELSE e.over.rules,
                  e.action, e.path)
=============================================================================
