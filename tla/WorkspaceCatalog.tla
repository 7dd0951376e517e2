------------------------- MODULE WorkspaceCatalog -------------------------
(***************************************************************************)
(* The record of a workspace in the client's catalog (workspaces.json), its *)
(* mirror's root and the views registered on it, symbolic links elsewhere   *)
(* that point into the mirror.  Every writer loads the whole catalog,       *)
(* changes its copy and saves it, under no lock.  Operator commands run one *)
(* at a time; the daemon of a mounted workspace runs beside them, and with  *)
(* every renewed credential saves the record it read when it started.       *)
(***************************************************************************)
EXTENDS Naturals

CONSTANTS
    ViewDirs,     \* local directories a view may be put at
    Roots,        \* roots the mirror may have
    NoRoot,
    NilViews,     \* a list of views that is not there: leaves the saved one alone
    MaxCommands   \* operator commands run

VARIABLES
    catalog,      \* the saved record: [present, root, views]
    links,        \* directory |-> the root its link points into, "none", "file", "elsewhere"
    daemon,       \* [at, root, copy, loaded]
    cmd,          \* the operator's command: [kind, at, view, replace, root, copy, previous, loaded]
    commands,
    stale,        \* ghost: the daemon saved over somebody's change, or a record was deleted
    unrolled      \* ghost: views whose adding failed and that are registered all the same

(* The values that stand for nothing are none of the others.                *)
ASSUME CatalogBounds ==
    /\ NoRoot \notin Roots
    /\ \A views \in SUBSET ViewDirs : NilViews # views
    /\ Roots \cap {"none", "file", "elsewhere"} = {}

catVars == <<catalog, links, daemon, cmd, commands, stale, unrolled>>

NoRecord == [present |-> FALSE, root |-> NoRoot, views |-> {}]
NoCopy == [root |-> NoRoot, views |-> NilViews]
NoCommand == [kind |-> "none", at |-> "idle", view |-> NoRoot, replace |-> FALSE, root |-> NoRoot,
              copy |-> NoCopy, previous |-> NilViews, loaded |-> NoRecord]

CatInit ==
    /\ catalog = NoRecord
    /\ links \in [ViewDirs -> {"none", "file", "elsewhere"}]
    /\ daemon = [at |-> "off", root |-> NoRoot, copy |-> NoCopy, loaded |-> NoRecord]
    /\ cmd = NoCommand /\ commands = 0 /\ stale = FALSE /\ unrolled = {}

(* An empty list is not written to the file.                                *)
CopyOf(r) == [root |-> r.root, views |-> IF r.views = {} THEN NilViews ELSE r.views]
ListOf(views) == IF views = NilViews THEN {} ELSE views

(* What is set in the update replaces, what is not leaves alone.            *)
mergeWorkspaceRecords(current, update) ==
    [present |-> TRUE,
     root |-> IF update.root # NoRoot THEN update.root ELSE current.root,
     views |-> IF update.views # NilViews THEN update.views ELSE current.views]

Steps(at) == cmd' = [cmd EXCEPT !.at = at]
CommandEnds == cmd' = NoCommand

Starts(c) ==
    /\ cmd.at = "idle" /\ commands < MaxCommands
    /\ commands' = commands + 1
    /\ cmd' = c
    /\ UNCHANGED <<catalog, links, daemon, stale, unrolled>>

--------------------------------------------------------------------------
(* upsertWorkspaceDetails: load, merge, save.                               *)

loadWorkspaceCatalog ==
    /\ cmd.at \in {"load", "loadTouch", "loadBack", "loadDelete"}
    /\ cmd' = [cmd EXCEPT !.loaded = catalog,
                          !.at = CASE cmd.at = "load" -> "save" [] cmd.at = "loadTouch" -> "touch"
                                   [] cmd.at = "loadBack" -> "saveBack" [] OTHER -> "delete"]
    /\ UNCHANGED <<catalog, links, daemon, commands, stale, unrolled>>

upsertWorkspaceDetails ==
    /\ cmd.at = "save"
    /\ catalog' = mergeWorkspaceRecords(cmd.loaded, cmd.copy)
    /\ CASE cmd.kind = "add" -> Steps("install") [] cmd.kind = "mount" -> Steps("start")
         [] OTHER -> CommandEnds
    /\ UNCHANGED <<links, daemon, commands, stale, unrolled>>

--------------------------------------------------------------------------
(* Views.                                                                   *)

runWorkspaceViewAdd(v, replace) ==
    /\ catalog.root # NoRoot
    /\ LET copy == CopyOf(catalog) IN
       Starts([NoCommand EXCEPT !.kind = "add", !.at = "load", !.view = v, !.replace = replace,
                 !.copy = [copy EXCEPT !.views = ListOf(copy.views) \cup {v}],
                 !.previous = copy.views])

(* Anything but the right link is in the way, unless a link may be replaced. *)
installWorkspaceView ==
    /\ cmd.at = "install"
    /\ LET there == links[cmd.view]
           ok == there \in {"none", cmd.copy.root} \/ (there # "file" /\ cmd.replace) IN
       IF ok THEN links' = [links EXCEPT ![cmd.view] = cmd.copy.root] /\ CommandEnds
       ELSE /\ cmd' = [cmd EXCEPT !.at = "loadBack", !.copy.views = cmd.previous]
            /\ UNCHANGED links
    /\ UNCHANGED <<catalog, daemon, commands, stale, unrolled>>

(* The list as it was before; none before is no update.                     *)
rollBackView ==
    /\ cmd.at = "saveBack"
    /\ catalog' = mergeWorkspaceRecords(cmd.loaded, cmd.copy)
    /\ unrolled' = IF cmd.view \in catalog'.views /\ cmd.view \notin ListOf(cmd.previous)
                   THEN unrolled \cup {cmd.view} ELSE unrolled
    /\ CommandEnds
    /\ UNCHANGED <<links, daemon, commands, stale>>

(* The link goes first, and only the link that was installed.               *)
runWorkspaceViewRemove(v) ==
    /\ v \in catalog.views
    /\ Starts([NoCommand EXCEPT !.kind = "remove", !.at = "unlink", !.view = v, !.copy = CopyOf(catalog)])

removeWorkspaceViewLink ==
    /\ cmd.at = "unlink"
    /\ IF links[cmd.view] \in {"none", cmd.copy.root}
       THEN /\ links' = [links EXCEPT ![cmd.view] = "none"]
            /\ cmd' = [cmd EXCEPT !.at = "load", !.copy.views = @ \ {cmd.view}]
       ELSE CommandEnds /\ UNCHANGED links
    /\ UNCHANGED <<catalog, daemon, commands, stale, unrolled>>

--------------------------------------------------------------------------
(* Mounting, moving and deleting.                                           *)

(* A running mount is all that keeps a mirror where it is.                  *)
MayMountUnlessRunning(root, rehome) ==
    /\ daemon.at = "off"
    /\ catalog.root \notin {NoRoot, root} => rehome

(* runMount's checks: a mirror moves only when asked to, with no view        *)
(* registered and nothing running at its old root; the lease keeps a second  *)
(* mount from the same root.                                                *)
MayMount(root, rehome) ==
    /\ daemon.at = "off"
    /\ catalog.root \notin {NoRoot, root} => rehome /\ catalog.views = {}

runMount(root, rehome) ==
    /\ MayMount(root, rehome)
    /\ Starts([NoCommand EXCEPT !.kind = "mount", !.at = "loadTouch", !.root = root])

(* upsertWorkspace saves what it loaded, with a new date; the record is read *)
(* once more and saved with the root.                                       *)
upsertWorkspace ==
    /\ cmd.at = "touch"
    /\ catalog' = [cmd.loaded EXCEPT !.present = TRUE]
    /\ cmd' = [cmd EXCEPT !.at = "load", !.copy = [CopyOf(catalog') EXCEPT !.root = cmd.root]]
    /\ UNCHANGED <<links, daemon, commands, stale, unrolled>>

startLoop ==
    /\ cmd.at = "start"
    /\ daemon' = [at |-> "up", root |-> cmd.root, copy |-> CopyOf(catalog), loaded |-> NoRecord]
    /\ CommandEnds
    /\ UNCHANGED <<catalog, links, commands, stale, unrolled>>

runStop ==
    /\ daemon.at # "off"
    /\ daemon' = [daemon EXCEPT !.at = "off"]
    /\ UNCHANGED <<catalog, links, cmd, commands, stale, unrolled>>

(* Any command that uses the server saves the record it has just read.       *)
prepareWorkspaceCommandClient ==
    /\ catalog.present
    /\ Starts([NoCommand EXCEPT !.kind = "use", !.at = "load", !.copy = CopyOf(catalog)])

runWorkspaceDelete ==
    /\ catalog.present
    /\ Starts([NoCommand EXCEPT !.kind = "delete", !.at = "loadDelete"])

removeWorkspace ==
    /\ cmd.at = "delete"
    /\ catalog' = NoRecord /\ stale' = TRUE
    /\ CommandEnds
    /\ UNCHANGED <<links, daemon, commands, unrolled>>

(* The daemon's credential was renewed: its record is saved as it was read.  *)
refreshLoad ==
    /\ daemon.at = "up"
    /\ daemon' = [daemon EXCEPT !.at = "refresh", !.loaded = catalog]
    /\ UNCHANGED <<catalog, links, cmd, commands, stale, unrolled>>

refreshSave ==
    /\ daemon.at = "refresh"
    /\ catalog' = mergeWorkspaceRecords(daemon.loaded, daemon.copy)
    /\ stale' = (stale \/ catalog' # catalog)
    /\ daemon' = [daemon EXCEPT !.at = "up", !.loaded = NoRecord]
    /\ UNCHANGED <<links, cmd, commands, unrolled>>

CatNext ==
    \/ loadWorkspaceCatalog \/ upsertWorkspaceDetails
    \/ \E v \in ViewDirs, replace \in BOOLEAN : runWorkspaceViewAdd(v, replace)
    \/ installWorkspaceView \/ rollBackView
    \/ \E v \in ViewDirs : runWorkspaceViewRemove(v)
    \/ removeWorkspaceViewLink
    \/ \E root \in Roots, rehome \in BOOLEAN : runMount(root, rehome)
    \/ upsertWorkspace \/ startLoop \/ runStop
    \/ prepareWorkspaceCommandClient \/ runWorkspaceDelete \/ removeWorkspace
    \/ refreshLoad \/ refreshSave

--------------------------------------------------------------------------
(* A view never points into a mirror that was moved away: every link the     *)
(* client installed points into the recorded root, for as long as the daemon *)
(* has not saved its old record over somebody's change.                     *)
ViewsFollowMirror ==
    \A v \in ViewDirs : links[v] \in Roots => links[v] = catalog.root \/ stale

(* "roll back workspace view registration": a view whose link could not be   *)
(* installed is not registered.                                             *)
ViewRolledBack == unrolled = {}
=============================================================================
