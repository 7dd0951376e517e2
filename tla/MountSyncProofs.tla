--------------------------- MODULE MountSyncProofs ---------------------------
(***************************************************************************)
(* Theorems about the mount synchroniser, for every configuration of the    *)
(* daemon and its surroundings and every bound: the newest save is kept, an *)
(* acknowledged command was delivered, and a reconcile is remembered.       *)
(*                                                                          *)
(* A step is taken apart into what it makes of the server (ServerGoesOn),   *)
(* of the path (Keeps), of the commands (Derived) and of the scan           *)
(* (PassGoesOn); the invariants follow from these, not from the steps.      *)
(***************************************************************************)
EXTENDS MountSync, TLAPS, WellFoundedInduction

-----------------------------------------------------------------------------
(* A record has these fields and no others.                                 *)
Has(r, fields) == r = [x \in fields |-> r[x]]

IsSeq(s) == s \in Seq({s[i] : i \in DOMAIN s})

(* The fields of the records of MountFiles and of MountSync.                *)
EntryFields == {"known", "rev", "hash", "dirty", "deletePending", "missingPolls", "denied",
                "writeDenied", "deniedHash", "readOnly"}
IsPath(g) ==
    Has(g, {"local", "tracked", "artifacts", "shadow"}) /\ Has(g.tracked, EntryFields)

CommandFields == {"cmd", "body", "exists", "expected", "attempts", "needsAttention", "op"}
CycleFields == {"pc", "todo", "rec", "answer", "conflicted", "upPath", "didPoll", "scan",
                "file", "seen", "last"}

(* Every command that is not filed: pending, or in an upload's hands.       *)
Records == outbox \cup ({up.rec, cyc.rec} \ {NoCommand})

(* The part of the type that the proofs need.                               *)
Shapes ==
    /\ Has(cyc, CycleFields) /\ Has(up, {"rec", "answer"})
    /\ Has(ws, {"on", "pos", "got", "seen", "file"})
    /\ IsSeq(history) /\ IsSeq(log)

(* The cycle has a command only while it flushes or pushes one.             *)
Sends ==
    /\ cyc.rec # NoCommand => cyc.pc \in {"flush", "pushing"}
    /\ cyc.pc = "pushing" => cyc.scan # Absent

(* The file had these bytes at some revision.                               *)
OnServer(body) == \E i \in DOMAIN history : history[i].body = body

FromServer(file) == file = NoFile \/ OnServer(file.body)

(* What is read from the server, or named by its feed, it has or had.       *)
ServerInv ==
    /\ FromServer(remote) /\ FromServer(cyc.file) /\ FromServer(ws.file)
    /\ \A i \in DOMAIN log :
          /\ log[i].kind \in {"updated", "deleted", "reconcile"}
          /\ log[i].kind = "updated" => OnServer(log[i].body)

(* An answer in hand is to a command in hand, and the server did what it says.*)
AnswerTrue(x) ==
    /\ x.answer # NoAnswer => x.rec # NoCommand
    /\ x.answer.kind = "ok" => /\ x.rec # NoCommand /\ ops[x.rec.cmd].rev # 0
                              /\ x.answer.rev = ops[x.rec.cmd].rev
    /\ x.answer.kind = "forbidden" => ~cfg.granted

(* The server's operations: one per command.                                *)
OpsShape == ops = [c \in 1..MaxCommands |-> [rev |-> ops[c].rev, status |-> ops[c].status]]

(* A command means the same bytes to everyone who holds it: the server has  *)
(* accepted it with them or not at all, whatever is retried, answered twice *)
(* or applied by another thread than the one that sent it.                  *)
DeliveryInv ==
    /\ OpsShape
    /\ \A r \in Records : Has(r, CommandFields)
    /\ \A r \in Records :
          /\ r.cmd \in 1..MaxCommands
          /\ ops[r.cmd].status # "free"
          /\ ops[r.cmd].rev # 0 => ops[r.cmd].rev \in DOMAIN history
                                    /\ history[ops[r.cmd].rev].body = r.body
          /\ r.op => ops[r.cmd].rev # 0
    /\ \A r, q \in Records : r.cmd = q.cmd => r.body = q.body
    /\ \A c \in 1..MaxCommands : ops[c].status \in {"free", "sent"} <=> ops[c].rev = 0
    /\ AnswerTrue(up) /\ AnswerTrue(cyc)
    /\ AckedDelivered

Writes == cfg.canWrite /\ cfg.granted

(* The newest save is out of the daemon's hands.                            *)
SafeNow ==
    \/ \E a \in f.artifacts : Holds(a)
    \/ \E r \in failed : Holds(r.body)
    \/ \E i \in DOMAIN history : Holds(history[i].body)

(* The entry does not take the newest save for settled.                     *)
NotTaken(t) == t.known /\ t.hash = lastEdit => t.dirty

(* The newest save is on disk, and nothing the daemon holds can make it     *)
(* overwrite or forget it: no entry, saved or not, takes the bytes for      *)
(* settled, every command has them, and so does a scan in progress.         *)
Carried ==
    /\ f.local = lastEdit
    /\ NotTaken(f.tracked) /\ NotTaken(disk.tracked)
    /\ \A r \in Records : r.body = lastEdit
    /\ cyc.pc = "scanned" => cyc.scan = lastEdit
    /\ cyc.pc = "missing" /\ cyc.scan = Absent => f.tracked.hash # lastEdit

(* The newest save is in a safe place or carried.                           *)
WorkInv ==
    /\ IsPath(f) /\ Has(disk.tracked, EntryFields)
    /\ Writes => ~f.tracked.readOnly /\ ~disk.tracked.readOnly
    /\ Writes /\ lastEdit # Absent /\ ~raced => SafeNow \/ Carried

(* A reconcile event after the i-th and up to the j-th.                     *)
ReconcileIn(i, j) == \E k \in (i + 1)..j : log[k].kind = "reconcile"

(* What the cursors have passed: the socket is not ahead of the watermark,  *)
(* and a reconcile event between the saved cursor and the watermark, or in  *)
(* what a pull is reading, is owed or has been paid in this cycle.          *)
CursorInv ==
    /\ cursor \in 0..Len(log) /\ disk.cursor \in 0..Len(log)
    /\ cyc.last \in 0..Len(log) /\ ws.pos \in 0..Len(log)
    /\ cyc.pc \in {"idle", "flush"} => ~cyc.didPoll
    /\ cyc.pc = "seeding" => cyc.didPoll
    /\ cyc.pc \in {"reading", "read"} => cursor # 0
    /\ ws.on /\ cursor # 0 => ws.pos <= cursor
    /\ ws.got = "file" => ws.pos < Len(log) /\ log[ws.pos + 1].kind # "reconcile"
    /\ cyc.pc \in {"reading", "read"} /\ ReconcileIn(cursor, cyc.last) => force
    /\ crashes < cfg.crashes /\ disk.cursor # 0 =>
          (cursor = 0 \/ ReconcileIn(disk.cursor, cursor) => force \/ cyc.didPoll)

-----------------------------------------------------------------------------
(* The functions of one path                                                *)

(* A path keeps its form and its artifacts, and may still be written.       *)
Tame(g, h) ==
    /\ IsPath(h) /\ g.artifacts \subseteq h.artifacts
    /\ Writes /\ ~g.tracked.readOnly => ~h.tracked.readOnly

(* It has the newest save and does not take it for settled.                 *)
Bears(g) == g.local = lastEdit /\ NotTaken(g.tracked)

(* An artifact has the newest save.                                         *)
Saves(g) == \E a \in g.artifacts : Holds(a)

(* A path that bears the newest save still does, or has put it aside.       *)
Keeps(g, h) ==
    Tame(g, h) /\ (lastEdit # Absent /\ Bears(g) => Bears(h) \/ Saves(h) \/ OnServer(lastEdit))

(* The entries that the code builds.                                        *)
LEMMA EntryShapes ==
    /\ Has(Untracked, EntryFields)
    /\ \A rev, body, w : Has(Clean(rev, body, w), EntryFields)
  <1>1. Has(Untracked, EntryFields)
    BY DEF Has, Untracked, EntryFields
  <1>2. ASSUME NEW rev, NEW body, NEW w PROVE Has(Clean(rev, body, w), EntryFields)
    BY DEF Has, Untracked, Clean, EntryFields
  <1> QED
    BY <1>1, <1>2

LEMMA CleanIs ==
    ASSUME NEW rev, NEW body, NEW w
    PROVE  /\ Clean(rev, body, w).known /\ Clean(rev, body, w).hash = body
           /\ ~Clean(rev, body, w).dirty /\ (Clean(rev, body, w).readOnly <=> ~w)
  BY DEF Clean, Untracked

(* The server's file over the path: unseen work is kept or put aside.       *)
LEMMA KeepsRemote ==
    ASSUME NEW g, IsPath(g), NEW file, FromServer(file), NEW w, w <=> cfg.canWrite
    PROVE  Tame(g, applyRemoteFile(g, file, w))
           /\ (Writes => Keeps(g, applyRemoteFile(g, file, w)))
  <1> DEFINE h == applyRemoteFile(g, file, w)
  <1>1. ASSUME NEW t, Has(t, EntryFields), h = [g EXCEPT !.tracked = t],
               t.readOnly <=> ~w, g.local = Absent \/ t.dirty
        PROVE  Keeps(g, h)
    <2>1. IsPath(h) /\ h.tracked = t /\ h.local = g.local /\ h.artifacts = g.artifacts
      <3> HIDE DEF h
      <3> QED
        BY <1>1 DEF IsPath, Has
    <2> QED
      BY <1>1, <2>1 DEF Keeps, Tame, Writes, Bears, NotTaken
  <1>2. CASE awaitsSecondMissingScan(g)
    <2>1. PICK t : t = [g.tracked EXCEPT !.known = TRUE, !.readOnly = ~w, !.denied = FALSE]
      OBVIOUS
    <2>2. Has(t, EntryFields) /\ (t.readOnly <=> ~w)
      BY <2>1 DEF IsPath, Has, EntryFields
    <2>3. h = [g EXCEPT !.tracked = t] /\ g.local = Absent
      BY <1>2, <2>1 DEF applyRemoteFile, awaitsSecondMissingScan
    <2> QED
      BY <1>1, <2>2, <2>3 DEF Keeps
  <1>3. CASE ~awaitsSecondMissingScan(g) /\ g.tracked.dirty
    <2>1. PICK t : t = [[g.tracked EXCEPT !.known = TRUE, !.readOnly = ~w, !.denied = FALSE]
                            EXCEPT !.missingPolls = 0]
      OBVIOUS
    <2>2. Has(t, EntryFields) /\ (t.readOnly <=> ~w) /\ t.dirty
      BY <1>3, <2>1 DEF IsPath, Has, EntryFields
    <2>3. h = [g EXCEPT !.tracked = t]
      BY <1>3, <2>1 DEF applyRemoteFile
    <2> QED
      BY <1>1, <2>2, <2>3 DEF Keeps
  <1>4. CASE ~awaitsSecondMissingScan(g) /\ ~g.tracked.dirty
    <2> DEFINE keep == unseenLocalWork(g, file, w) /\ ~remoteDivergedFromBase(g, file)
               x == IF keep THEN g.local ELSE file.body
               y == IF conflictsBeforeApply(g, file, w) THEN g.artifacts \union {g.local}
                    ELSE g.artifacts
               t == Clean(file.rev, file.body, w)
    <2>1. h = [g EXCEPT !.local = x, !.artifacts = y, !.tracked = t]
      BY <1>4 DEF applyRemoteFile, IsPath, Has
    <2>2. Has(t, EntryFields) /\ t.known /\ t.hash = file.body /\ ~t.dirty /\ (t.readOnly <=> ~w)
      BY EntryShapes, CleanIs
    <2>3. IsPath(h) /\ h.tracked = t /\ h.local = x /\ h.artifacts = y
      <3> HIDE DEF h, x, y, t
      <3> QED
        BY <2>1, <2>2 DEF IsPath, Has
    <2>4. Tame(g, h)
      BY <2>2, <2>3 DEF Tame, Writes
    <2>5. ASSUME Writes, lastEdit # Absent, Bears(g), ~OnServer(lastEdit)
          PROVE  Bears(h) \/ Saves(h)
      <3>1. file.body # lastEdit
        BY <2>5 DEF FromServer, NoFile
      <3>2. w /\ unseenLocalWork(g, file, w)
        BY <1>4, <2>5, <3>1 DEF unseenLocalWork, localDivergedFromBase, Bears, NotTaken, Writes
      <3>3. CASE keep
        BY <2>2, <2>3, <2>5, <3>1, <3>3 DEF Bears, NotTaken
      <3>4. CASE ~keep
        <4>1. y = g.artifacts \union {lastEdit}
          BY <1>4, <2>5, <3>2, <3>4 DEF conflictsBeforeApply, Bears
        <4> QED
          BY <2>3, <4>1 DEF Saves, Holds
      <3> QED
        BY <3>3, <3>4
    <2> QED
      BY <2>4, <2>5 DEF Keeps
  <1> QED
    BY <1>2, <1>3, <1>4 DEF Keeps

(* A clean entry of bytes that the server has, or the path without its entry.*)
LEMMA KeepsDelete ==
    ASSUME NEW g, IsPath(g)
    PROVE  Keeps(g, applyRemoteDelete(g))
  <1> DEFINE h == applyRemoteDelete(g)
  <1>1. CASE h = g
    BY <1>1 DEF Keeps, Tame
  <1>2. CASE /\ g.tracked.known /\ ~g.tracked.dirty
             /\ h = [g EXCEPT !.local = IF @ = g.tracked.hash THEN Absent ELSE @,
                              !.tracked = Untracked]
    <2>1. IsPath(h) /\ h.tracked = Untracked /\ h.artifacts = g.artifacts
          /\ h.local = IF g.local = g.tracked.hash THEN Absent ELSE g.local
      <3> HIDE DEF h
      <3> QED
        BY <1>2, EntryShapes DEF IsPath, Has
    <2> QED
      BY <1>2, <2>1 DEF Keeps, Tame, Bears, NotTaken, Untracked
  <1> QED
    BY <1>1, <1>2 DEF applyRemoteDelete

(* A clean entry of bytes that the server has.                              *)
LEMMA KeepsClean ==
    ASSUME NEW g, IsPath(g), NEW rev, NEW body, OnServer(body), NEW w, Writes => w
    PROVE  Keeps(g, [g EXCEPT !.tracked = Clean(rev, body, w)])
  <1> DEFINE t == Clean(rev, body, w)
             h == [g EXCEPT !.tracked = t]
  <1>1. Has(t, EntryFields) /\ t.hash = body /\ (t.readOnly <=> ~w)
    BY EntryShapes, CleanIs
  <1>2. IsPath(h) /\ h.tracked = t /\ h.local = g.local /\ h.artifacts = g.artifacts
    <2> HIDE DEF t
    <2> QED
      BY <1>1 DEF IsPath, Has
  <1>3. Keeps(g, h)
    <2> HIDE DEF h, t
    <2> QED
      BY <1>1, <1>2 DEF Keeps, Tame, Bears, NotTaken
  <1> QED
    BY <1>3

(* An entry with other fields: its hash stays or is marked dirty.           *)
LEMMA KeepsEntry ==
    ASSUME NEW g, IsPath(g), NEW t, Has(t, EntryFields),
           Writes /\ ~g.tracked.readOnly => ~t.readOnly,
           t.dirty \/ (t.hash = g.tracked.hash /\ (t.known => g.tracked.known /\ ~g.tracked.dirty))
                   \/ ~t.known \/ OnServer(t.hash) \/ t.hash # lastEdit
    PROVE  Keeps(g, [g EXCEPT !.tracked = t])
  <1> DEFINE h == [g EXCEPT !.tracked = t]
  <1>1. IsPath(h) /\ h.tracked = t /\ h.local = g.local /\ h.artifacts = g.artifacts
    BY DEF IsPath, Has
  <1>2. Keeps(g, h)
    <2> HIDE DEF h
    <2> QED
      BY <1>1 DEF Keeps, Tame, Bears, NotTaken
  <1> QED
    BY <1>2

(* The acknowledgement of bytes that the server has.                        *)
LEMMA KeepsReconcile ==
    ASSUME NEW g, IsPath(g), NEW pending, NEW body, OnServer(body), NEW rev
    PROVE  Keeps(g, reconcileBulkWrite(g, pending, body, rev))
  BY KeepsClean DEF reconcileBulkWrite, Keeps, Tame

(* An entry that is marked dirty.                                           *)
LEMMA KeepsMarked ==
    ASSUME NEW g, IsPath(g), NEW body
    PROVE  Keeps(g, markDirty(g, body))
  <1>1. PICK t : t = [g.tracked EXCEPT
        !.known = TRUE, !.hash = body, !.dirty = TRUE, !.deletePending = FALSE,
        !.denied = FALSE, !.writeDenied = FALSE, !.deniedHash = Absent,
        !.readOnly = FALSE]
    OBVIOUS
  <1>2. Has(t, EntryFields) /\ t.dirty /\ ~t.readOnly
    BY <1>1 DEF IsPath, Has, EntryFields
  <1>3. markDirty(g, body) = [g EXCEPT !.tracked = t]
    BY <1>1 DEF markDirty, IsPath, Has
  <1> QED
    BY <1>2, <1>3, KeepsEntry

(* The server's bytes over those of the path, whose upload is put aside.    *)
LEMMA Overwritten ==
    ASSUME NEW g, IsPath(g), NEW body, NEW x, NEW t, Has(t, EntryFields),
           Writes /\ ~g.tracked.readOnly => ~t.readOnly,
           NEW h, h = [[g EXCEPT !.artifacts = @ \union {body}] EXCEPT !.local = x, !.tracked = t]
    PROVE  Tame(g, h) /\ (Holds(body) => Saves(h))
  <1>1. IsPath(h) /\ h.tracked = t /\ h.artifacts = g.artifacts \union {body}
    BY DEF IsPath, Has
  <1> QED
    BY <1>1 DEF Tame, Saves

(* materializeConflict, materializeSchemaInvalid, materializeMerge and the  *)
(* reverts: the uploaded bytes are put aside, those on disk are not looked at.*)
LEMMA TameConflict ==
    ASSUME NEW g, IsPath(g), NEW body, NEW file, NEW w, w <=> cfg.canWrite,
           NEW h, h = materializeConflict(g, body, file, w)
    PROVE  Tame(g, h) /\ (Holds(body) => Saves(h))
  <1>1. PICK t : t = [g.tracked EXCEPT !.known = TRUE, !.hash = body, !.dirty = TRUE]
    OBVIOUS
  <1>2. Has(t, EntryFields) /\ t.readOnly = g.tracked.readOnly
    BY <1>1 DEF IsPath, Has, EntryFields
  <1>3. [[g EXCEPT !.artifacts = @ \union {body}] EXCEPT !.tracked = t]
          = [[g EXCEPT !.artifacts = @ \union {body}] EXCEPT !.local = g.local, !.tracked = t]
    BY DEF IsPath, Has
  <1>4. [[g EXCEPT !.artifacts = @ \union {body}].tracked EXCEPT !.known = TRUE, !.hash = body,
                                                                 !.dirty = TRUE] = t
    BY <1>1 DEF IsPath, Has
  <1>5. Has(Clean(file.rev, file.body, w), EntryFields)
          /\ (Clean(file.rev, file.body, w).readOnly <=> ~w)
    BY EntryShapes, CleanIs
  <1>6. file = NoFile => h = [[g EXCEPT !.artifacts = @ \union {body}]
                                  EXCEPT !.local = g.local, !.tracked = t]
    BY <1>3, <1>4 DEF materializeConflict
  <1>7. file # NoFile => h = [[g EXCEPT !.artifacts = @ \union {body}]
                  EXCEPT !.local = file.body, !.tracked = Clean(file.rev, file.body, w)]
    BY DEF materializeConflict
  <1>8. CASE file = NoFile
    <2>1. h = [[g EXCEPT !.artifacts = @ \union {body}] EXCEPT !.local = g.local, !.tracked = t]
      BY <1>6, <1>8
    <2> QED
      BY ONLY IsPath(g), <1>2, <2>1, Overwritten
  <1>9. CASE file # NoFile
    <2>1. Writes /\ ~g.tracked.readOnly => ~Clean(file.rev, file.body, w).readOnly
      BY <1>5 DEF Writes
    <2>2. h = [[g EXCEPT !.artifacts = @ \union {body}]
                  EXCEPT !.local = file.body, !.tracked = Clean(file.rev, file.body, w)]
      BY <1>7, <1>9
    <2> QED
      BY ONLY IsPath(g), <1>5, <2>1, <2>2, Overwritten
  <1> QED
    BY <1>8, <1>9

LEMMA TameSchemaInvalid ==
    ASSUME NEW g, IsPath(g), NEW body, NEW file, NEW w, w <=> cfg.canWrite,
           NEW h, h = materializeSchemaInvalid(g, body, file, w)
    PROVE  Tame(g, h) /\ (Holds(body) => Saves(h))
  <1>1. Has(Clean(file.rev, file.body, w), EntryFields)
          /\ (Clean(file.rev, file.body, w).readOnly <=> ~w)
    BY EntryShapes, CleanIs
  <1>2. Has(Untracked, EntryFields) /\ ~Untracked.readOnly
    BY EntryShapes DEF Untracked
  <1> QED
    BY <1>1, <1>2, Overwritten DEF materializeSchemaInvalid, Writes

LEMMA TameMerge ==
    ASSUME NEW g, IsPath(g), NEW file, NEW w, w <=> cfg.canWrite
    PROVE  Tame(g, materializeMerge(g, file, w))
  <1>1. PICK t : t = [g.tracked EXCEPT !.known = TRUE, !.rev = file.rev, !.hash = file.body,
                                       !.dirty = FALSE, !.readOnly = ~w]
    OBVIOUS
  <1>2. Has(t, EntryFields) /\ (t.readOnly <=> ~w)
    BY <1>1 DEF IsPath, Has, EntryFields
  <1>3. PICK h : h = [g EXCEPT !.local = file.body, !.tracked = t, !.shadow = file]
    OBVIOUS
  <1>4. IsPath(h) /\ h.tracked = t /\ h.artifacts = g.artifacts
    BY <1>2, <1>3 DEF IsPath, Has
  <1>5. materializeMerge(g, file, w) = h
    BY <1>1, <1>3 DEF materializeMerge
  <1> QED
    BY <1>2, <1>4, <1>5 DEF Tame, Writes

LEMMA TameReverted ==
    ASSUME NEW g, IsPath(g), NEW file
    PROVE  /\ IsPath(revertReadonlyFile(g, file))
           /\ revertReadonlyFile(g, file).artifacts = g.artifacts
  <1>1. PICK t : t = [g.tracked EXCEPT !.known = TRUE, !.dirty = FALSE,
                               !.denied = FALSE, !.readOnly = TRUE]
    OBVIOUS
  <1>2. PICK u : u = [t EXCEPT !.rev = file.rev, !.hash = file.body]
    OBVIOUS
  <1>3. Has(t, EntryFields) /\ Has(u, EntryFields)
    BY <1>1, <1>2 DEF IsPath, Has, EntryFields
  <1>4. \/ revertReadonlyFile(g, file) = [g EXCEPT !.tracked = t]
        \/ revertReadonlyFile(g, file) = [g EXCEPT !.local = file.body, !.tracked = u]
    BY <1>1, <1>2 DEF revertReadonlyFile
  <1>5. ASSUME NEW h, NEW v \in {t, u}, NEW x,
               h = [g EXCEPT !.tracked = v] \/ h = [g EXCEPT !.local = x, !.tracked = v]
        PROVE  IsPath(h) /\ h.artifacts = g.artifacts
    BY <1>3, <1>5 DEF IsPath, Has
  <1> QED
    BY <1>4, <1>5

LEMMA TameDenied ==
    ASSUME NEW g, IsPath(g), NEW body
    PROVE  Tame(g, writeDenied(g, body))
  <1>1. PICK t : t = [Untracked EXCEPT !.known = TRUE, !.hash = body, !.writeDenied = TRUE,
                                       !.deniedHash = body]
    OBVIOUS
  <1>2. Has(t, EntryFields) /\ ~t.readOnly
    BY <1>1, EntryShapes DEF Untracked, Has, EntryFields
  <1>3. PICK h : h = [g EXCEPT !.tracked = t]
    OBVIOUS
  <1>4. IsPath(h) /\ h.tracked = t /\ h.artifacts = g.artifacts
    BY <1>2, <1>3 DEF IsPath, Has
  <1> QED
    BY <1>1, <1>2, <1>3, <1>4 DEF Tame, writeDenied

-----------------------------------------------------------------------------
(* What the server has stays there                                          *)

(* Sequences.                                                               *)
LEMMA AppendSeq ==
    ASSUME NEW s, IsSeq(s), NEW e
    PROVE  /\ IsSeq(Append(s, e)) /\ Len(s) \in Nat /\ Len(Append(s, e)) = Len(s) + 1
           /\ DOMAIN s = 1..Len(s) /\ DOMAIN Append(s, e) = 1..(Len(s) + 1)
           /\ \A i \in DOMAIN s : Append(s, e)[i] = s[i]
           /\ Append(s, e)[Len(s) + 1] = e
  <1> DEFINE S == {s[i] : i \in DOMAIN s} \cup {e}
  <1>1. s \in Seq(S)
    BY DEF IsSeq
  <1>2. Append(s, e) \in Seq(S)
    BY <1>1
  <1>3. /\ Len(s) \in Nat /\ Len(Append(s, e)) = Len(s) + 1
        /\ DOMAIN s = 1..Len(s) /\ DOMAIN Append(s, e) = 1..(Len(s) + 1)
        /\ \A i \in DOMAIN s : Append(s, e)[i] = s[i]
        /\ Append(s, e)[Len(s) + 1] = e
    BY <1>1
  <1>4. IsSeq(Append(s, e))
    BY <1>3 DEF IsSeq
  <1> QED
    BY <1>3, <1>4

(* The feed names bytes that the server had.                                *)
FeedTrue ==
    \A i \in DOMAIN log :
       /\ log[i].kind \in {"updated", "deleted", "reconcile"}
       /\ log[i].kind = "updated" => OnServer(log[i].body)

(* The server only appends.                                                 *)
ServerGoesOn ==
    /\ IsSeq(history') /\ IsSeq(log')
    /\ \A i \in DOMAIN history : i \in DOMAIN history' /\ history'[i] = history[i]
    /\ \A i \in DOMAIN log : i \in DOMAIN log' /\ log'[i] = log[i]
    /\ Len(log) \in Nat /\ Len(log') \in Nat /\ Len(log) <= Len(log')
    /\ FromServer(remote)' /\ FeedTrue'

LEMMA SeqLength == ASSUME NEW s, IsSeq(s) PROVE Len(s) \in Nat /\ DOMAIN s = 1..Len(s)
  BY DEF IsSeq

(* What each call makes of the server.                                      *)
LEMMA ServerStays ==
    ASSUME IsSeq(history), IsSeq(log), ServerInv, UNCHANGED <<remote, history, log>>
    PROVE  ServerGoesOn
  BY SeqLength DEF ServerGoesOn, ServerInv, FromServer, FeedTrue, OnServer

LEMMA ServerPut ==
    ASSUME IsSeq(history), IsSeq(log), ServerInv, NEW body, NEW author, Put(body, author)
    PROVE  /\ ServerGoesOn
           /\ Len(history) + 1 \in DOMAIN history' /\ history'[Len(history) + 1].body = body
           /\ Len(history) \in Nat
  <1>1. PICK e : history' = Append(history, e) /\ e.body = body
    BY DEF Put
  <1>2. /\ IsSeq(history') /\ Len(history) \in Nat
        /\ Len(history) + 1 \in DOMAIN history' /\ history'[Len(history) + 1].body = body
        /\ \A i \in DOMAIN history : i \in DOMAIN history' /\ history'[i] = history[i]
    BY <1>1, AppendSeq
  <1>3. PICK v : log' = Append(log, v) /\ v.body = body /\ v.kind \in {"updated", "deleted"}
    BY DEF Put
  <1>4. /\ IsSeq(log') /\ Len(log) \in Nat /\ Len(log') = Len(log) + 1
        /\ \A i \in DOMAIN log : i \in DOMAIN log' /\ log'[i] = log[i]
        /\ \A i \in DOMAIN log' : i \in DOMAIN log \/ log'[i] = v
    BY <1>3, AppendSeq
  <1>5. OnServer(body)' /\ \A b : OnServer(b) => \E i \in DOMAIN history' : history'[i].body = b
    BY <1>2 DEF OnServer
  <1>6. FromServer(remote)'
    BY <1>5 DEF Put, FromServer, OnServer
  <1>7. FeedTrue'
    <2> SUFFICES ASSUME NEW i \in DOMAIN log'
                 PROVE  /\ log'[i].kind \in {"updated", "deleted", "reconcile"}
                        /\ log'[i].kind = "updated" =>
                              \E j \in DOMAIN history' : history'[j].body = log'[i].body
      BY DEF FeedTrue, OnServer
    <2>1. CASE i \in DOMAIN log
      <3>1. log'[i] = log[i]
        BY <1>4, <2>1
      <3>2. /\ log[i].kind \in {"updated", "deleted", "reconcile"}
            /\ log[i].kind = "updated" => OnServer(log[i].body)
        BY <2>1 DEF ServerInv
      <3>3. OnServer(log[i].body) => \E j \in DOMAIN history' : history'[j].body = log[i].body
        BY <1>5
      <3> QED
        BY ONLY <3>1, <3>2, <3>3
    <2>2. CASE log'[i] = v
      BY <1>2, <1>3, <2>2
    <2> QED
      BY <1>4, <2>1, <2>2
  <1> QED
    BY <1>2, <1>4, <1>6, <1>7 DEF ServerGoesOn

LEMMA ServerReconcile ==
    ASSUME IsSeq(history), IsSeq(log), ServerInv, Reconcile
    PROVE  ServerGoesOn
  <1>1. PICK v : log' = Append(log, v) /\ v.kind = "reconcile"
    BY DEF Reconcile
  <1>2. /\ IsSeq(log') /\ Len(log) \in Nat /\ Len(log') = Len(log) + 1
        /\ \A i \in DOMAIN log : i \in DOMAIN log' /\ log'[i] = log[i]
        /\ \A i \in DOMAIN log' : i \in DOMAIN log \/ log'[i] = v
    BY <1>1, AppendSeq
  <1>3. UNCHANGED <<remote, history>>
    BY DEF Reconcile
  <1> QED
    BY <1>1, <1>2, <1>3 DEF ServerGoesOn, ServerInv, FromServer, FeedTrue, OnServer

LEMMA ServerBulkWrite ==
    ASSUME IsSeq(history), IsSeq(log), ServerInv, NEW r, BulkWrite(r)
    PROVE  ServerGoesOn
  BY ServerPut, ServerStays DEF BulkWrite, server

LEMMA ServerPost ==
    ASSUME IsSeq(history), IsSeq(log), ServerInv, NEW r, NEW answer, Post(r, answer)
    PROVE  ServerGoesOn
  BY ServerBulkWrite, ServerStays DEF Post, server

LEMMA ServerDelete ==
    ASSUME IsSeq(history), IsSeq(log), ServerInv, NEW rev, NEW answer, DeleteFile(rev, answer)
    PROVE  ServerGoesOn
  BY ServerPut, ServerStays DEF DeleteFile, server

LEMMA ServerAnswered ==
    ASSUME IsSeq(history), IsSeq(log), ServerInv, NEW r, NEW answer,
           applyOutboxChunkResponse(r, answer)
    PROVE  ServerGoesOn
  <1>1. \/ \E body, author : Put(body, author)
        \/ UNCHANGED <<remote, history, log>>
    BY DEF applyOutboxChunkResponse, handleConflict, server
  <1> QED
    BY <1>1, ServerPut, ServerStays

LEMMA ServerStep ==
    ASSUME IsSeq(history), IsSeq(log), ServerInv, [Next]_vars
    PROVE  ServerGoesOn
  <1>1. CASE Agent
    BY <1>1, ServerStays DEF Agent, EditLocal, RemoveLocal, server
  <1>2. CASE Server
    <2>1. CASE RemoteWrite \/ RemoteDelete
      BY <2>1, ServerPut DEF RemoteWrite, RemoteDelete
    <2>2. CASE \E c \in DOMAIN ops, s \in {"succeeded", "failed"} : OperationSettles(c, s)
      BY <2>2, ServerStays DEF OperationSettles
    <2> QED
      BY <1>2, <2>1, <2>2, ServerReconcile DEF Server
  <1>3. CASE Watcher
    <2>1. CASE HandleLocalGone
      BY <2>1, ServerDelete, ServerStays DEF HandleLocalGone, server
    <2>2. CASE HandleLocalClean
      BY <2>2, ServerStays DEF HandleLocalClean, server
    <2>3. CASE HandleLocalWrite
      BY <2>3, ServerStays DEF HandleLocalWrite
    <2>4. CASE WatcherPost
      BY <2>4, ServerPost DEF WatcherPost
    <2>5. CASE WatcherApply
      BY <2>5, ServerAnswered DEF WatcherApply
    <2> QED
      BY <1>3, <2>1, <2>2, <2>3, <2>4, <2>5 DEF Watcher
  <1>4. CASE Socket
    BY <1>4, ServerStays DEF Socket, connectWebSocket, ApplyInlineEvent, ReadEventFile,
       ApplyEventFile, ApplyDeletedEvent, ApplyReconcileEvent, server
  <1>5. CASE Cycle
    <2>1. CASE CyclePost
      BY <2>1, ServerPost DEF CyclePost
    <2>2. CASE CycleApply
      BY <2>2, ServerAnswered DEF CycleApply
    <2>3. CASE CycleMissing
      BY <2>3, ServerDelete, ServerStays DEF CycleMissing, server
    <2>4. CASE CycleStart \/ CycleSettle \/ CycleSend \/ CycleFlushed \/ CycleScan
               \/ CycleScanned \/ CyclePushGone \/ CyclePush
      BY <2>4, ServerStays DEF CycleStart, CycleSettle, CycleSend, CycleFlushed, CycleScan,
         CycleScanned, CyclePushGone, CyclePush, server
    <2>5. CASE CycleNoPull \/ CycleQuiet \/ CycleCursorExpired \/ CycleFastPath
               \/ CycleFullPull \/ CycleIncremental \/ CycleIncrementalRead \/ CycleRead
               \/ CycleApplyRead \/ CycleExport \/ CycleApplyExport \/ CycleSeedCursor
      BY <2>5, ServerStays DEF CycleNoPull, CycleQuiet, CycleCursorExpired, CycleFastPath,
         CycleFullPull, CycleIncremental, CycleIncrementalRead, CycleRead, CycleApplyRead,
         CycleExport, CycleApplyExport, CycleSeedCursor, server
    <2> QED
      BY <1>5, <2>1, <2>2, <2>3, <2>4, <2>5 DEF Cycle
  <1>6. CASE (\E r \in outbox : SettleReceipt(r)) \/ handleWebSocketDisconnect
             \/ savePrivateState \/ CircuitCloses \/ Crash \/ UNCHANGED vars
    BY <1>6, ServerStays DEF SettleReceipt, handleWebSocketDisconnect, savePrivateState,
       CircuitCloses, Crash, server, vars
  <1> QED
    BY <1>1, <1>2, <1>3, <1>4, <1>5, <1>6 DEF Next

(* The records keep their fields, and what was read came from the server.   *)
LEMMA IdleShapes ==
    /\ Has(Idle, CycleFields) /\ Has(NoUpload, {"rec", "answer"})
    /\ Has(NoSocket, {"on", "pos", "got", "seen", "file"})
    /\ Idle.file = NoFile /\ NoSocket.file = NoFile
  BY DEF Idle, NoUpload, NoSocket, Has, CycleFields

(* What the pulls and the socket have read.                                 *)
ReadInv == FromServer(cyc.file) /\ FromServer(ws.file)

(* What has been read stays true, and is true when it is read.              *)
LEMMA ReadStays ==
    ASSUME ServerInv, ServerGoesOn,
           cyc'.file \in {cyc.file, remote, NoFile}, ws'.file \in {ws.file, remote, NoFile}
    PROVE  ReadInv'
  <1>1. \A file : FromServer(file) =>
            (file = NoFile \/ \E i \in DOMAIN history' : history'[i].body = file.body)
    BY DEF ServerGoesOn, FromServer, OnServer
  <1>2. FromServer(cyc'.file) /\ FromServer(ws'.file)
    BY DEF ServerInv, FromServer
  <1> QED
    BY <1>1, <1>2 DEF ReadInv, FromServer, OnServer

(* The form of the state, whatever the step.                                *)
LEMMA ShapesStep ==
    ASSUME Shapes, [Next]_vars
    PROVE  /\ Has(cyc', CycleFields) /\ Has(up', {"rec", "answer"})
           /\ Has(ws', {"on", "pos", "got", "seen", "file"})
           /\ cyc'.file \in {cyc.file, remote, NoFile} /\ ws'.file \in {ws.file, remote, NoFile}
  <1>1. CASE UNCHANGED <<up, cyc, ws>>
    BY <1>1 DEF Shapes
  <1>2. CASE Watcher
    <2>1. UNCHANGED ws /\ (cyc' = cyc \/ cyc' = markFullPullUpPath)
      BY <1>2 DEF Watcher, HandleLocalGone, HandleLocalClean, HandleLocalWrite, WatcherPost,
         WatcherApply
    <2>2. \/ up' = up \/ up' = NoUpload \/ \E r : up' = [NoUpload EXCEPT !.rec = r]
          \/ \E x : up' = [up EXCEPT !.answer = x]
      BY <1>2 DEF Watcher, HandleLocalGone, HandleLocalClean, HandleLocalWrite, WatcherPost,
         WatcherApply
    <2>3. Has(up', {"rec", "answer"})
      BY <2>2, IdleShapes DEF Shapes, Has
    <2>4. Has(cyc', CycleFields) /\ cyc'.file = cyc.file
      BY <2>1 DEF Shapes, Has, CycleFields, markFullPullUpPath
    <2> QED
      BY <2>1, <2>3, <2>4 DEF Shapes
  <1>3. CASE Socket \/ handleWebSocketDisconnect
    <2>1. /\ UNCHANGED <<up, cyc>>
          /\ \/ ws' = NoSocket
             \/ \E x : ws' = [NoSocket EXCEPT !.on = TRUE, !.pos = x]
             \/ \E x : ws' = [ws EXCEPT !.got = "file", !.seen = x, !.file = remote]
      BY <1>3 DEF Socket, connectWebSocket, ApplyInlineEvent, ReadEventFile,
         ApplyEventFile, ApplyDeletedEvent, ApplyReconcileEvent, handleWebSocketDisconnect,
         EventApplied
    <2>2. \A x : LET y == [NoSocket EXCEPT !.on = TRUE, !.pos = x]
                 IN  Has(y, {"on", "pos", "got", "seen", "file"}) /\ y.file = NoFile
      BY IdleShapes DEF Has
    <2>3. \A x : LET y == [ws EXCEPT !.got = "file", !.seen = x, !.file = remote]
                 IN  Has(y, {"on", "pos", "got", "seen", "file"}) /\ y.file = remote
      BY DEF Has, Shapes
    <2> QED
      BY ZenonT(40), <2>1, <2>2, <2>3, IdleShapes DEF Shapes
  <1>4. CASE cyc' = Idle /\ UNCHANGED <<up, ws>>
    BY <1>4, IdleShapes DEF Shapes
  <1>6. CASE CycleStart \/ CycleSettle \/ CycleSend \/ CyclePost
    <2>1. UNCHANGED <<up, ws>>
      BY <1>6 DEF CycleStart, CycleSettle, CycleSend, CyclePost
    <2>2. \/ cyc' = Idle
          \/ \E x : cyc' = [Idle EXCEPT !.pc = "flush", !.todo = x]
          \/ \E x : \/ cyc' = [cyc EXCEPT !.todo = x]
                    \/ cyc' = [cyc EXCEPT !.rec = x]
                    \/ cyc' = [cyc EXCEPT !.answer = x]
      BY <1>6 DEF CycleStart, CycleSettle, CycleSend, CyclePost, EndCycle, Shapes, Has, CycleFields
    <2>3. Has(cyc', CycleFields) /\ cyc'.file \in {cyc.file, NoFile}
      BY <2>2, IdleShapes DEF Shapes, Has, CycleFields
    <2> QED
      BY <2>1, <2>3 DEF Shapes
  <1>5. CASE CycleApply
    <2>1. UNCHANGED <<up, ws>>
      BY <1>5 DEF CycleApply
    <2>2. \/ cyc' = Idle
          \/ \E x, y, z : cyc' = [cyc EXCEPT !.pc = x, !.todo = y, !.rec = NoCommand,
                                            !.answer = NoAnswer, !.conflicted = z]
      <3>1. PICK x : x = IF cyc.pc = "flush" THEN "flush" ELSE "missing"
        OBVIOUS
      <3>2. PICK z : z = (cyc.conflicted \/ (cyc.answer.kind = "conflict"
                                              /\ f'.artifacts # f.artifacts))
        OBVIOUS
      <3>3. cyc' = Idle \/ cyc' = [cyc EXCEPT !.pc = x, !.todo = cyc.todo \ {cyc.rec.cmd},
                                       !.rec = NoCommand, !.answer = NoAnswer, !.conflicted = z]
        BY <1>5, <3>1, <3>2 DEF CycleApply, EndCycle
      <3> QED
        BY ONLY <3>3
    <2>3. Has(cyc', CycleFields) /\ cyc'.file \in {cyc.file, NoFile}
      BY <2>2, IdleShapes DEF Shapes, Has, CycleFields
    <2> QED
      BY <2>1, <2>3 DEF Shapes
  <1>7. CASE CycleFlushed \/ CycleScan \/ CycleScanned \/ CyclePushGone
             \/ CyclePush \/ CycleMissing
    <2>1. UNCHANGED <<up, ws>>
      BY <1>7 DEF CycleFlushed, CycleScan, CycleScanned, CyclePushGone,
         CyclePush, CycleMissing
    <2>2. \/ cyc' = Idle
          \/ cyc' = [cyc EXCEPT !.pc = "missing"] \/ cyc' = [cyc EXCEPT !.pc = "pull"]
          \/ \E x, y : cyc' = [cyc EXCEPT !.pc = x, !.didPoll = y]
          \/ \E x, y, z : cyc' = [cyc EXCEPT !.pc = x, !.scan = y, !.conflicted = z]
          \/ \E x, y : cyc' = [cyc EXCEPT !.pc = x, !.conflicted = y]
          \/ \E x, y : cyc' = [cyc EXCEPT !.pc = x, !.rec = y]
      <3>1. CASE CycleFlushed
        BY <3>1 DEF CycleFlushed
      <3>2. CASE CycleScan
        BY <3>2 DEF CycleScan
      <3>3. CASE CycleScanned
        BY <3>3 DEF CycleScanned
      <3>4. CASE CyclePushGone
        BY <3>4 DEF CyclePushGone, EndCycle
      <3>5. CASE CyclePush
        BY <3>5 DEF CyclePush
      <3>6. CASE CycleMissing
        BY <3>6 DEF CycleMissing, EndCycle
      <3> QED
        BY <1>7, <3>1, <3>2, <3>3, <3>4, <3>5, <3>6
    <2>3. Has(cyc', CycleFields) /\ cyc'.file \in {cyc.file, NoFile}
      BY <2>2, IdleShapes DEF Shapes, Has, CycleFields
    <2> QED
      BY <2>1, <2>3 DEF Shapes
  <1>8. CASE CycleNoPull \/ CycleQuiet \/ CycleCursorExpired \/ CycleFastPath
               \/ CycleFullPull \/ CycleIncremental \/ CycleIncrementalRead \/ CycleRead
               \/ CycleApplyRead \/ CycleExport \/ CycleApplyExport \/ CycleSeedCursor
    <2>1. UNCHANGED <<up, ws>>
      BY <1>8 DEF CycleNoPull, CycleQuiet, CycleCursorExpired, CycleFastPath,
         CycleFullPull, CycleIncremental, CycleIncrementalRead, CycleRead, CycleApplyRead,
         CycleExport, CycleApplyExport, CycleSeedCursor
    <2>2. \/ cyc' = Idle
          \/ \E x, y, z : \/ cyc' = [cyc EXCEPT !.pc = x]
                          \/ cyc' = [cyc EXCEPT !.pc = x, !.seen = y, !.last = z]
                          \/ cyc' = [cyc EXCEPT !.pc = x, !.file = remote]
                          \/ cyc' = [cyc EXCEPT !.pc = x, !.file = remote, !.upPath = FALSE]
                          \/ cyc' = [cyc EXCEPT !.pc = x, !.didPoll = TRUE]
      BY <1>8 DEF CycleNoPull, CycleQuiet, CycleCursorExpired, CycleFastPath,
         CycleFullPull, CycleIncremental, CycleIncrementalRead, CycleRead, CycleApplyRead,
         CycleExport, CycleApplyExport, CycleSeedCursor, EndCycle, AfterIncremental, AfterFullPull
    <2>3. Has(cyc', CycleFields) /\ cyc'.file \in {cyc.file, remote, NoFile}
      BY <2>2, IdleShapes DEF Shapes, Has, CycleFields
    <2> QED
      BY <2>1, <2>3 DEF Shapes
  <1>9. CASE Crash
    BY <1>9, IdleShapes DEF Crash
  <1>10. CASE Agent \/ Server \/ (\E r \in outbox : SettleReceipt(r)) \/ savePrivateState
              \/ CircuitCloses \/ UNCHANGED vars
    BY <1>1, <1>10 DEF Agent, EditLocal, RemoveLocal, Server, RemoteWrite, RemoteDelete,
       Reconcile, OperationSettles, SettleReceipt, savePrivateState, CircuitCloses, vars
  <1> QED
    BY <1>2, <1>3, <1>5, <1>6, <1>7, <1>8, <1>9, <1>10 DEF Next, Cycle

LEMMA ServerInvStep ==
    ASSUME Shapes, ServerInv, [Next]_vars
    PROVE  Shapes' /\ ServerInv' /\ ServerGoesOn
  <1>1. ServerGoesOn
    BY ServerStep DEF Shapes
  <1>2. ReadInv'
    BY <1>1, ShapesStep, ReadStays
  <1> QED
    BY <1>1, <1>2, ShapesStep DEF Shapes, ServerInv, ServerGoesOn, ReadInv, FeedTrue

-----------------------------------------------------------------------------
(* Commands                                                                 *)

(* The command is one that was held before.                                 *)
Derived(r) == \E q \in Records : q.cmd = r.cmd /\ q.body = r.body

(* A command is sent, accepted with the bytes of its record, and settled.   *)
OpsMoves ==
    /\ OpsShape'
    /\ \A c \in 1..MaxCommands :
          /\ ops[c].status # "free" => ops'[c].status # "free"
          /\ ops'[c].status \in {"free", "sent"} <=> ops'[c].rev = 0
          /\ \/ ops'[c].rev = ops[c].rev
             \/ /\ ops[c].rev = 0 /\ ops[c].status # "free"
                /\ ops'[c].rev \in DOMAIN history'
                /\ \A r \in Records : r.cmd = c => history'[ops'[c].rev].body = r.body

(* The records of the next state are those of this one, but for a new one.  *)
LEMMA DeliveryMoves ==
    ASSUME DeliveryInv, ServerGoesOn, OpsMoves, NEW new,
           \A r \in Records' :
              /\ Has(r, CommandFields) /\ (r.op => ops'[r.cmd].rev # 0)
              /\ \/ Derived(r)
                 \/ /\ r = new /\ r.cmd \in 1..MaxCommands
                    /\ ops[r.cmd].status = "free" /\ ops'[r.cmd].status # "free",
           \A a \in acked' : a \in acked \/ a.superseded
                             \/ (\E i \in DOMAIN history' : history'[i].body = a.body),
           AnswerTrue(up)', AnswerTrue(cyc)'
    PROVE  DeliveryInv'
  <1>1. \A r \in Records' : r.cmd \in 1..MaxCommands /\ ops'[r.cmd].status # "free"
    BY DEF DeliveryInv, Derived, OpsMoves
  <1>2. ASSUME NEW r \in Records', ops'[r.cmd].rev # 0
        PROVE  ops'[r.cmd].rev \in DOMAIN history' /\ history'[ops'[r.cmd].rev].body = r.body
    <2>1. CASE Derived(r)
      <3>1. PICK q \in Records : q.cmd = r.cmd /\ q.body = r.body
        BY <2>1 DEF Derived
      <3>2. CASE ops'[r.cmd].rev = ops[r.cmd].rev
        BY <1>2, <3>1, <3>2 DEF DeliveryInv, ServerGoesOn
      <3>3. CASE ops'[r.cmd].rev # ops[r.cmd].rev
        BY <1>1, <3>1, <3>3 DEF OpsMoves
      <3> QED
        BY <3>2, <3>3
    <2>2. CASE ~Derived(r)
      <3>1. r.cmd \in 1..MaxCommands /\ ops[r.cmd].status = "free"
        BY <2>2
      <3>2. ops[r.cmd].rev = 0
        BY <3>1 DEF DeliveryInv
      <3>3. ops'[r.cmd].rev = ops[r.cmd].rev
        BY <3>1 DEF OpsMoves
      <3> QED
        BY <1>2, <3>2, <3>3
    <2> QED
      BY <2>1, <2>2
  <1>3. ASSUME NEW r \in Records', NEW q \in Records', r.cmd = q.cmd
        PROVE  r.body = q.body
    BY <1>3 DEF DeliveryInv, Derived
  <1>4. AckedDelivered'
    BY DEF AckedDelivered, ServerGoesOn, DeliveryInv
  <1>5. \A c \in 1..MaxCommands : ops'[c].status \in {"free", "sent"} <=> ops'[c].rev = 0
    BY DEF OpsMoves
  <1> QED
    BY <1>1, <1>2, <1>3, <1>4, <1>5 DEF DeliveryInv, OpsMoves

(* No operation, no command and no answer is new.                           *)
LEMMA DeliveryStays ==
    ASSUME DeliveryInv, ServerGoesOn, UNCHANGED <<cfg, ops>>,
           \A r \in Records' :
              Has(r, CommandFields) /\ (r.op => ops[r.cmd].rev # 0) /\ Derived(r),
           \A a \in acked' : a \in acked \/ a.superseded
                             \/ (\E i \in DOMAIN history' : history'[i].body = a.body),
           up'.answer = NoAnswer \/ (up'.answer = up.answer /\ up'.rec = up.rec),
           cyc'.answer = NoAnswer \/ (cyc'.answer = cyc.answer /\ cyc'.rec = cyc.rec)
    PROVE  DeliveryInv'
  <1>1. AnswerTrue(up)' /\ AnswerTrue(cyc)'
    BY DEF DeliveryInv, AnswerTrue, NoAnswer
  <1>2. OpsShape'
    BY DEF DeliveryInv, OpsShape
  <1>3. \A c \in 1..MaxCommands : ops[c].status \in {"free", "sent"} <=> ops[c].rev = 0
    BY DEF DeliveryInv
  <1> QED
    BY <1>1, <1>2, <1>3, DeliveryMoves DEF OpsMoves

(* The steps that touch no command.                                         *)
LEMMA DeliveryQuiet ==
    ASSUME DeliveryInv, ServerGoesOn, UNCHANGED <<cfg, ops, outbox, acked>>,
           \/ up'.answer = NoAnswer /\ up'.rec \in Records \cup {NoCommand}
           \/ up'.answer = up.answer /\ up'.rec = up.rec,
           \/ cyc'.answer = NoAnswer /\ cyc'.rec \in Records \cup {NoCommand}
           \/ cyc'.answer = cyc.answer /\ cyc'.rec = cyc.rec
    PROVE  DeliveryInv' /\ Records' \subseteq Records
  <1>1. Records' \subseteq Records
    BY DEF Records
  <1>2. \A r \in Records' : Has(r, CommandFields) /\ (r.op => ops[r.cmd].rev # 0) /\ Derived(r)
    BY <1>1 DEF DeliveryInv, Derived
  <1> QED
    BY <1>1, <1>2, DeliveryStays

LEMMA QuietStep ==
    ASSUME Shapes, DeliveryInv, ServerGoesOn,
           \/ Agent \/ RemoteWrite \/ RemoteDelete \/ Reconcile
           \/ HandleLocalGone \/ HandleLocalClean
           \/ Socket \/ handleWebSocketDisconnect \/ savePrivateState \/ CircuitCloses \/ Crash
           \/ CycleStart \/ CycleSend \/ CycleFlushed \/ CycleScan \/ CycleScanned
           \/ CyclePushGone \/ CycleMissing \/ CycleNoPull \/ CycleQuiet \/ CycleCursorExpired
           \/ CycleFastPath \/ CycleFullPull \/ CycleIncremental \/ CycleIncrementalRead
           \/ CycleRead \/ CycleApplyRead \/ CycleExport \/ CycleApplyExport \/ CycleSeedCursor
           \/ UNCHANGED vars
    PROVE  DeliveryInv' /\ Records' \subseteq Records
  <1>1. UNCHANGED <<cfg, ops, outbox, acked>>
    BY DEF Agent, EditLocal, RemoveLocal, RemoteWrite, RemoteDelete, Reconcile,
       HandleLocalGone, HandleLocalClean, Socket, connectWebSocket, ApplyInlineEvent,
       ReadEventFile, ApplyEventFile, ApplyDeletedEvent, ApplyReconcileEvent,
       handleWebSocketDisconnect, savePrivateState, CircuitCloses, Crash,
       CycleStart, CycleSend, CycleFlushed, CycleScan, CycleScanned, CyclePushGone, CycleMissing,
       CycleNoPull, CycleQuiet, CycleCursorExpired, CycleFastPath, CycleFullPull,
       CycleIncremental, CycleIncrementalRead, CycleRead, CycleApplyRead, CycleExport,
       CycleApplyExport, CycleSeedCursor, vars, server, commands, DeleteFile
  <1>2. up' \in {up, NoUpload}
    BY DEF Agent, EditLocal, RemoveLocal, RemoteWrite, RemoteDelete, Reconcile,
       HandleLocalGone, HandleLocalClean, Socket, connectWebSocket, ApplyInlineEvent,
       ReadEventFile, ApplyEventFile, ApplyDeletedEvent, ApplyReconcileEvent,
       handleWebSocketDisconnect, savePrivateState, CircuitCloses, Crash,
       CycleStart, CycleSend, CycleFlushed, CycleScan, CycleScanned, CyclePushGone, CycleMissing,
       CycleNoPull, CycleQuiet, CycleCursorExpired, CycleFastPath, CycleFullPull,
       CycleIncremental, CycleIncrementalRead, CycleRead, CycleApplyRead, CycleExport,
       CycleApplyExport, CycleSeedCursor, vars
  <1>3. \/ cyc'.rec = cyc.rec /\ cyc'.answer = cyc.answer
        \/ cyc'.rec \in Records \cup {NoCommand} /\ cyc'.answer = NoAnswer
    <2>1. CASE cyc' \in {cyc, Idle}
      BY <2>1 DEF Idle
    <2>2. CASE HandleLocalGone
      BY <2>2 DEF HandleLocalGone, markFullPullUpPath, Shapes, Has, CycleFields
    <2>3. CASE CycleStart
      BY <2>3 DEF CycleStart, Idle
    <2>4. CASE CycleSend
      <3>1. PICK r \in outbox : cyc' = [cyc EXCEPT !.rec = r]
        BY <2>4 DEF CycleSend, FirstDue, Due
      <3>2. cyc'.rec = r /\ cyc'.answer = cyc.answer
        BY <3>1 DEF Shapes, Has, CycleFields
      <3>3. cyc.answer = NoAnswer
        BY <2>4 DEF CycleSend, DeliveryInv, AnswerTrue
      <3> QED
        BY <3>2, <3>3 DEF Records
    <2>5. CASE CycleFlushed
      BY <2>5 DEF CycleFlushed, Shapes, Has, CycleFields
    <2>6. CASE CycleScan
      BY <2>6 DEF CycleScan, Shapes, Has, CycleFields
    <2>7. CASE CycleScanned
      BY <2>7 DEF CycleScanned, Shapes, Has, CycleFields
    <2>8. CASE CycleMissing
      <3>1. cyc' = Idle \/ cyc' = [cyc EXCEPT !.pc = "pull"]
        BY <2>8 DEF CycleMissing, EndCycle
      <3> QED
        BY <2>1, <3>1 DEF Shapes, Has, CycleFields
    <2>9. CASE CycleQuiet \/ CycleCursorExpired \/ CycleFullPull \/ CycleIncremental
               \/ CycleIncrementalRead \/ CycleRead \/ CycleApplyRead \/ CycleExport
               \/ CycleApplyExport \/ CycleSeedCursor
      <3>1. \/ cyc' = Idle
            \/ \E x, y, z : \/ cyc' = [cyc EXCEPT !.pc = x]
                            \/ cyc' = [cyc EXCEPT !.pc = x, !.seen = y, !.last = z]
                            \/ cyc' = [cyc EXCEPT !.pc = x, !.file = remote]
                            \/ cyc' = [cyc EXCEPT !.pc = x, !.file = remote, !.upPath = FALSE]
                            \/ cyc' = [cyc EXCEPT !.pc = x, !.didPoll = TRUE]
        BY <2>9 DEF CycleQuiet, CycleCursorExpired, CycleFullPull, CycleIncremental,
           CycleIncrementalRead, CycleRead, CycleApplyRead, CycleExport, CycleApplyExport,
           CycleSeedCursor, EndCycle, AfterIncremental, AfterFullPull
      <3> QED
        BY ZenonT(40), <2>1, <3>1 DEF Shapes, Has, CycleFields
    <2>10. \/ cyc' \in {cyc, Idle}
           \/ HandleLocalGone \/ CycleStart \/ CycleSend \/ CycleFlushed \/ CycleScan
           \/ CycleScanned \/ CycleMissing
           \/ CycleQuiet \/ CycleCursorExpired \/ CycleFullPull \/ CycleIncremental
           \/ CycleIncrementalRead \/ CycleRead \/ CycleApplyRead \/ CycleExport
           \/ CycleApplyExport \/ CycleSeedCursor
      BY DEF Agent, EditLocal, RemoveLocal, RemoteWrite, RemoteDelete, Reconcile,
         HandleLocalClean, Socket, connectWebSocket, ApplyInlineEvent,
         ReadEventFile, ApplyEventFile, ApplyDeletedEvent, ApplyReconcileEvent,
         handleWebSocketDisconnect, savePrivateState, CircuitCloses, Crash, CyclePushGone,
         CycleNoPull, CycleFastPath, vars, EndCycle
    <2> QED
      BY <2>1, <2>2, <2>3, <2>4, <2>5, <2>6, <2>7, <2>8, <2>9, <2>10
  <1>4. \/ up'.answer = NoAnswer /\ up'.rec \in Records \cup {NoCommand}
        \/ up'.answer = up.answer /\ up'.rec = up.rec
    BY <1>2 DEF NoUpload
  <1> QED
    BY <1>1, <1>3, <1>4, DeliveryQuiet

(* One operation's status changes.                                          *)
StatusBecomes(c, s) == ops' = [ops EXCEPT ![c].status = s]

(* The status of one operation.                                             *)
LEMMA OpsExcept ==
    ASSUME OpsShape, NEW c \in 1..MaxCommands, NEW s, StatusBecomes(c, s)
    PROVE  /\ OpsShape'
           /\ \A d \in 1..MaxCommands :
                 /\ ops'[d].rev = ops[d].rev
                 /\ ops'[d].status = (IF d = c THEN s ELSE ops[d].status)
  <1>1. /\ DOMAIN ops = 1..MaxCommands
        /\ \A d \in 1..MaxCommands : ops[d] = [rev |-> ops[d].rev, status |-> ops[d].status]
    BY DEF OpsShape
  <1>2. [ops[c] EXCEPT !.status = s] = [rev |-> ops[c].rev, status |-> s]
    BY <1>1
  <1>3. ops' = [d \in 1..MaxCommands |->
                  IF d = c THEN [rev |-> ops[c].rev, status |-> s] ELSE ops[d]]
    BY <1>1, <1>2 DEF StatusBecomes
  <1>4. ASSUME NEW d \in 1..MaxCommands
        PROVE  /\ ops'[d].rev = ops[d].rev
               /\ ops'[d].status = (IF d = c THEN s ELSE ops[d].status)
               /\ ops'[d] = [rev |-> ops'[d].rev, status |-> ops'[d].status]
    <2>1. ops'[d] = IF d = c THEN [rev |-> ops[c].rev, status |-> s] ELSE ops[d]
      BY <1>3
    <2> QED
      BY <1>1, <2>1
  <1>6. DOMAIN ops' = 1..MaxCommands /\ ops' = [d \in DOMAIN ops' |-> ops'[d]]
    BY <1>3
  <1> QED
    BY <1>4, <1>6 DEF OpsShape

LEMMA SettlesStep ==
    ASSUME DeliveryInv, ServerGoesOn, NEW c \in DOMAIN ops, NEW s \in {"succeeded", "failed"},
           OperationSettles(c, s)
    PROVE  DeliveryInv' /\ Records' = Records
  <1>1. /\ UNCHANGED <<cfg, outbox, acked, up, cyc>>
        /\ ops' = [ops EXCEPT ![c].status = s] /\ ops[c].status = "pending"
    BY DEF OperationSettles, commands
  <1>2. c \in 1..MaxCommands
    BY DEF DeliveryInv, OpsShape
  <1>4. OpsShape' /\ \A d \in 1..MaxCommands :
           ops'[d].rev = ops[d].rev /\ ops'[d].status = (IF d = c THEN s ELSE ops[d].status)
    <2>1. OpsShape /\ StatusBecomes(c, s)
      BY <1>1 DEF DeliveryInv, StatusBecomes
    <2> QED
      BY <1>2, <2>1, OpsExcept
  <1>5. OpsMoves
    BY <1>1, <1>4 DEF OpsMoves, DeliveryInv
  <1>6. Records' = Records
    BY <1>1 DEF Records
  <1>7. AnswerTrue(up)' /\ AnswerTrue(cyc)'
    BY <1>1, <1>4 DEF AnswerTrue, DeliveryInv, Records
  <1>8. \A r \in Records' :
           Has(r, CommandFields) /\ (r.op => ops'[r.cmd].rev # 0) /\ Derived(r)
    BY <1>4, <1>6 DEF DeliveryInv, Derived
  <1> QED
    BY <1>1, <1>5, <1>6, <1>7, <1>8, DeliveryMoves

(* What a POST does to the operations, and that its answer says so.         *)
LEMMA BulkWriteMoves ==
    ASSUME Shapes, ServerInv, DeliveryInv, NEW r \in Records, BulkWrite(r), UNCHANGED cfg
    PROVE  /\ OpsMoves
           /\ \A c \in 1..MaxCommands : ops[c].rev # 0 => ops'[c].rev = ops[c].rev
           /\ BulkWriteAnswer(r).kind = "ok" =>
                 ops'[r.cmd].rev # 0 /\ BulkWriteAnswer(r).rev = ops'[r.cmd].rev
  <1>1. r.cmd \in 1..MaxCommands /\ ops[r.cmd].status # "free"
    BY DEF DeliveryInv
  <1>2. CASE BulkWriteAnswer(r).kind = "ok" /\ ops[r.cmd].rev = 0
    <2>1. /\ Put(r.body, "mount")
          /\ ops' = [ops EXCEPT ![r.cmd] = [rev |-> Len(history) + 1, status |-> "pending"]]
      BY <1>2 DEF BulkWrite
    <2>2. /\ ops' = [c \in 1..MaxCommands |->
                        [rev |-> IF c = r.cmd THEN Len(history) + 1 ELSE ops[c].rev,
                         status |-> IF c = r.cmd THEN "pending" ELSE ops[c].status]]
      BY <1>1, <2>1 DEF DeliveryInv, OpsShape
    <2>3. OpsShape' /\ \A c \in 1..MaxCommands :
             /\ ops'[c].rev = (IF c = r.cmd THEN Len(history) + 1 ELSE ops[c].rev)
             /\ ops'[c].status = (IF c = r.cmd THEN "pending" ELSE ops[c].status)
      BY <2>2 DEF OpsShape
    <2>4. /\ Len(history) + 1 \in DOMAIN history' /\ history'[Len(history) + 1].body = r.body
          /\ Len(history) + 1 # 0
      BY <2>1, ServerPut DEF Shapes
    <2>5. OpsMoves
      BY <1>1, <1>2, <2>3, <2>4 DEF OpsMoves, DeliveryInv
    <2>6. BulkWriteAnswer(r).rev = Len(history) + 1
      BY <1>2 DEF BulkWriteAnswer
    <2> QED
      BY <1>1, <1>2, <2>3, <2>4, <2>5, <2>6
  <1>3. CASE ~(BulkWriteAnswer(r).kind = "ok" /\ ops[r.cmd].rev = 0)
    <2>1. ops' = ops
      BY <1>3 DEF BulkWrite, server
    <2>2. OpsMoves
      BY <2>1 DEF OpsMoves, DeliveryInv, OpsShape
    <2>3. BulkWriteAnswer(r).kind = "ok" => BulkWriteAnswer(r).rev = ops[r.cmd].rev
      BY <1>3 DEF BulkWriteAnswer
    <2> QED
      BY <1>3, <2>1, <2>2, <2>3
  <1> QED
    BY <1>2, <1>3

(* A POST, by whichever thread: it may act and its answer be lost.          *)
LEMMA PostMoves ==
    ASSUME Shapes, ServerInv, DeliveryInv, NEW r \in Records, NEW answer, Post(r, answer),
           UNCHANGED cfg
    PROVE  /\ OpsMoves
           /\ \A c \in 1..MaxCommands : ops[c].rev # 0 => ops'[c].rev = ops[c].rev
           /\ answer.kind = "ok" => ops'[r.cmd].rev # 0 /\ answer.rev = ops'[r.cmd].rev
           /\ answer.kind = "forbidden" => ~cfg.granted
  <1>1. CASE UNCHANGED server /\ answer = [kind |-> "error", rev |-> 0]
    <2>1. OpsMoves
      BY <1>1 DEF server, OpsMoves, DeliveryInv, OpsShape
    <2> QED
      BY <1>1, <2>1 DEF server
  <1>2. CASE BulkWrite(r) /\ (answer = [kind |-> "error", rev |-> 0]
                              \/ answer = BulkWriteAnswer(r))
    <2>1. BulkWriteAnswer(r).kind = "forbidden" => ~cfg.granted
      BY DEF BulkWriteAnswer
    <2> QED
      BY <1>2, <2>1, BulkWriteMoves
  <1> QED
    BY <1>1, <1>2 DEF Post

LEMMA PostStep ==
    ASSUME Shapes, ServerInv, DeliveryInv, ServerGoesOn, WatcherPost \/ CyclePost
    PROVE  DeliveryInv' /\ Records' = Records
  <1>1. CASE WatcherPost
    <2>1. PICK answer : Post(up.rec, answer) /\ up' = [up EXCEPT !.answer = answer]
      BY <1>1 DEF WatcherPost
    <2>2. up.rec \in Records /\ UNCHANGED <<cfg, outbox, acked, cyc>>
      BY <1>1 DEF WatcherPost, Records, commands
    <2>3. up'.rec = up.rec /\ up'.answer = answer
      BY <2>1 DEF Shapes, Has
    <2>4. Records' = Records
      BY <2>2, <2>3 DEF Records
    <2>5. /\ OpsMoves
          /\ \A c \in 1..MaxCommands : ops[c].rev # 0 => ops'[c].rev = ops[c].rev
          /\ answer.kind = "ok" => ops'[up.rec.cmd].rev # 0 /\ answer.rev = ops'[up.rec.cmd].rev
          /\ answer.kind = "forbidden" => ~cfg.granted
      BY <2>1, <2>2, PostMoves
    <2>6. AnswerTrue(up)' /\ AnswerTrue(cyc)'
      BY <1>1, <2>2, <2>3, <2>5 DEF AnswerTrue, DeliveryInv, Records, WatcherPost
    <2>7. \A r \in Records' :
             Has(r, CommandFields) /\ (r.op => ops'[r.cmd].rev # 0) /\ Derived(r)
      BY <2>4, <2>5 DEF DeliveryInv, Derived
    <2> QED
      BY <2>2, <2>4, <2>5, <2>6, <2>7, DeliveryMoves
  <1>2. CASE CyclePost
    <2>1. PICK answer : Post(cyc.rec, answer) /\ cyc' = [cyc EXCEPT !.answer = answer]
      BY <1>2 DEF CyclePost
    <2>2. cyc.rec \in Records /\ UNCHANGED <<cfg, outbox, acked, up>>
      BY <1>2 DEF CyclePost, Records, commands
    <2>3. cyc'.rec = cyc.rec /\ cyc'.answer = answer
      BY <2>1 DEF Shapes, Has, CycleFields
    <2>4. Records' = Records
      BY <2>2, <2>3 DEF Records
    <2>5. /\ OpsMoves
          /\ \A c \in 1..MaxCommands : ops[c].rev # 0 => ops'[c].rev = ops[c].rev
          /\ answer.kind = "ok" => ops'[cyc.rec.cmd].rev # 0
                                     /\ answer.rev = ops'[cyc.rec.cmd].rev
          /\ answer.kind = "forbidden" => ~cfg.granted
      BY <2>1, <2>2, PostMoves
    <2>6. AnswerTrue(up)' /\ AnswerTrue(cyc)'
      BY <1>2, <2>2, <2>3, <2>5 DEF AnswerTrue, DeliveryInv, Records, CyclePost
    <2>7. \A r \in Records' :
             Has(r, CommandFields) /\ (r.op => ops'[r.cmd].rev # 0) /\ Derived(r)
      BY <2>4, <2>5 DEF DeliveryInv, Derived
    <2> QED
      BY <2>2, <2>4, <2>5, <2>6, <2>7, DeliveryMoves
  <1> QED
    BY <1>1, <1>2

(* The outbox after an answer or a receipt.                                 *)
Filed ==
    /\ \A q \in outbox' :
          Has(q, CommandFields) /\ (q.op => ops[q.cmd].rev # 0) /\ Derived(q)
    /\ \A a \in acked' : a \in acked \/ a.superseded
                         \/ (\E i \in DOMAIN history' : history'[i].body = a.body)
    /\ failed \subseteq failed'

(* A command that is filed, kept for another attempt, or given a receipt.   *)
LEMMA Filing ==
    ASSUME DeliveryInv, ServerGoesOn, NEW r \in Records,
           \/ ackOutboxRecord(r) /\ OnServer(r.body)
           \/ failOutboxRecord(r) \/ retryOutboxRecord(r)
           \/ UNCHANGED commands
           \/ /\ outbox' = saveOutboxRecord([r EXCEPT !.op = TRUE])
              /\ UNCHANGED <<acked, failed>> /\ ops[r.cmd].rev # 0
    PROVE  Filed
  <1>1. \A q \in outbox : Has(q, CommandFields) /\ (q.op => ops[q.cmd].rev # 0) /\ Derived(q)
    BY DEF DeliveryInv, Records, Derived
  <1>2. Has(r, CommandFields) /\ (r.op => ops[r.cmd].rev # 0)
    BY DEF DeliveryInv
  <1>3. ASSUME NEW t, t = incrementOutboxAttempt(r, MaxAttempts)
                      \/ (t = [r EXCEPT !.op = TRUE] /\ ops[r.cmd].rev # 0)
        PROVE  Has(t, CommandFields) /\ (t.op => ops[t.cmd].rev # 0) /\ Derived(t)
    <2>1. Has(t, CommandFields) /\ t.cmd = r.cmd /\ t.body = r.body /\ (t.op => r.op \/ ops[r.cmd].rev # 0)
      BY <1>2, <1>3 DEF incrementOutboxAttempt, Has, CommandFields
    <2> QED
      BY <1>2, <2>1 DEF Derived
  <1>4. \A q \in outbox' :
           \/ q \in outbox
           \/ q = incrementOutboxAttempt(r, MaxAttempts)
           \/ q = [r EXCEPT !.op = TRUE] /\ ops[r.cmd].rev # 0
    BY DEF ackOutboxRecord, failOutboxRecord, retryOutboxRecord, saveOutboxRecord, commands
  <1>5. \A a \in acked' :
           \/ a \in acked
           \/ /\ a = [cmd |-> r.cmd, body |-> r.body, superseded |-> FALSE]
              /\ OnServer(r.body)
    BY DEF ackOutboxRecord, failOutboxRecord, retryOutboxRecord, commands
  <1>6. OnServer(r.body) => \E i \in DOMAIN history' : history'[i].body = r.body
    BY DEF ServerGoesOn, OnServer
  <1>7. failed \subseteq failed'
    BY DEF ackOutboxRecord, failOutboxRecord, retryOutboxRecord, commands
  <1> QED
    BY <1>1, <1>3, <1>4, <1>5, <1>6, <1>7 DEF Filed

LEMMA AnsweredFlow ==
    ASSUME Shapes, ServerInv, ServerGoesOn, DeliveryInv, NEW r \in Records, NEW answer,
           answer.kind = "ok" => ops[r.cmd].rev # 0, applyOutboxChunkResponse(r, answer)
    PROVE  Filed /\ UNCHANGED ops
  <1>1. ops' = ops
    BY DEF applyOutboxChunkResponse, handleConflict, server
  <1>2. writeAlreadyLanded(remote, r.body) => OnServer(r.body)
    BY DEF writeAlreadyLanded, ServerInv, FromServer
  <1>3. \/ ackOutboxRecord(r) /\ OnServer(r.body)
        \/ failOutboxRecord(r) \/ retryOutboxRecord(r)
        \/ /\ outbox' = saveOutboxRecord([r EXCEPT !.op = TRUE])
           /\ UNCHANGED <<acked, failed>> /\ ops[r.cmd].rev # 0
    BY <1>2 DEF applyOutboxChunkResponse, handleConflict
  <1> QED
    BY <1>1, <1>3, Filing

LEMMA SettledFlow ==
    ASSUME DeliveryInv, ServerGoesOn, NEW r \in Records, r.op, applyOutboxOperationResult(r)
    PROVE  Filed
  <1>1. OnServer(r.body)
    BY DEF DeliveryInv, OnServer
  <1> QED
    BY <1>1, Filing DEF applyOutboxOperationResult

(* The steps that file a command.                                           *)
LEMMA FiledStep ==
    ASSUME Shapes, ServerInv, DeliveryInv, ServerGoesOn,
           \/ WatcherApply \/ CycleApply \/ CycleSettle \/ \E r \in outbox : SettleReceipt(r)
    PROVE  DeliveryInv' /\ (\A r \in Records' : Derived(r)) /\ failed \subseteq failed'
  <1>1. Filed /\ UNCHANGED <<cfg, ops>>
    <2>1. CASE WatcherApply
      <3>1. up.rec \in Records /\ (up.answer.kind = "ok" => ops[up.rec.cmd].rev # 0)
        BY <2>1 DEF WatcherApply, DeliveryInv, AnswerTrue, Records
      <3>2. applyOutboxChunkResponse(up.rec, up.answer) /\ cfg' = cfg
        BY <2>1 DEF WatcherApply
      <3> QED
        BY <3>1, <3>2, AnsweredFlow
    <2>2. CASE CycleApply
      <3>1. cyc.rec \in Records /\ (cyc.answer.kind = "ok" => ops[cyc.rec.cmd].rev # 0)
        BY <2>2 DEF CycleApply, DeliveryInv, AnswerTrue, Records
      <3>2. applyOutboxChunkResponse(cyc.rec, cyc.answer) /\ cfg' = cfg
        BY <2>2 DEF CycleApply
      <3> QED
        BY <3>1, <3>2, AnsweredFlow
    <2>3. CASE CycleSettle
      BY <2>3, SettledFlow DEF CycleSettle, FirstDue, Due, Records, server
    <2>4. CASE \E r \in outbox : SettleReceipt(r)
      BY <2>4, SettledFlow DEF SettleReceipt, Records, server
    <2> QED
      BY <2>1, <2>2, <2>3, <2>4
  <1>2. /\ up' \in {up, NoUpload}
        /\ \/ cyc'.rec = cyc.rec /\ cyc'.answer = cyc.answer
           \/ cyc'.rec = NoCommand /\ cyc'.answer = NoAnswer
    <2>1. CASE WatcherApply
      BY <2>1 DEF WatcherApply, markFullPullUpPath, Shapes, Has, CycleFields
    <2>2. CASE CycleApply
      <3>1. PICK x : x = IF cyc.pc = "flush" THEN "flush" ELSE "missing"
        OBVIOUS
      <3>2. PICK z : z = (cyc.conflicted \/ (cyc.answer.kind = "conflict"
                                              /\ f'.artifacts # f.artifacts))
        OBVIOUS
      <3>3. cyc' = Idle \/ cyc' = [cyc EXCEPT !.pc = x, !.todo = cyc.todo \ {cyc.rec.cmd},
                                       !.rec = NoCommand, !.answer = NoAnswer, !.conflicted = z]
        BY <2>2, <3>1, <3>2 DEF CycleApply, EndCycle
      <3>4. cyc'.rec = NoCommand /\ cyc'.answer = NoAnswer
        <4>1. PICK t : t = cyc.todo \ {cyc.rec.cmd}
          OBVIOUS
        <4>2. cyc' = Idle \/ cyc' = [cyc EXCEPT !.pc = x, !.todo = t,
                                         !.rec = NoCommand, !.answer = NoAnswer, !.conflicted = z]
          BY ONLY <3>3, <4>1
        <4>3. Has(cyc, CycleFields)
          BY DEF Shapes
        <4>4. Idle.rec = NoCommand /\ Idle.answer = NoAnswer
          BY DEF Idle
        <4>5. CASE cyc' = Idle
          BY <4>4, <4>5
        <4>6. CASE cyc' = [cyc EXCEPT !.pc = x, !.todo = t,
                                      !.rec = NoCommand, !.answer = NoAnswer, !.conflicted = z]
          BY ONLY <4>3, <4>6 DEF Has, CycleFields
        <4> QED
          BY <4>2, <4>5, <4>6
      <3>5. up' = up
        BY <2>2 DEF CycleApply
      <3> QED
        BY <3>4, <3>5
    <2>3. CASE CycleSettle
      <3>1. up' = up /\ (cyc' = Idle \/ \E x : cyc' = [cyc EXCEPT !.todo = x])
        BY <2>3 DEF CycleSettle, EndCycle
      <3> QED
        BY <3>1 DEF Idle, Shapes, Has, CycleFields
    <2>4. CASE \E r \in outbox : SettleReceipt(r)
      BY <2>4 DEF SettleReceipt
    <2> QED
      BY <2>1, <2>2, <2>3, <2>4
  <1>3. \A r \in Records' : r \in outbox' \/ r \in Records
    BY <1>2 DEF Records, NoUpload
  <1>4. \A r \in Records' :
           Has(r, CommandFields) /\ (r.op => ops[r.cmd].rev # 0) /\ Derived(r)
    BY <1>1, <1>3 DEF Filed, DeliveryInv, Derived
  <1>5. up'.answer = NoAnswer \/ (up'.answer = up.answer /\ up'.rec = up.rec)
    BY <1>2 DEF NoUpload
  <1>6. DeliveryInv'
    BY <1>1, <1>2, <1>4, <1>5, DeliveryStays DEF Filed
  <1> QED
    BY <1>1, <1>4, <1>6 DEF Filed

(* Sends, whatever the step.                                                *)
LEMMA SendsStep ==
    ASSUME Shapes, Sends, [Next]_vars
    PROVE  Sends'
  <1>1. CASE cyc' \in {cyc, Idle}
    BY <1>1 DEF Sends, Idle
  <1>2. CASE cyc' = markFullPullUpPath
    BY <1>2 DEF markFullPullUpPath, Sends, Shapes, Has, CycleFields
  <1>3. CASE CycleStart
    BY <1>3 DEF CycleStart, Sends, Idle
  <1>4. CASE CycleSettle \/ CycleSend
    BY <1>1, <1>4 DEF CycleSettle, CycleSend, EndCycle, Sends, Shapes, Has, CycleFields
  <1>5. CASE CyclePost
    BY <1>5 DEF CyclePost, Sends, Shapes, Has, CycleFields
  <1>6. CASE CycleApply
    <2>1. PICK x : x = IF cyc.pc = "flush" THEN "flush" ELSE "missing"
      OBVIOUS
    <2>2. PICK z : z = (cyc.conflicted \/ (cyc.answer.kind = "conflict"
                                            /\ f'.artifacts # f.artifacts))
      OBVIOUS
    <2>3. PICK t : t = cyc.todo \ {cyc.rec.cmd}
      OBVIOUS
    <2>4. cyc' = Idle \/ cyc' = [cyc EXCEPT !.pc = x, !.todo = t,
                                     !.rec = NoCommand, !.answer = NoAnswer, !.conflicted = z]
      BY <1>6, <2>1, <2>2, <2>3 DEF CycleApply, EndCycle
    <2>5. Has(cyc, CycleFields)
      BY DEF Shapes
    <2>6. CASE cyc' = [cyc EXCEPT !.pc = x, !.todo = t,
                                  !.rec = NoCommand, !.answer = NoAnswer, !.conflicted = z]
      <3>1. cyc'.rec = NoCommand /\ cyc'.pc = x
        BY ONLY <2>5, <2>6 DEF Has, CycleFields
      <3> QED
        BY <2>1, <3>1 DEF Sends
    <2> QED
      BY <1>1, <2>4, <2>6
  <1>7. CASE CycleFlushed \/ CycleScan \/ CycleScanned \/ CyclePushGone
    <2>1. CASE /\ cyc.rec = NoCommand
               /\ \E x \in {"exporting", "push"} : \E y :
                     cyc' = [cyc EXCEPT !.pc = x, !.didPoll = y]
      BY <2>1 DEF Sends, Shapes, Has, CycleFields
    <2>2. CASE /\ cyc.pc = "push"
               /\ \E y : \/ cyc' = [cyc EXCEPT !.pc = "scanned", !.scan = y, !.conflicted = FALSE]
                        \/ cyc' = [cyc EXCEPT !.pc = "pull", !.conflicted = FALSE]
      BY <2>2 DEF Sends, Shapes, Has, CycleFields
    <2>3. CASE cyc.pc = "scanned" /\ cyc' = [cyc EXCEPT !.pc = "missing"]
      BY <2>3 DEF Sends, Shapes, Has, CycleFields
    <2>4. CASE CycleFlushed
      <3>1. PICK x : x = IF force THEN "exporting" ELSE "push"
        OBVIOUS
      <3>2. cyc.rec = NoCommand /\ cyc' = [cyc EXCEPT !.pc = x, !.didPoll = force]
        BY <2>4, <3>1 DEF CycleFlushed
      <3> QED
        BY <2>1, <3>1, <3>2
    <2>5. CASE CycleScan
      BY <2>2, <2>5 DEF CycleScan
    <2>6. CASE CycleScanned
      BY <2>3, <2>6 DEF CycleScanned
    <2>7. CASE CyclePushGone
      BY <1>1, <2>7 DEF CyclePushGone, EndCycle
    <2> QED
      BY <1>7, <2>4, <2>5, <2>6, <2>7
  <1>8. CASE CyclePush
    <2>1. cyc.pc = "scanned" /\ cyc.scan # Absent
      BY <1>8 DEF CyclePush, scanSettles
    <2>2. CASE cyc' = [cyc EXCEPT !.pc = "missing"]
      BY <2>1, <2>2 DEF Sends, Shapes, Has, CycleFields
    <2>3. CASE \E x, y : /\ x = "pushing" \/ (x = "missing" /\ y = NoCommand)
                        /\ cyc' = [cyc EXCEPT !.pc = x, !.rec = y]
      BY <2>1, <2>3 DEF Sends, Shapes, Has, CycleFields
    <2> QED
      BY <1>8, <2>2, <2>3 DEF CyclePush
  <1>9. CASE CycleMissing
    BY <1>1, <1>9 DEF CycleMissing, EndCycle, Sends, Shapes, Has, CycleFields
  <1>10. CASE CycleNoPull \/ CycleQuiet \/ CycleCursorExpired \/ CycleFastPath
              \/ CycleFullPull \/ CycleIncremental \/ CycleIncrementalRead
    <2>1. cyc.pc = "pull"
      BY <1>10 DEF CycleNoPull, CycleQuiet, CycleCursorExpired, CycleFastPath, CycleFullPull,
         CycleIncremental, CycleIncrementalRead, Pulls
    <2>2. \/ cyc' = Idle \/ cyc' = [cyc EXCEPT !.pc = "exporting"]
          \/ \E y, z : cyc' = [cyc EXCEPT !.pc = "reading", !.seen = y, !.last = z]
      BY <1>10 DEF CycleNoPull, CycleQuiet, CycleCursorExpired, CycleFastPath, CycleFullPull,
         CycleIncremental, CycleIncrementalRead, EndCycle, AfterIncremental
    <2> QED
      BY <1>1, <2>1, <2>2 DEF Sends, Shapes, Has, CycleFields
  <1>11. CASE CycleRead \/ CycleApplyRead \/ CycleExport \/ CycleApplyExport \/ CycleSeedCursor
    <2>1. cyc.pc \in {"reading", "read", "exporting", "exported", "seeding"}
      BY <1>11 DEF CycleRead, CycleApplyRead, CycleExport, CycleApplyExport, CycleSeedCursor
    <2>2. \/ cyc' = Idle
          \/ \E x \in {"read", "exporting", "exported", "seeding", "push", "pull"} :
                \/ cyc' = [cyc EXCEPT !.pc = x]
                \/ cyc' = [cyc EXCEPT !.pc = x, !.file = remote]
                \/ cyc' = [cyc EXCEPT !.pc = x, !.file = remote, !.upPath = FALSE]
                \/ cyc' = [cyc EXCEPT !.pc = x, !.didPoll = TRUE]
      BY <1>11 DEF CycleRead, CycleApplyRead, CycleExport, CycleApplyExport, CycleSeedCursor,
         EndCycle, AfterIncremental, AfterFullPull
    <2> QED
      BY <1>1, <2>1, <2>2 DEF Sends, Shapes, Has, CycleFields
  <1>12. CASE Agent \/ Server \/ Watcher \/ Socket \/ handleWebSocketDisconnect
              \/ (\E r \in outbox : SettleReceipt(r)) \/ savePrivateState \/ CircuitCloses
              \/ Crash \/ UNCHANGED vars
    <2>1. cyc' \in {cyc, Idle} \/ cyc' = markFullPullUpPath
      BY <1>12 DEF Agent, EditLocal, RemoveLocal, Server, RemoteWrite, RemoteDelete, Reconcile,
         OperationSettles, Watcher, HandleLocalGone, HandleLocalClean, HandleLocalWrite,
         WatcherPost, WatcherApply, Socket, connectWebSocket, ApplyInlineEvent, ReadEventFile,
         ApplyEventFile, ApplyDeletedEvent, ApplyReconcileEvent, handleWebSocketDisconnect,
         SettleReceipt, savePrivateState, CircuitCloses, Crash, vars
    <2> QED
      BY <1>1, <1>2, <2>1
  <1> QED
    BY <1>3, <1>4, <1>5, <1>6, <1>7, <1>8, <1>9, <1>10, <1>11, <1>12 DEF Next, Cycle

(* The file's bytes as a command: that of an identical pending one or a new one.*)
LEMMA StoreFlow ==
    ASSUME DeliveryInv, NEW g, NEW body, pendingIdentical(body) \/ HasCommand,
           NEW r, r = ensureOutboxRecord(g, body), StoreRecord(r)
    PROVE  /\ r.body = body /\ Has(r, CommandFields) /\ (r.op => ops[r.cmd].rev # 0)
           /\ r.cmd \in 1..MaxCommands /\ ops'[r.cmd].status # "free"
           /\ r \in outbox \/ ops[r.cmd].status = "free"
           /\ \A q \in outbox' : q = r \/ q \in outbox
           /\ \A a \in acked' : a \in acked \/ a.superseded
           /\ \A c \in 1..MaxCommands : ops'[c].rev = ops[c].rev
           /\ OpsMoves /\ UNCHANGED failed
  <1>1. /\ r.body = body /\ Has(r, CommandFields) /\ (r.op => ops[r.cmd].rev # 0)
        /\ r.cmd \in 1..MaxCommands
        /\ (r \in outbox /\ ops[r.cmd].status # "free") \/ ops[r.cmd].status = "free"
    <2>1. CASE pendingIdentical(body)
      <3>1. PICK same : same = {q \in outbox : q.body = body}
        OBVIOUS
      <3>2. \E q \in same : TRUE
        BY <2>1, <3>1 DEF pendingIdentical
      <3>3. r = CHOOSE q \in same : TRUE
        BY <3>1, <3>2 DEF ensureOutboxRecord
      <3>4. r \in same
        BY <3>2, <3>3
      <3> QED
        BY <3>1, <3>4 DEF DeliveryInv, Records
    <2>2. CASE ~pendingIdentical(body)
      <3>1. FreeCommand \in DOMAIN ops /\ ops[FreeCommand].status = "free"
        BY <2>2 DEF HasCommand, FreeCommand
      <3>2. FreeCommand \in 1..MaxCommands
        BY <3>1 DEF DeliveryInv, OpsShape
      <3>3. {q \in outbox : q.body = body} = {}
        BY <2>2 DEF pendingIdentical
      <3>4. r = newOutboxRecord(FreeCommand, g, body, g.tracked.known)
        BY <3>3 DEF ensureOutboxRecord
      <3>5. \A c, x : LET n == newOutboxRecord(c, g, body, x)
                      IN  n.cmd = c /\ n.body = body /\ ~n.op /\ Has(n, CommandFields)
        BY DEF newOutboxRecord, Has, CommandFields
      <3> QED
        BY <3>1, <3>2, <3>4, <3>5
    <2> QED
      BY <2>1, <2>2
  <1>2. PICK s : s = IF ops[r.cmd].status = "free" THEN "sent" ELSE ops[r.cmd].status
    OBVIOUS
  <1>3. DOMAIN ops = 1..MaxCommands
    BY DEF DeliveryInv, OpsShape
  <1>4. ops' = [ops EXCEPT ![r.cmd].status = s]
    <2>1. ops' = [ops EXCEPT ![r.cmd].status = IF @ = "free" THEN "sent" ELSE @]
      BY DEF StoreRecord
    <2>2. ops' = [ops EXCEPT ![r.cmd] =
                    [ops[r.cmd] EXCEPT !.status =
                       IF ops[r.cmd].status = "free" THEN "sent" ELSE ops[r.cmd].status]]
      BY <1>1, <1>3, <2>1
    <2> QED
      BY <1>2, <2>2
  <1>5. OpsShape' /\ \A c \in 1..MaxCommands :
           ops'[c].rev = ops[c].rev /\ ops'[c].status = (IF c = r.cmd THEN s ELSE ops[c].status)
    <2>1. OpsShape /\ r.cmd \in 1..MaxCommands /\ StatusBecomes(r.cmd, s)
      BY <1>1, <1>4 DEF DeliveryInv, StatusBecomes
    <2> QED
      BY <2>1, OpsExcept
  <1>6. OpsMoves
    BY <1>1, <1>2, <1>5 DEF OpsMoves, DeliveryInv
  <1>7. /\ \A q \in outbox' : q = r \/ q \in outbox
        /\ \A a \in acked' : a \in acked \/ a.superseded
        /\ UNCHANGED failed
    BY DEF StoreRecord
  <1> QED
    BY <1>1, <1>2, <1>5, <1>6, <1>7

(* A command that is made from the bytes on disk.                           *)
LEMMA StoreStep ==
    ASSUME Shapes, Sends, DeliveryInv, ServerGoesOn, HandleLocalWrite \/ CyclePush
    PROVE  /\ DeliveryInv' /\ UNCHANGED failed
           /\ \A r \in Records' : Derived(r) \/ r.body = f.local
  <1>1. ASSUME NEW g, NEW r, r = ensureOutboxRecord(g, f.local), StoreRecord(r), UNCHANGED cfg,
               pendingIdentical(f.local) \/ HasCommand,
               \/ up' = NoUpload /\ UNCHANGED cyc
               \/ up'.rec = r /\ up'.answer = NoAnswer /\ UNCHANGED cyc
               \/ up' = up /\ cyc'.answer = NoAnswer /\ cyc'.rec \in {r, NoCommand}
        PROVE  /\ DeliveryInv' /\ UNCHANGED failed
               /\ \A q \in Records' : Derived(q) \/ q.body = f.local
    <2>1. /\ r.body = f.local /\ Has(r, CommandFields) /\ (r.op => ops[r.cmd].rev # 0)
          /\ r.cmd \in 1..MaxCommands /\ ops'[r.cmd].status # "free"
          /\ r \in outbox \/ ops[r.cmd].status = "free"
          /\ \A q \in outbox' : q = r \/ q \in outbox
          /\ \A a \in acked' : a \in acked \/ a.superseded
          /\ \A c \in 1..MaxCommands : ops'[c].rev = ops[c].rev
          /\ OpsMoves /\ UNCHANGED failed
      BY <1>1, StoreFlow
    <2>2. \A q \in Records' : q = r \/ q \in Records
      BY <1>1, <2>1 DEF Records, NoUpload
    <2>3. \A q \in Records : Has(q, CommandFields) /\ q.cmd \in 1..MaxCommands
                              /\ (q.op => ops[q.cmd].rev # 0) /\ Derived(q)
      BY DEF DeliveryInv, Derived
    <2>4. \A q \in Records' :
             /\ Has(q, CommandFields) /\ (q.op => ops'[q.cmd].rev # 0)
             /\ \/ Derived(q)
                \/ /\ q = r /\ q.cmd \in 1..MaxCommands
                   /\ ops[q.cmd].status = "free" /\ ops'[q.cmd].status # "free"
      BY <2>1, <2>2, <2>3 DEF Records
    <2>5. AnswerTrue(up)' /\ AnswerTrue(cyc)'
      <3>1. \/ up'.answer = NoAnswer \/ up' = up
        BY <1>1 DEF NoUpload
      <3>2. \/ cyc'.answer = NoAnswer \/ cyc' = cyc
        BY <1>1
      <3>3. \A x \in {up, cyc} : x.answer.kind = "ok" => x.rec.cmd \in 1..MaxCommands
        BY DEF DeliveryInv, AnswerTrue, Records
      <3> QED
        BY <1>1, <2>1, <3>1, <3>2, <3>3 DEF DeliveryInv, AnswerTrue, NoAnswer
    <2>6. DeliveryInv'
      BY <2>1, <2>4, <2>5, DeliveryMoves
    <2> QED
      BY <2>1, <2>2, <2>3, <2>6
  <1>2. CASE HandleLocalWrite
    <2>1. CASE circuit
      BY <1>2, <2>1, DeliveryQuiet DEF HandleLocalWrite, commands, DeliveryInv, Derived
    <2>2. CASE ~circuit
      <3>1. PICK r : /\ r = ensureOutboxRecord(f, f.local)
                     /\ pendingIdentical(f.local) \/ HasCommand
                     /\ StoreRecord(r)
                     /\ up' = NoUpload \/ up' = [NoUpload EXCEPT !.rec = r]
        BY <1>2, <2>2 DEF HandleLocalWrite
      <3>2. UNCHANGED <<cfg, cyc>>
        BY <1>2 DEF HandleLocalWrite
      <3>3. up' = NoUpload \/ (up'.rec = r /\ up'.answer = NoAnswer)
        BY <3>1 DEF NoUpload
      <3> QED
        BY <1>1, <3>1, <3>2, <3>3
    <2> QED
      BY <2>1, <2>2
  <1>3. CASE CyclePush
    <2>1. cyc.answer = NoAnswer /\ cyc.rec = NoCommand /\ UNCHANGED <<cfg, up>>
      BY <1>3 DEF CyclePush, Sends, DeliveryInv, AnswerTrue
    <2>2. CASE UNCHANGED <<commands, ops>> /\ cyc' = [cyc EXCEPT !.pc = "missing"]
      <3>1. cyc'.rec = cyc.rec /\ cyc'.answer = cyc.answer
        BY <2>2 DEF Shapes, Has, CycleFields
      <3> QED
        BY <2>1, <2>2, <3>1, DeliveryQuiet DEF commands, DeliveryInv, Derived
    <2>3. CASE ~(UNCHANGED <<commands, ops>> /\ cyc' = [cyc EXCEPT !.pc = "missing"])
      <3>1. PICK g, r : /\ r = ensureOutboxRecord(g, f.local)
                        /\ pendingIdentical(f.local) \/ HasCommand
                        /\ StoreRecord(r)
                        /\ \E x : \E y \in {r, NoCommand} : cyc' = [cyc EXCEPT !.pc = x, !.rec = y]
        BY <1>3, <2>3 DEF CyclePush
      <3>2. cyc'.answer = NoAnswer /\ cyc'.rec \in {r, NoCommand}
        BY <2>1, <3>1 DEF Shapes, Has, CycleFields
      <3> QED
        BY <1>1, <2>1, <3>1, <3>2
    <2> QED
      BY <2>2, <2>3
  <1> QED
    BY <1>2, <1>3

(* DeliveryInv, whatever the step.                                          *)
LEMMA DeliveryStep ==
    ASSUME Shapes, Sends, ServerInv, DeliveryInv, [Next]_vars
    PROVE  DeliveryInv'
  BY ServerInvStep, QuietStep, SettlesStep, PostStep, FiledStep, StoreStep
     DEF Next, Server, Watcher, Cycle

-----------------------------------------------------------------------------
(* The agent's newest save                                                  *)

(* Keeps is reflexive and, with a tame step before it, transitive.          *)
LEMMA KeepsSame == ASSUME NEW g, IsPath(g) PROVE Keeps(g, g)
  BY DEF Keeps, Tame

LEMMA KeepsOn ==
    ASSUME NEW g, NEW h, NEW k, Keeps(g, h), Keeps(h, k)
    PROVE  Keeps(g, k)
  BY DEF Keeps, Tame, Saves

(* Nothing but the merge base is different.                                 *)
LEMMA KeepsBase ==
    ASSUME NEW g, NEW h, Keeps(g, h), NEW x
    PROVE  Keeps(g, [h EXCEPT !.shadow = x])
  <1>1. PICK k : k = [h EXCEPT !.shadow = x]
    OBVIOUS
  <1>2. IsPath(k) /\ k.local = h.local /\ k.tracked = h.tracked /\ k.artifacts = h.artifacts
    BY <1>1 DEF Keeps, Tame, IsPath, Has
  <1> QED
    BY <1>1, <1>2 DEF Keeps, Tame, Bears, Saves

(* What the server, the failed commands and the artifacts have they keep.   *)
LEMMA SafeStays ==
    ASSUME SafeNow, ServerGoesOn, UNCHANGED lastEdit, failed \subseteq failed',
           f.artifacts \subseteq f'.artifacts
    PROVE  SafeNow'
  <1>1. CASE \E a \in f.artifacts : Holds(a)
    BY <1>1 DEF SafeNow, Holds
  <1>2. CASE \E r \in failed : Holds(r.body)
    BY <1>2 DEF SafeNow, Holds
  <1>3. CASE \E i \in DOMAIN history : Holds(history[i].body)
    BY <1>3 DEF SafeNow, Holds, ServerGoesOn
  <1> QED
    BY <1>1, <1>2, <1>3 DEF SafeNow

(* The newest save, from the parts of the state that a step changes.        *)
LEMMA WorkMoves ==
    ASSUME WorkInv, ServerGoesOn, UNCHANGED <<cfg, lastEdit, raced>>, failed \subseteq failed',
           Tame(f, f'), disk'.tracked \in {disk.tracked, f'.tracked},
           Writes /\ lastEdit # Absent /\ Carried => SafeNow' \/ Carried'
    PROVE  WorkInv'
  <1>1. IsPath(f)' /\ Has(disk'.tracked, EntryFields)
    BY DEF Tame, WorkInv, IsPath
  <1>2. Writes' => ~f'.tracked.readOnly /\ ~disk'.tracked.readOnly
    BY DEF Tame, WorkInv, Writes
  <1>3. Writes' /\ lastEdit' # Absent /\ ~raced' => SafeNow' \/ Carried'
    BY SafeStays DEF Tame, WorkInv, Writes
  <1> QED
    BY <1>1, <1>2, <1>3 DEF WorkInv

(* The step of a pass over the directory that has not seen the file.        *)
PassGoesOn ==
    /\ cyc'.pc = "scanned" => cyc'.scan = f.local \/ (cyc.pc = "scanned" /\ cyc'.scan = cyc.scan)
    /\ cyc'.pc = "missing" /\ cyc'.scan = Absent =>
          \/ cyc.pc = "missing" /\ cyc.scan = Absent /\ f'.tracked.hash = f.tracked.hash
          \/ cyc.pc = "scanned" /\ cyc.scan = Absent

LEMMA CarriedMoves ==
    ASSUME Writes, lastEdit # Absent, Carried, ServerGoesOn, UNCHANGED lastEdit,
           Bears(f') \/ Saves(f') \/ OnServer(lastEdit) \/ SafeNow',
           disk'.tracked \in {disk.tracked, f'.tracked}, PassGoesOn,
           \A r \in Records' : Derived(r) \/ r.body = f.local
    PROVE  SafeNow' \/ Carried'
  <1>1. CASE Saves(f')
    BY <1>1 DEF Saves, SafeNow, Holds
  <1>2. CASE OnServer(lastEdit)
    BY <1>2 DEF OnServer, SafeNow, Holds, ServerGoesOn
  <1>3. CASE Bears(f')
    <2>1. f'.local = lastEdit' /\ NotTaken(f.tracked)'
      BY <1>3 DEF Bears, NotTaken
    <2>2. NotTaken(disk.tracked)'
      BY <2>1 DEF Carried, NotTaken
    <2>3. \A r \in Records' : r.body = lastEdit'
      BY DEF Carried, Derived
    <2>4. cyc'.pc = "scanned" => cyc'.scan = lastEdit'
      BY DEF PassGoesOn, Carried
    <2>5. cyc'.pc = "missing" /\ cyc'.scan = Absent => f'.tracked.hash # lastEdit'
      BY DEF PassGoesOn, Carried
    <2> QED
      BY <2>1, <2>2, <2>3, <2>4, <2>5 DEF Carried
  <1> QED
    BY <1>1, <1>2, <1>3

LEMMA WorkKept ==
    ASSUME WorkInv, ServerGoesOn, UNCHANGED <<cfg, lastEdit, raced>>, failed \subseteq failed',
           Tame(f, f'), disk'.tracked \in {disk.tracked, f'.tracked}, PassGoesOn,
           Writes /\ lastEdit # Absent /\ Carried =>
              Bears(f') \/ Saves(f') \/ OnServer(lastEdit) \/ SafeNow',
           \A r \in Records' : Derived(r) \/ r.body = f.local
    PROVE  WorkInv'
  BY WorkMoves, CarriedMoves

(* A scan in progress saw the bytes on disk.                                *)
LEMMA PassStep ==
    ASSUME Shapes, Sends, DeliveryInv, [Next]_vars
    PROVE  PassGoesOn
  <1> DEFINE rest == {"idle", "flush", "pushing", "push", "pull", "exporting", "exported",
                      "seeding", "reading", "read"}
  <1>1. CASE cyc' = Idle \/ cyc'.pc \in rest
    BY <1>1 DEF PassGoesOn, Idle
  <1>2. CASE /\ cyc' = cyc \/ cyc' = markFullPullUpPath
             /\ MutexFree \/ UNCHANGED f \/ f'.tracked = f.tracked
    <2>1. cyc'.pc = cyc.pc /\ cyc'.scan = cyc.scan
      BY <1>2 DEF markFullPullUpPath, Shapes, Has, CycleFields
    <2> QED
      BY <1>2, <2>1 DEF PassGoesOn, MutexFree
  <1>3. CASE CycleStart \/ CycleSettle \/ CycleSend \/ CyclePost
    <2>1. cyc' = Idle \/ f'.tracked = f.tracked
      BY <1>3 DEF CycleStart, CycleSettle, CycleSend, CyclePost, local
    <2>2. \/ cyc' = Idle
          \/ \E x : cyc' = [Idle EXCEPT !.pc = "flush", !.todo = x]
          \/ \E x : \/ cyc' = [cyc EXCEPT !.todo = x]
                    \/ cyc' = [cyc EXCEPT !.rec = x]
                    \/ cyc' = [cyc EXCEPT !.answer = x]
      BY <1>3 DEF CycleStart, CycleSettle, CycleSend, CyclePost, EndCycle, Shapes, Has, CycleFields
    <2>3. cyc' = Idle \/ cyc'.pc = "flush" \/ (cyc'.pc = cyc.pc /\ cyc'.scan = cyc.scan)
      BY <2>2, IdleShapes DEF Shapes, Has, CycleFields
    <2> QED
      BY <1>1, <2>1, <2>3 DEF PassGoesOn
  <1>4. CASE CycleApply
    <2>1. cyc.pc \in {"flush", "pushing"} /\ (cyc.pc = "pushing" => cyc.scan # Absent)
      BY <1>4 DEF CycleApply, DeliveryInv, AnswerTrue, Sends
    <2>2. PICK x : x = IF cyc.pc = "flush" THEN "flush" ELSE "missing"
      OBVIOUS
    <2>3. PICK z : z = (cyc.conflicted \/ (cyc.answer.kind = "conflict"
                                            /\ f'.artifacts # f.artifacts))
      OBVIOUS
    <2>4. PICK t : t = cyc.todo \ {cyc.rec.cmd}
      OBVIOUS
    <2>5. cyc' = Idle \/ cyc' = [cyc EXCEPT !.pc = x, !.todo = t,
                                     !.rec = NoCommand, !.answer = NoAnswer, !.conflicted = z]
      BY <1>4, <2>2, <2>3, <2>4 DEF CycleApply, EndCycle
    <2>6. CASE cyc' = [cyc EXCEPT !.pc = x, !.todo = t,
                                  !.rec = NoCommand, !.answer = NoAnswer, !.conflicted = z]
      <3>1. Has(cyc, CycleFields)
        BY DEF Shapes
      <3>2. cyc'.pc = x /\ cyc'.scan = cyc.scan
        BY ONLY <2>6, <3>1 DEF Has, CycleFields
      <3> QED
        BY <2>1, <2>2, <3>2 DEF PassGoesOn
    <2> QED
      BY <1>1, <2>5, <2>6
  <1>5. CASE CycleFlushed
    <2>1. PICK x : x = IF force THEN "exporting" ELSE "push"
      OBVIOUS
    <2>2. cyc' = [cyc EXCEPT !.pc = x, !.didPoll = force]
      BY <1>5, <2>1 DEF CycleFlushed
    <2>3. cyc'.pc = x
      BY <2>2 DEF Shapes, Has, CycleFields
    <2> QED
      BY <1>1, <2>1, <2>3
  <1>6. CASE CycleScan
    <2>1. \/ cyc' = [cyc EXCEPT !.pc = "scanned", !.scan = f.local, !.conflicted = FALSE]
          \/ cyc' = [cyc EXCEPT !.pc = "pull", !.conflicted = FALSE]
      BY <1>6 DEF CycleScan
    <2>2. cyc'.pc = "pull" \/ (cyc'.pc = "scanned" /\ cyc'.scan = f.local)
      BY <2>1 DEF Shapes, Has, CycleFields
    <2> QED
      BY <2>2 DEF PassGoesOn
  <1>7. CASE CycleScanned
    <2>1. cyc.pc = "scanned" /\ cyc' = [cyc EXCEPT !.pc = "missing"]
      BY <1>7 DEF CycleScanned
    <2>2. cyc'.pc = "missing" /\ cyc'.scan = cyc.scan
      BY <2>1 DEF Shapes, Has, CycleFields
    <2> QED
      BY <2>1, <2>2 DEF PassGoesOn
  <1>8. CASE CyclePush
    <2>1. cyc.pc = "scanned" /\ cyc.scan # Absent
      BY <1>8 DEF CyclePush, scanSettles
    <2>2. cyc'.pc # "scanned" /\ cyc'.scan = cyc.scan
      <3>1. CASE cyc' = [cyc EXCEPT !.pc = "missing"]
        BY <3>1 DEF Shapes, Has, CycleFields
      <3>2. CASE \E x \in {"pushing", "missing"} : \E y : cyc' = [cyc EXCEPT !.pc = x, !.rec = y]
        BY <3>2 DEF Shapes, Has, CycleFields
      <3> QED
        BY <1>8, <3>1, <3>2 DEF CyclePush
    <2> QED
      BY <2>1, <2>2 DEF PassGoesOn
  <1>9. CASE CyclePushGone \/ CycleMissing \/ CycleNoPull \/ CycleQuiet \/ CycleCursorExpired
             \/ CycleFastPath \/ CycleFullPull \/ CycleIncremental \/ CycleIncrementalRead
    <2>1. \/ cyc' = Idle
          \/ \E x \in {"exporting", "pull"} : cyc' = [cyc EXCEPT !.pc = x]
          \/ \E y, z : cyc' = [cyc EXCEPT !.pc = "reading", !.seen = y, !.last = z]
      BY <1>9 DEF CyclePushGone, CycleMissing, CycleNoPull, CycleQuiet, CycleCursorExpired,
         CycleFastPath, CycleFullPull, CycleIncremental, CycleIncrementalRead, EndCycle,
         AfterIncremental
    <2>2. cyc' = Idle \/ cyc'.pc \in rest
      BY <2>1 DEF Shapes, Has, CycleFields
    <2> QED
      BY <1>1, <2>2
  <1>10. CASE CycleRead \/ CycleApplyRead \/ CycleExport \/ CycleApplyExport \/ CycleSeedCursor
    <2>1. \/ cyc' = Idle
          \/ \E x \in {"read", "exporting", "exported", "seeding", "push", "pull"} :
                \/ cyc' = [cyc EXCEPT !.pc = x]
                \/ cyc' = [cyc EXCEPT !.pc = x, !.file = remote]
                \/ cyc' = [cyc EXCEPT !.pc = x, !.file = remote, !.upPath = FALSE]
                \/ cyc' = [cyc EXCEPT !.pc = x, !.didPoll = TRUE]
      BY <1>10 DEF CycleRead, CycleApplyRead, CycleExport, CycleApplyExport, CycleSeedCursor,
         EndCycle, AfterIncremental, AfterFullPull
    <2>2. cyc' = Idle \/ cyc'.pc \in rest
      BY <2>1 DEF Shapes, Has, CycleFields
    <2> QED
      BY <1>1, <2>2
  <1>11. CASE Agent
    <2>1. cyc' = cyc /\ f'.tracked = f.tracked
      <3>1. cyc' = cyc /\ \E x : f' = [f EXCEPT !.local = x]
        BY <1>11 DEF Agent, EditLocal, RemoveLocal
      <3> QED
        BY <3>1
    <2> QED
      BY <1>2, <2>1
  <1>12. CASE Server \/ Watcher \/ Socket \/ handleWebSocketDisconnect
              \/ (\E r \in outbox : SettleReceipt(r)) \/ savePrivateState \/ CircuitCloses
              \/ Crash \/ UNCHANGED vars
    <2>1. \/ cyc' = Idle
          \/ (cyc' = cyc \/ cyc' = markFullPullUpPath) /\ (MutexFree \/ UNCHANGED f)
      BY <1>12 DEF Server, RemoteWrite, RemoteDelete, Reconcile,
         OperationSettles, Watcher, HandleLocalGone, HandleLocalClean, HandleLocalWrite,
         WatcherPost, WatcherApply, Socket, connectWebSocket, ApplyInlineEvent, ReadEventFile,
         ApplyEventFile, ApplyDeletedEvent, ApplyReconcileEvent, handleWebSocketDisconnect,
         SettleReceipt, savePrivateState, CircuitCloses, Crash, vars, local, EventWaits
    <2> QED
      BY <1>1, <1>2, <2>1
  <1> QED
    BY <1>3, <1>4, <1>5, <1>6, <1>7, <1>8, <1>9, <1>10, <1>11, <1>12 DEF Next, Cycle

(* Every command comes from one held before, or from the bytes on disk.     *)
LEMMA RecordsStep ==
    ASSUME Shapes, Sends, ServerInv, DeliveryInv, [Next]_vars
    PROVE  /\ failed \subseteq failed'
           /\ \A r \in Records' : Derived(r) \/ r.body = f.local
  <1>1. \A r \in Records : Derived(r)
    BY DEF Derived
  <1>2. \A r \in Records' : Derived(r) \/ r.body = f.local
    BY <1>1, ServerInvStep, QuietStep, SettlesStep, PostStep, FiledStep, StoreStep
       DEF Next, Server, Watcher, Cycle
  <1>3. CASE HandleLocalWrite \/ CyclePush
    BY <1>3, ServerInvStep, StoreStep
  <1>4. CASE WatcherApply \/ CycleApply \/ CycleSettle \/ \E r \in outbox : SettleReceipt(r)
    BY <1>4, ServerInvStep, FiledStep
  <1>5. CASE Agent \/ Server \/ HandleLocalGone \/ HandleLocalClean \/ WatcherPost \/ Socket
             \/ handleWebSocketDisconnect \/ savePrivateState \/ CircuitCloses \/ Crash
             \/ UNCHANGED vars
    <2>1. UNCHANGED failed
      BY <1>5 DEF Agent, EditLocal, RemoveLocal, Server, RemoteWrite, RemoteDelete, Reconcile,
         OperationSettles, HandleLocalGone, HandleLocalClean, WatcherPost, Socket,
         connectWebSocket, ApplyInlineEvent, ReadEventFile, ApplyEventFile, ApplyDeletedEvent,
         ApplyReconcileEvent, handleWebSocketDisconnect, savePrivateState, CircuitCloses, Crash,
         vars, commands
    <2> QED
      BY <1>2, <2>1
  <1>6. CASE CycleStart \/ CycleSend \/ CyclePost \/ CycleFlushed \/ CycleScan \/ CycleScanned
             \/ CyclePushGone \/ CycleMissing \/ CycleNoPull \/ CycleQuiet \/ CycleCursorExpired
             \/ CycleFastPath \/ CycleFullPull \/ CycleIncremental \/ CycleIncrementalRead
             \/ CycleRead \/ CycleApplyRead \/ CycleExport \/ CycleApplyExport \/ CycleSeedCursor
    <2>1. UNCHANGED failed
      BY <1>6 DEF CycleStart, CycleSend, CyclePost, CycleFlushed, CycleScan, CycleScanned,
         CyclePushGone, CycleMissing, CycleNoPull, CycleQuiet, CycleCursorExpired, CycleFastPath,
         CycleFullPull, CycleIncremental, CycleIncrementalRead, CycleRead, CycleApplyRead,
         CycleExport, CycleApplyExport, CycleSeedCursor, commands
    <2> QED
      BY <1>2, <2>1
  <1> QED
    BY <1>2, <1>3, <1>4, <1>5, <1>6 DEF Next, Watcher, Cycle

(* What is saved is the entry before or after the step.                     *)
LEMMA SavedStep ==
    ASSUME [Next]_vars
    PROVE  disk'.tracked \in {disk.tracked, f'.tracked}
  <1>1. CASE EndCycle \/ savePrivateState
    <2>1. disk' = disk \/ disk' = [tracked |-> f'.tracked, cursor |-> cursor', force |-> force']
      BY <1>1 DEF EndCycle, savePrivateState, savedState, local, memory
    <2> QED
      BY <2>1
  <1>2. CASE UNCHANGED disk
    BY <1>2
  <1>3. CASE Agent \/ Server \/ Watcher \/ Socket \/ (\E r \in outbox : SettleReceipt(r))
             \/ handleWebSocketDisconnect \/ CircuitCloses \/ Crash \/ UNCHANGED vars
    BY <1>2, <1>3 DEF Agent, EditLocal, RemoveLocal, Server, RemoteWrite, RemoteDelete, Reconcile,
       OperationSettles, Watcher, HandleLocalGone, HandleLocalClean, HandleLocalWrite,
       WatcherPost, WatcherApply, Socket, connectWebSocket, ApplyInlineEvent, ReadEventFile,
       ApplyEventFile, ApplyDeletedEvent, ApplyReconcileEvent, SettleReceipt,
       handleWebSocketDisconnect, CircuitCloses, Crash, vars
  <1>4. CASE Cycle
    BY <1>1, <1>2, <1>4 DEF Cycle, CycleStart, CycleSettle, CycleSend, CyclePost, CycleApply,
       CycleFlushed, CycleScan, CycleScanned, CyclePushGone, CyclePush, CycleMissing, CycleNoPull,
       CycleQuiet, CycleCursorExpired, CycleFastPath, CycleFullPull, CycleIncremental,
       CycleIncrementalRead, CycleRead, CycleApplyRead, CycleExport, CycleApplyExport,
       CycleSeedCursor, AfterIncremental
  <1> QED
    BY <1>1, <1>3, <1>4 DEF Next

(* Only the agent makes a newest save.                                      *)
LEMMA GhostStep ==
    ASSUME [Next]_vars, ~Agent
    PROVE  UNCHANGED <<cfg, lastEdit, raced>>
  <1>1. CASE Server \/ Watcher \/ Socket \/ (\E r \in outbox : SettleReceipt(r))
             \/ handleWebSocketDisconnect \/ CircuitCloses \/ Crash \/ savePrivateState
             \/ UNCHANGED vars
    BY <1>1 DEF Server, RemoteWrite, RemoteDelete, Reconcile,
       OperationSettles, Watcher, HandleLocalGone, HandleLocalClean, HandleLocalWrite,
       WatcherPost, WatcherApply, Socket, connectWebSocket, ApplyInlineEvent, ReadEventFile,
       ApplyEventFile, ApplyDeletedEvent, ApplyReconcileEvent, SettleReceipt,
       handleWebSocketDisconnect, CircuitCloses, Crash, savePrivateState, vars, ghost
  <1>2. CASE Cycle
    BY <1>2 DEF Cycle, CycleStart, CycleSettle, CycleSend, CyclePost, CycleApply,
       CycleFlushed, CycleScan, CycleScanned, CyclePushGone, CyclePush, CycleMissing, CycleNoPull,
       CycleQuiet, CycleCursorExpired, CycleFastPath, CycleFullPull, CycleIncremental,
       CycleIncrementalRead, CycleRead, CycleApplyRead, CycleExport, CycleApplyExport,
       CycleSeedCursor, ghost
  <1> QED
    BY <1>1, <1>2 DEF Next

(* Every step but the agent's: it suffices to look at the file.             *)
LEMMA WorkFile ==
    ASSUME Shapes, Sends, ServerInv, DeliveryInv, WorkInv, [Next]_vars, ~Agent, Tame(f, f'),
           Writes /\ lastEdit # Absent /\ Carried =>
              Bears(f') \/ Saves(f') \/ OnServer(lastEdit) \/ SafeNow'
    PROVE  WorkInv'
  BY ServerInvStep, PassStep, RecordsStep, SavedStep, GhostStep, WorkKept

(* A step is settled by what it makes of the path.                          *)
LEMMA WorkFileKept ==
    ASSUME Shapes, Sends, ServerInv, DeliveryInv, WorkInv, [Next]_vars, ~Agent, Tame(f, f'),
           Writes /\ lastEdit # Absent /\ Carried => Keeps(f, f')
    PROVE  WorkInv'
  <1>1. Carried => Bears(f)
    BY DEF Carried, Bears
  <1> QED
    BY <1>1, WorkFile DEF Keeps

(* Tame is transitive.                                                      *)
LEMMA TameOn ==
    ASSUME NEW g, NEW h, NEW k, Tame(g, h), Tame(h, k)
    PROVE  Tame(g, k)
  BY DEF Tame

(* A path with another entry.                                               *)
LEMMA TameEntry ==
    ASSUME NEW g, IsPath(g), NEW t, Has(t, EntryFields),
           Writes /\ ~g.tracked.readOnly => ~t.readOnly,
           NEW h, h = [g EXCEPT !.tracked = t]
    PROVE  /\ Tame(g, h) /\ h.tracked = t /\ h.local = g.local /\ h.artifacts = g.artifacts
  <1>1. IsPath(h) /\ h.tracked = t /\ h.local = g.local /\ h.artifacts = g.artifacts
    BY DEF IsPath, Has
  <1> QED
    BY <1>1 DEF Tame

(* A step that leaves the path alone.                                       *)
LEMMA WorkUnchanged ==
    ASSUME Shapes, Sends, ServerInv, DeliveryInv, WorkInv, [Next]_vars, ~Agent, UNCHANGED f
    PROVE  WorkInv'
  <1>1. IsPath(f)
    BY DEF WorkInv
  <1>2. Keeps(f, f')
    BY <1>1, KeepsSame
  <1> QED
    BY <1>2, WorkFileKept DEF Keeps

(* A save begins to be carried, unless it falls where it can be lost.       *)
LEMMA WorkAgent ==
    ASSUME Shapes, Sends, ServerInv, DeliveryInv, WorkInv, [Next]_vars, Agent
    PROVE  WorkInv'
  <1>1. UNCHANGED <<cfg, outbox, up, cyc, disk>>
    BY DEF Agent, EditLocal, RemoveLocal, commands
  <1>2. PICK x : f' = [f EXCEPT !.local = x]
    BY DEF Agent, EditLocal, RemoveLocal
  <1>3. IsPath(f)' /\ f'.tracked = f.tracked /\ f'.local = x
    BY <1>2 DEF WorkInv, IsPath, Has
  <1>4. Has(disk.tracked, EntryFields)' /\ (Writes' => ~f'.tracked.readOnly /\ ~disk'.tracked.readOnly)
    BY <1>1, <1>3 DEF WorkInv, Writes
  <1>5. CASE lastEdit' = Absent
    BY <1>3, <1>4, <1>5 DEF WorkInv
  <1>6. CASE \E body : EditLocal(body)
    <2>1. PICK body : EditLocal(body)
      BY <1>6
    <2>2. /\ f' = [f EXCEPT !.local = body] /\ lastEdit' = body
          /\ raced' <=> (InFlight \/ (\E r \in outbox : r.body # body) \/ Taken(body))
      BY <2>1 DEF EditLocal
    <2>3. f'.local = body
      BY <2>2 DEF WorkInv, IsPath, Has
    <2>4. ASSUME ~raced' PROVE Carried'
      <3>1. ~InFlight /\ ~Taken(body) /\ \A r \in outbox : r.body = body
        BY <2>2, <2>4
      <3>2. NotTaken(f.tracked)' /\ NotTaken(disk.tracked)'
        BY <1>1, <1>3, <2>2, <3>1 DEF Taken, NotTaken
      <3>3. \A r \in Records' : r.body = lastEdit'
        BY <1>1, <2>2, <3>1 DEF InFlight, Records, NoUpload
      <3>4. /\ cyc'.pc = "scanned" => cyc'.scan = lastEdit'
            /\ cyc'.pc = "missing" /\ cyc'.scan = Absent => f'.tracked.hash # lastEdit'
        BY <1>1, <1>3, <2>2, <3>1 DEF InFlight, Taken
      <3> QED
        BY <2>2, <2>3, <3>2, <3>3, <3>4 DEF Carried
    <2> QED
      BY <1>3, <1>4, <2>4 DEF WorkInv
  <1> QED
    BY <1>5, <1>6 DEF Agent, RemoveLocal

(* The entry that was saved comes back.                                     *)
LEMMA WorkCrash ==
    ASSUME Shapes, Sends, ServerInv, DeliveryInv, WorkInv, [Next]_vars, ~Agent, Crash
    PROVE  WorkInv'
  <1>1. f' = [f EXCEPT !.tracked = disk.tracked]
    BY DEF Crash
  <1>2. IsPath(f) /\ Has(disk.tracked, EntryFields) /\ (Writes => ~disk.tracked.readOnly)
    BY DEF WorkInv
  <1>3. Tame(f, f') /\ f'.tracked = disk.tracked /\ f'.local = f.local
    BY <1>1, <1>2, TameEntry
  <1>4. Carried => Bears(f')
    BY <1>3 DEF Carried, Bears
  <1> QED
    BY <1>3, <1>4, WorkFile

(* The events and the pulls.                                                *)
LEMMA KeepsUnlessUpPath ==
    ASSUME NEW g, IsPath(g), NEW file, FromServer(file)
    PROVE  Tame(g, applyUnlessUpPath(g, file))
           /\ (Writes => Keeps(g, applyUnlessUpPath(g, file)))
  BY KeepsSame, KeepsRemote DEF applyUnlessUpPath, Keeps

(* Events.                                                                  *)
LEMMA WorkSocket ==
    ASSUME Shapes, Sends, ServerInv, DeliveryInv, WorkInv, [Next]_vars, ~Agent,
           IsSeq(log), ws.pos \in Nat,
           ApplyInlineEvent \/ ApplyEventFile \/ ApplyDeletedEvent
    PROVE  WorkInv'
  <1>1. IsPath(f) /\ FromServer(ws.file)
    BY DEF WorkInv, ServerInv
  <1>2. CASE ApplyInlineEvent
    <2>1. ws.pos + 1 \in DOMAIN log
      BY <1>2, SeqLength DEF ApplyInlineEvent, EventWaits
    <2>2. OnServer(NextEvent.body)
      BY <1>2, <2>1 DEF ApplyInlineEvent, EventWaits, NextEvent, ServerInv
    <2>3. PICK file : file = [rev |-> NextEvent.rev, body |-> NextEvent.body]
      OBVIOUS
    <2>4. FromServer(file)
      BY <2>2, <2>3 DEF FromServer
    <2>5. f' = applyUnlessUpPath(f, file)
      BY <1>2, <2>3 DEF ApplyInlineEvent, SetFile
    <2>6. Tame(f, f') /\ (Writes => Keeps(f, f'))
      BY <1>1, <2>4, <2>5, KeepsUnlessUpPath
    <2> QED
      BY <2>6, WorkFileKept
  <1>3. CASE ApplyEventFile
    <2>1. f' = f \/ f' = applyRemoteDelete(f) \/ f' = applyUnlessUpPath(f, ws.file)
      BY <1>3 DEF ApplyEventFile, SetFile
    <2>2. Tame(f, f') /\ (Writes => Keeps(f, f'))
      BY <1>1, <2>1, KeepsSame, KeepsDelete, KeepsUnlessUpPath DEF Keeps
    <2> QED
      BY <2>2, WorkFileKept
  <1>4. CASE ApplyDeletedEvent
    <2>1. f' = applyRemoteDelete(f)
      BY <1>4 DEF ApplyDeletedEvent, SetFile
    <2>2. Keeps(f, f')
      BY <1>1, <2>1, KeepsDelete
    <2> QED
      BY <2>2, WorkFileKept DEF Keeps
  <1> QED
    BY <1>2, <1>3, <1>4

(* The answer to an upload.                                                 *)
LEMMA WorkAnswered ==
    ASSUME Shapes, Sends, ServerInv, DeliveryInv, WorkInv, [Next]_vars, ~Agent,
           NEW r \in Records, NEW answer, applyOutboxChunkResponse(r, answer),
           answer.kind = "forbidden" => ~cfg.granted,
           answer.kind = "ok" => ops[r.cmd].rev # 0
    PROVE  WorkInv'
  <1>1. IsPath(f) /\ FromServer(remote)
    BY DEF WorkInv, ServerInv
  <1>2. Carried => r.body = lastEdit /\ Holds(r.body) /\ Bears(f)
    BY DEF Carried, Holds, Bears
  <1>3. CASE UNCHANGED f
    BY <1>3, WorkUnchanged
  <1>4. CASE \E rev : OnServer(r.body) /\ f' = reconcileBulkWrite(f, f.tracked, r.body, rev)
    <2>1. Keeps(f, f')
      BY <1>1, <1>4, KeepsReconcile
    <2> QED
      BY <2>1, WorkFileKept DEF Keeps
  <1>5. CASE /\ Put(remote.body \union r.body, "merge")
             /\ f' = materializeMerge(f, remote', cfg.canWrite)
    <2>1. Tame(f, f')
      BY <1>1, <1>5, TameMerge
    <2>2. PICK body : body = remote.body \union r.body
      OBVIOUS
    <2>3. \E i \in DOMAIN history' : history'[i].body = body
      BY <1>5, <2>2, ServerPut DEF Shapes
    <2>4. UNCHANGED lastEdit
      BY GhostStep
    <2>5. Carried => SafeNow'
      BY <1>2, <2>2, <2>3, <2>4 DEF SafeNow, Holds
    <2> QED
      BY <2>1, <2>5, WorkFile
  <1>6. CASE \/ f' = materializeConflict(f, r.body, remote, cfg.canWrite)
             \/ f' = materializeSchemaInvalid(f, r.body, remote, cfg.canWrite)
    <2>1. Tame(f, f') /\ (Holds(r.body) => Saves(f'))
      BY <1>1, <1>6, TameConflict, TameSchemaInvalid
    <2> QED
      BY <1>2, <2>1, WorkFile
  <1>7. CASE /\ answer.kind = "forbidden"
             /\ f' = revertReadonlyFile(f, remote) \/ f' = writeDenied(f, r.body)
    <2>1. ~Writes
      BY <1>7 DEF Writes
    <2>2. Tame(f, f')
      BY <1>1, <1>7, <2>1, TameReverted, TameDenied DEF Tame
    <2> QED
      BY <2>1, <2>2, WorkFile
  <1>8. CASE answer.kind = "ok" /\ f' = reconcileBulkWrite(f, f.tracked, r.body, answer.rev)
    <2>1. OnServer(r.body)
      BY <1>8 DEF DeliveryInv, OnServer
    <2> QED
      BY <1>4, <1>8, <2>1
  <1>9. answer.kind = "conflict" => \/ UNCHANGED f \/ ~handleConflict(r)
           \/ (\E rev : OnServer(r.body) /\ f' = reconcileBulkWrite(f, f.tracked, r.body, rev))
           \/ /\ Put(remote.body \union r.body, "merge")
              /\ f' = materializeMerge(f, remote', cfg.canWrite)
           \/ f' = materializeConflict(f, r.body, remote, cfg.canWrite)
    <2>1. writeAlreadyLanded(remote, r.body) => OnServer(r.body)
      BY <1>1 DEF writeAlreadyLanded, FromServer
    <2> QED
      BY <2>1 DEF handleConflict, SetFile
  <1>10. /\ answer.kind = "error" => UNCHANGED f
         /\ answer.kind = "schema" =>
               f' = materializeSchemaInvalid(f, r.body, remote, cfg.canWrite)
         /\ answer.kind = "forbidden" =>
               f' = revertReadonlyFile(f, remote) \/ f' = writeDenied(f, r.body)
         /\ answer.kind = "ok" => f' = reconcileBulkWrite(f, f.tracked, r.body, answer.rev)
         /\ answer.kind = "conflict" => handleConflict(r)
         /\ answer.kind \in {"error", "schema", "forbidden", "ok", "conflict"}
    BY DEF applyOutboxChunkResponse, SetFile, local
  <1> QED
    BY <1>3, <1>4, <1>5, <1>6, <1>7, <1>8, <1>9, <1>10

(* A removed file: there is no newest save to lose.                         *)
LEMMA WorkGone ==
    ASSUME Shapes, Sends, ServerInv, DeliveryInv, WorkInv, [Next]_vars, ~Agent, HandleLocalGone
    PROVE  WorkInv'
  <1>1. IsPath(f) /\ FromServer(remote)
    BY DEF WorkInv, ServerInv
  <1>2. lastEdit # Absent => ~Carried
    BY DEF HandleLocalGone, Carried
  <1>3. CASE ~Writes /\ \E g : g.artifacts = f.artifacts /\ IsPath(g)
                            /\ f' = revertReadonlyFile(g, remote)
    BY <1>2, <1>3, TameReverted, WorkFile DEF Tame
  <1>4. PICK t : t = [f.tracked EXCEPT !.deletePending = TRUE, !.dirty = FALSE]
    OBVIOUS
  <1>5. PICK g : g = [f EXCEPT !.tracked = t]
    OBVIOUS
  <1>6. DeleteMarked = g /\ Tame(f, g) /\ IsPath(g)
    <2>1. Has(t, EntryFields) /\ t.readOnly = f.tracked.readOnly
      BY <1>1, <1>4 DEF IsPath, Has, EntryFields
    <2>2. DeleteMarked = g
      BY <1>1, <1>4, <1>5 DEF DeleteMarked, IsPath, Has
    <2>3. Tame(f, g)
      BY <1>1, <1>5, <2>1, TameEntry
    <2> QED
      BY <2>2, <2>3 DEF Tame
  <1>7. CASE f' = g
    BY <1>2, <1>6, <1>7, WorkFile
  <1>8. CASE f' = applyUnlessUpPath(g, remote)
    <2>1. Tame(g, f')
      BY <1>1, <1>6, <1>8, KeepsUnlessUpPath
    <2>2. Tame(f, f')
      BY <1>6, <2>1, TameOn
    <2> QED
      BY <1>2, <2>2, WorkFile
  <1>9. CASE f' = [f EXCEPT !.tracked = Untracked]
    <2>1. Tame(f, f')
      BY <1>1, <1>9, TameEntry, EntryShapes DEF Untracked
    <2> QED
      BY <1>2, <2>1, WorkFile
  <1>10. CASE \E rev : DeleteFile(rev, "forbidden") /\ f' = pushSingleDelete("forbidden")
    <2>1. ~Writes
      BY <1>10 DEF DeleteFile, DeleteAnswer, Writes
    <2>2. PICK u : u = [f.tracked EXCEPT !.dirty = FALSE, !.deletePending = FALSE]
      OBVIOUS
    <2>3. PICK h : h = [f EXCEPT !.tracked = u]
      OBVIOUS
    <2>4. Has(u, EntryFields) /\ u.readOnly = f.tracked.readOnly
      BY <1>1, <2>2 DEF IsPath, Has, EntryFields
    <2>5. Tame(f, h) /\ h.artifacts = f.artifacts
      BY <1>1, <2>3, <2>4, TameEntry
    <2>6. [f EXCEPT !.tracked.dirty = FALSE, !.tracked.deletePending = FALSE] = h
      BY <1>1, <2>2, <2>3 DEF IsPath, Has
    <2>7. f' = revertReadonlyFile(h, remote)
      BY <1>10, <2>6 DEF pushSingleDelete
    <2> QED
      BY <1>3, <2>1, <2>5, <2>7 DEF Tame
  <1>11. \/ UNCHANGED f
         \/ f.tracked.known /\ (f.tracked.readOnly \/ ~cfg.canWrite)
               /\ f' = revertReadonlyFile(f, remote)
         \/ \E answer : DeleteFile(f.tracked.rev, answer) /\ f' = pushSingleDelete(answer)
    BY DEF HandleLocalGone, SetFileHandled
  <1>12. CASE \E answer : DeleteFile(f.tracked.rev, answer) /\ f' = pushSingleDelete(answer)
    <2>1. PICK answer : DeleteFile(f.tracked.rev, answer) /\ f' = pushSingleDelete(answer)
      BY <1>12
    <2>2. CASE answer \in {"ok", "notFound"}
      BY <1>9, <2>1, <2>2 DEF pushSingleDelete
    <2>3. CASE answer = "forbidden"
      BY <1>10, <2>1, <2>3
    <2>4. CASE answer = "conflict"
      BY <1>6, <1>8, <2>1, <2>4 DEF pushSingleDelete
    <2>5. CASE answer \notin {"ok", "notFound", "forbidden", "conflict"}
      BY <1>6, <1>7, <2>1, <2>5 DEF pushSingleDelete
    <2> QED
      BY <2>2, <2>3, <2>4, <2>5
  <1>13. f.tracked.known /\ (f.tracked.readOnly \/ ~cfg.canWrite) => ~Writes
    BY DEF WorkInv, Writes
  <1> QED
    BY <1>1, <1>3, <1>11, <1>12, <1>13, WorkUnchanged

(* A path whose bytes need no upload.                                       *)
LEMMA KeepsPrepared ==
    ASSUME ServerInv, NEW g, IsPath(g), Writes => ~g.tracked.readOnly,
           NEW body, body # Absent, ~needsUpload(g, body)
    PROVE  /\ Tame(g, preparedWithoutUpload(g, body))
           /\ Writes /\ body = lastEdit => Keeps(g, preparedWithoutUpload(g, body))
  <1> DEFINE h == preparedWithoutUpload(g, body)
  <1>1. CASE ~cfg.canWrite
    <2>1. PICK t : t = [g.tracked EXCEPT !.known = TRUE, !.dirty = FALSE, !.readOnly = TRUE]
      OBVIOUS
    <2>2. Has(t, EntryFields)
      BY <2>1 DEF IsPath, Has, EntryFields
    <2>3. [g EXCEPT !.tracked.known = TRUE, !.tracked.dirty = FALSE, !.tracked.readOnly = TRUE]
            = [g EXCEPT !.tracked = t]
      BY <2>1 DEF IsPath, Has
    <2>4. IsPath([g EXCEPT !.tracked = t]) /\ [g EXCEPT !.tracked = t].artifacts = g.artifacts
      BY <2>2 DEF IsPath, Has
    <2>5. h = revertReadonlyFile(g, remote) \/ h = [g EXCEPT !.tracked = t]
      BY <1>1, <2>3 DEF preparedWithoutUpload
    <2>6. IsPath(h) /\ h.artifacts = g.artifacts
      BY <2>4, <2>5, TameReverted
    <2>7. ~Writes
      BY <1>1 DEF Writes
    <2> QED
      BY <2>6, <2>7 DEF Tame
  <1>2. CASE cfg.canWrite /\ ~g.tracked.dirty
    <2>1. g.tracked.hash = body /\ g.tracked.known
      BY <1>2 DEF needsUpload, localSnapshotMatchesTracked
    <2>2. PICK t : t = [g.tracked EXCEPT !.readOnly = FALSE]
      OBVIOUS
    <2>3. Has(t, EntryFields) /\ ~t.readOnly /\ t.hash = g.tracked.hash /\ ~t.dirty
      BY <1>2, <2>2 DEF IsPath, Has, EntryFields
    <2>4. PICK k : k = [g EXCEPT !.tracked = t]
      OBVIOUS
    <2>5. Keeps(g, k)
      BY <1>2, <2>1, <2>3, <2>4, KeepsEntry
    <2>6. [g EXCEPT !.tracked.readOnly = FALSE] = k
      BY <2>2, <2>4 DEF IsPath, Has
    <2>7. h = k \/ \E x : h = [k EXCEPT !.shadow = x]
      BY <1>2, <2>6 DEF preparedWithoutUpload, recordShadowContent
    <2>8. Keeps(g, h)
      BY <2>5, <2>7, KeepsBase
    <2> QED
      BY <2>8 DEF Keeps
  <1>3. CASE cfg.canWrite /\ g.tracked.dirty /\ pendingIdentical(body)
    <2>1. h = g
      BY <1>3 DEF preparedWithoutUpload
    <2> QED
      BY <2>1, KeepsSame DEF Keeps
  <1>4. CASE cfg.canWrite /\ g.tracked.dirty /\ ~pendingIdentical(body)
    <2>1. remote.body = body
      BY <1>4 DEF needsUpload
    <2>2. OnServer(body)
      BY <2>1 DEF ServerInv, FromServer, NoFile
    <2>3. PICK t : t = [g.tracked EXCEPT !.rev = remote.rev, !.hash = body, !.dirty = FALSE,
                                         !.readOnly = FALSE]
      OBVIOUS
    <2>4. Has(t, EntryFields) /\ ~t.readOnly /\ t.hash = body
      BY <2>3 DEF IsPath, Has, EntryFields
    <2>5. h = [g EXCEPT !.tracked = t]
      BY <1>4, <2>3 DEF preparedWithoutUpload, IsPath, Has
    <2>6. Keeps(g, h)
      BY <2>2, <2>4, <2>5, KeepsEntry
    <2> QED
      BY <2>6 DEF Keeps
  <1> QED
    BY <1>1, <1>2, <1>3, <1>4

(* The watcher.                                                             *)
LEMMA WorkClean ==
    ASSUME Shapes, Sends, ServerInv, DeliveryInv, WorkInv, [Next]_vars, ~Agent, HandleLocalClean
    PROVE  WorkInv'
  <1>1. IsPath(f) /\ (Writes => ~f.tracked.readOnly) /\ f.local # Absent
    BY DEF WorkInv, HandleLocalClean
  <1>2. CASE f.tracked.readOnly /\ f' = revertReadonlyFile(f, remote)
    <2>1. Tame(f, f') /\ ~Writes
      BY <1>1, <1>2, TameReverted DEF Tame
    <2> QED
      BY <2>1, WorkFile
  <1>3. CASE ~needsUpload(f, f.local) /\ f' = preparedWithoutUpload(f, f.local)
    <2>1. Tame(f, f') /\ (Writes /\ f.local = lastEdit => Keeps(f, f'))
      BY <1>1, <1>3, KeepsPrepared
    <2>2. Carried => f.local = lastEdit
      BY DEF Carried
    <2> QED
      BY <2>1, <2>2, WorkFileKept
  <1> QED
    BY <1>2, <1>3 DEF HandleLocalClean, SetFileHandled

LEMMA WorkWatcher ==
    ASSUME Shapes, Sends, ServerInv, DeliveryInv, WorkInv, [Next]_vars, ~Agent, Watcher
    PROVE  WorkInv'
  <1>1. CASE HandleLocalWrite
    <2>1. f' = markDirty(f, f.local) /\ IsPath(f)
      BY <1>1 DEF HandleLocalWrite, SetFileHandled, WorkInv
    <2>2. Keeps(f, f')
      BY <2>1, KeepsMarked
    <2> QED
      BY <2>2, WorkFileKept DEF Keeps
  <1>2. CASE WatcherPost
    BY <1>2, WorkUnchanged DEF WatcherPost, local
  <1>3. CASE WatcherApply
    <2>1. up.rec \in Records /\ (up.answer.kind = "ok" => ops[up.rec.cmd].rev # 0)
          /\ (up.answer.kind = "forbidden" => ~cfg.granted)
      BY <1>3 DEF WatcherApply, DeliveryInv, AnswerTrue, Records
    <2> QED
      BY <1>3, <2>1, WorkAnswered DEF WatcherApply
  <1> QED
    BY <1>1, <1>2, <1>3, WorkGone, WorkClean DEF Watcher

(* What a pass over the directory makes of the entry.                       *)
LEMMA ScannedIs ==
    ASSUME IsPath(f)
    PROVE  /\ Has(scanned, EntryFields) /\ (scanned.readOnly <=> ~cfg.canWrite)
           /\ scanned.hash = f.tracked.hash /\ scanned.known = f.tracked.known
           /\ scanned.dirty \/ scanned.dirty = f.tracked.dirty
  <1>1. PICK t : t = [f.tracked EXCEPT !.missingPolls = 0, !.readOnly = ~cfg.canWrite]
    OBVIOUS
  <1>2. /\ Has(t, EntryFields) /\ (t.readOnly <=> ~cfg.canWrite) /\ t.hash = f.tracked.hash
        /\ t.known = f.tracked.known /\ t.dirty = f.tracked.dirty
    BY <1>1 DEF IsPath, Has, EntryFields
  <1>3. PICK u : u = [t EXCEPT !.dirty = TRUE, !.deletePending = FALSE]
    OBVIOUS
  <1>4. /\ Has(u, EntryFields) /\ (u.readOnly <=> ~cfg.canWrite) /\ u.hash = f.tracked.hash
        /\ u.known = f.tracked.known /\ u.dirty
    BY <1>2, <1>3 DEF Has, EntryFields
  <1>5. scanned = t \/ scanned = u
    BY <1>1, <1>3 DEF scanned
  <1> QED
    BY <1>2, <1>4, <1>5

LEMMA KeepsScanned ==
    ASSUME IsPath(f), NEW h, h = [f EXCEPT !.tracked = scanned]
    PROVE  Keeps(f, h) /\ h.tracked = scanned
  <1>1. PICK t : t = scanned
    OBVIOUS
  <1>2. Has(t, EntryFields) /\ (Writes => ~t.readOnly) /\ t.hash = f.tracked.hash
          /\ t.known = f.tracked.known /\ (t.dirty \/ t.dirty = f.tracked.dirty)
    BY <1>1, ScannedIs DEF Writes
  <1>3. h = [f EXCEPT !.tracked = t]
    BY <1>1
  <1>4. Keeps(f, h)
    BY <1>2, <1>3, KeepsEntry
  <1> QED
    BY <1>1, <1>2, <1>3, <1>4, TameEntry

(* The cycle's pass over the directory.                                     *)
LEMMA WorkScanned ==
    ASSUME Shapes, Sends, ServerInv, DeliveryInv, WorkInv, [Next]_vars, ~Agent, CycleScanned
    PROVE  WorkInv'
  <1>1. IsPath(f) /\ f' = afterScan
    BY DEF WorkInv, CycleScanned, SetFile
  <1>2. CASE f' = f
    BY <1>2, WorkUnchanged
  <1>3. PICK h : h = [f EXCEPT !.tracked = scanned]
    OBVIOUS
  <1>4. Keeps(f, h)
    BY <1>1, <1>3, KeepsScanned
  <1>5. CASE f' = h
    BY <1>4, <1>5, WorkFileKept DEF Keeps
  <1>6. CASE \E x : f' = [f EXCEPT !.tracked = scanned, !.shadow = x]
    <2>1. PICK x : f' = [f EXCEPT !.tracked = scanned, !.shadow = x]
      BY <1>6
    <2>2. f' = [h EXCEPT !.shadow = x]
      BY <1>1, <1>3, <2>1 DEF IsPath, Has
    <2>3. Keeps(f, f')
      BY <1>4, <2>2, KeepsBase
    <2> QED
      BY <2>3, WorkFileKept DEF Keeps
  <1>7. CASE scanned.readOnly /\ \E x : f' = [f EXCEPT !.tracked = [scanned EXCEPT !.dirty = FALSE],
                                                      !.local = x]
    <2>1. ~Writes
      BY <1>1, <1>7, ScannedIs DEF Writes
    <2>2. PICK x, t : t = [scanned EXCEPT !.dirty = FALSE] /\ f' = [f EXCEPT !.tracked = t, !.local = x]
      BY <1>7
    <2>3. Has(t, EntryFields)
      BY <1>1, <2>2, ScannedIs DEF Has
    <2>4. IsPath(f)' /\ f'.artifacts = f.artifacts
      BY <1>1, <2>2, <2>3 DEF IsPath, Has
    <2>5. Tame(f, f')
      BY <2>1, <2>4 DEF Tame, IsPath
    <2> QED
      BY <2>1, <2>5, WorkFile
  <1>8. CASE cyc.scan # Absent /\ scanned.readOnly
    <2>1. PICK x : x = IF cyc.scan # f.tracked.hash /\ remote # NoFile THEN remote.body ELSE f.local
      OBVIOUS
    <2>2. f' = [f EXCEPT !.tracked = [scanned EXCEPT !.dirty = FALSE], !.local = x]
      BY <1>1, <1>8, <2>1 DEF afterScan
    <2> QED
      BY <1>7, <1>8, <2>2
  <1>9. CASE cyc.scan # Absent /\ ~scanned.readOnly /\ ~scanned.dirty
    <2>1. PICK x : x = IF scanned.rev = 0 \/ f.shadow.rev = scanned.rev THEN f.shadow
                       ELSE IF f.local = Absent THEN f.shadow
                       ELSE [rev |-> scanned.rev, body |-> f.local]
      OBVIOUS
    <2>2. f' = [f EXCEPT !.tracked = scanned, !.shadow = x]
      BY <1>1, <1>9, <2>1 DEF afterScan
    <2> QED
      BY <1>6, <2>2
  <1> QED
    BY <1>1, <1>2, <1>3, <1>5, <1>8, <1>9 DEF afterScan

LEMMA WorkPushed ==
    ASSUME Shapes, Sends, ServerInv, DeliveryInv, WorkInv, [Next]_vars, ~Agent,
           CyclePushGone \/ CyclePush
    PROVE  WorkInv'
  <1>1. IsPath(f)
    BY DEF WorkInv
  <1>2. PICK g : g = [f EXCEPT !.tracked = IF @.known THEN scanned ELSE @]
    OBVIOUS
  <1>3. Keeps(f, g) /\ (Writes => ~g.tracked.readOnly)
    <2>1. CASE f.tracked.known
      <3>1. g = [f EXCEPT !.tracked = scanned]
        BY <1>2, <2>1
      <3> QED
        BY <1>1, <3>1, KeepsScanned, ScannedIs DEF Writes
    <2>2. CASE ~f.tracked.known
      <3>1. g = f
        BY <1>1, <1>2, <2>2 DEF IsPath, Has
      <3> QED
        BY <1>1, <3>1, KeepsSame DEF WorkInv
    <2> QED
      BY <2>1, <2>2
  <1>4. IsPath(g)
    BY <1>3 DEF Keeps, Tame
  <1>5. CASE f' = g
    BY <1>3, <1>5, WorkFileKept DEF Keeps
  <1>6. CASE f' = markDirty(g, f.local)
    <2>1. Keeps(g, f')
      BY <1>4, <1>6, KeepsMarked
    <2>2. Keeps(f, f')
      BY <1>3, <2>1, KeepsOn
    <2> QED
      BY <2>2, WorkFileKept DEF Keeps
  <1>7. CASE /\ f.local # Absent /\ ~needsUpload(g, f.local)
             /\ f' = preparedWithoutUpload(g, f.local)
    <2>1. Tame(g, f') /\ (Writes /\ f.local = lastEdit => Keeps(g, f'))
      BY <1>3, <1>4, <1>7, KeepsPrepared
    <2>2. Tame(f, f') /\ (Writes /\ f.local = lastEdit => Keeps(f, f'))
      BY <1>3, <2>1, KeepsOn, TameOn DEF Keeps
    <2>3. Carried => f.local = lastEdit
      BY DEF Carried
    <2> QED
      BY <2>2, <2>3, WorkFileKept
  <1>8. CASE CyclePushGone
    BY <1>2, <1>5, <1>8 DEF CyclePushGone
  <1>9. CASE CyclePush
    BY <1>2, <1>6, <1>7, <1>9 DEF CyclePush, SetFile
  <1> QED
    BY <1>8, <1>9

(* The pass over the files a scan did not find: it may remove the entry of a*)
(* file that the agent has put back, never take the new bytes for settled.  *)
LEMMA WorkMissing ==
    ASSUME Shapes, Sends, ServerInv, DeliveryInv, WorkInv, [Next]_vars, ~Agent, CycleMissing
    PROVE  WorkInv'
  <1>1. IsPath(f) /\ FromServer(remote)
    BY DEF WorkInv, ServerInv
  <1>2. PICK t : t = [f.tracked EXCEPT !.readOnly = ~cfg.canWrite]
    OBVIOUS
  <1>3. PICK u : u = IF cfg.poll /\ ~t.deletePending
                     THEN [t EXCEPT !.missingPolls = @ + 1,
                                    !.deletePending = @ \/ t.missingPolls >= 1,
                                    !.dirty = @ /\ t.missingPolls < 1]
                     ELSE t
    OBVIOUS
  <1>4. PICK v : v = [u EXCEPT !.deletePending = FALSE, !.missingPolls = 0]
    OBVIOUS
  <1>5. /\ Has(t, EntryFields) /\ t.hash = f.tracked.hash /\ t.known = f.tracked.known
        /\ t.dirty = f.tracked.dirty /\ (t.readOnly <=> ~cfg.canWrite)
    BY <1>1, <1>2 DEF IsPath, Has, EntryFields
  <1>6. Has(u, EntryFields) /\ u.hash = f.tracked.hash /\ (u.readOnly <=> ~cfg.canWrite)
    BY <1>3, <1>5 DEF Has, EntryFields
  <1>7. Has(v, EntryFields) /\ v.hash = f.tracked.hash /\ (v.readOnly <=> ~cfg.canWrite)
    BY <1>4, <1>6 DEF Has, EntryFields
  <1>8. PICK k : k = [f EXCEPT !.tracked = v]
    OBVIOUS
  <1>9. \/ f' = f
        \/ f' = [f EXCEPT !.tracked = t]
        \/ /\ cyc.pc = "missing" /\ cyc.scan = Absent
           /\ \/ f' = [f EXCEPT !.tracked = u]
              \/ f' = [f EXCEPT !.tracked = Untracked]
              \/ f' = applyRemoteFile(k, remote, cfg.canWrite)
    BY <1>2, <1>3, <1>4, <1>8 DEF CycleMissing, SetFile
  <1>10. CASE f' = f
    BY <1>10, WorkUnchanged
  <1>11. CASE f' = [f EXCEPT !.tracked = t]
    <2>1. Writes => ~t.readOnly
      BY <1>5 DEF Writes
    <2>2. Keeps(f, f')
      BY <1>1, <1>5, <1>11, <2>1, KeepsEntry
    <2> QED
      BY <2>2, WorkFileKept DEF Keeps
  <1>12. ASSUME cyc.pc = "missing", cyc.scan = Absent, Carried PROVE f.tracked.hash # lastEdit
    BY <1>12 DEF Carried
  <1>13. CASE /\ cyc.pc = "missing" /\ cyc.scan = Absent
              /\ f' = [f EXCEPT !.tracked = u]
    <2>1. Writes => ~u.readOnly
      BY <1>6 DEF Writes
    <2>2. Tame(f, f')
      BY <1>1, <1>6, <1>13, <2>1, TameEntry
    <2>3. Carried => Keeps(f, f')
      BY <1>1, <1>6, <1>12, <1>13, <2>1, KeepsEntry
    <2> QED
      BY <2>2, <2>3, WorkFileKept
  <1>14. CASE f' = [f EXCEPT !.tracked = Untracked]
    <2>1. Has(Untracked, EntryFields) /\ ~Untracked.known /\ ~Untracked.readOnly
      BY EntryShapes DEF Untracked
    <2>2. Keeps(f, f')
      BY <1>1, <1>14, <2>1, KeepsEntry
    <2> QED
      BY <2>2, WorkFileKept DEF Keeps
  <1>15. CASE /\ cyc.pc = "missing" /\ cyc.scan = Absent
              /\ f' = applyRemoteFile(k, remote, cfg.canWrite)
    <2>1. Writes => ~v.readOnly
      BY <1>7 DEF Writes
    <2>2. Tame(f, k)
      BY <1>1, <1>7, <1>8, <2>1, TameEntry
    <2>3. Carried => Keeps(f, k)
      BY <1>1, <1>7, <1>8, <1>12, <1>15, <2>1, KeepsEntry
    <2>4. Tame(k, f') /\ (Writes => Keeps(k, f'))
      BY <1>1, <1>15, <2>2, KeepsRemote DEF Tame
    <2>5. Tame(f, f') /\ (Writes /\ Carried => Keeps(f, f'))
      BY <2>2, <2>3, <2>4, TameOn, KeepsOn
    <2> QED
      BY <2>5, WorkFileKept
  <1> QED
    BY <1>9, <1>10, <1>11, <1>13, <1>14, <1>15

(* A nonempty set of numbers up to a bound has a greatest one.              *)
LEMMA GreatestOf ==
    ASSUME NEW n \in Nat, NEW S \in SUBSET (0..n), S # {}
    PROVE  \E i \in S : \A j \in S : j <= i
  <1> DEFINE R == {ss \in Nat \X Nat : ss[1] < ss[2]}
             T == {n - i : i \in S}
  <1>1. IsWellFoundedOn(R, Nat)
    BY NatLessThanWellFounded DEF OpToRel
  <1>2. T \in SUBSET Nat /\ T # {}
    <2>1. \A i \in S : i \in 0..n /\ n - i \in Nat
      OBVIOUS
    <2> QED
      BY <2>1
  <1>3. \E k \in T : \A j \in T : ~(<<j, k>> \in R)
    <2> HIDE DEF R, T
    <2> QED
      BY <1>1, <1>2, WFMin
  <1>4. \A i \in Nat, j \in Nat : j < i => <<j, i>> \in R
    OBVIOUS
  <1> HIDE DEF R
  <1>5. PICK i \in S : \A j \in T : ~(<<j, n - i>> \in R)
    BY <1>3
  <1>6. ASSUME NEW j \in S
        PROVE  j <= i
    <2>1. i \in Nat /\ j \in Nat /\ n - i \in Nat /\ n - j \in T /\ n - j \in Nat
      OBVIOUS
    <2>2. ~(n - j < n - i)
      BY <1>4, <1>5, <2>1
    <2> QED
      BY <2>1, <2>2
  <1> QED
    BY <1>6

(* The last event of the file after the cursor, when there is one.          *)
LEMMA LastOfFileIs ==
    ASSUME IsSeq(log), cursor \in Nat, LastOfFile # 0
    PROVE  LastOfFile \in DOMAIN log
  <1> DEFINE mine == {i \in Missed : log[i].kind # "reconcile"}
  <1>1. Len(log) \in Nat /\ DOMAIN log = 1..Len(log)
    BY SeqLength
  <1>2. mine \in SUBSET (0..Len(log)) /\ \A i \in mine : i \in 1..Len(log)
    BY <1>1 DEF Missed
  <1>3. mine # {} /\ LastOfFile = CHOOSE i \in mine : \A j \in mine : j <= i
    BY DEF LastOfFile
  <1>4. \E i \in mine : \A j \in mine : j <= i
    <2> HIDE DEF mine
    <2> QED
      BY <1>1, <1>2, <1>3, GreatestOf
  <1>5. LastOfFile \in mine
    BY <1>3, <1>4
  <1> QED
    BY <1>1, <1>2, <1>5

(* What the pulls make of the path.                                         *)
LEMMA WorkPulls ==
    ASSUME Shapes, Sends, ServerInv, DeliveryInv, WorkInv, [Next]_vars, ~Agent, cursor \in Nat,
           CycleIncremental \/ CycleApplyRead \/ CycleApplyExport
    PROVE  WorkInv'
  <1>1. IsPath(f) /\ FromServer(cyc.file)
    BY DEF WorkInv, ServerInv
  <1>2. CASE f' = f
    BY <1>2, WorkUnchanged
  <1>3. CASE f' = applyRemoteDelete(f)
    <2>1. Keeps(f, f')
      BY <1>1, <1>3, KeepsDelete
    <2> QED
      BY <2>1, WorkFileKept DEF Keeps
  <1>4. CASE f' = applyRemoteFile(f, cyc.file, cfg.canWrite)
    <2>1. Tame(f, f') /\ (Writes => Keeps(f, f'))
      BY <1>1, <1>4, KeepsRemote
    <2> QED
      BY <2>1, WorkFileKept
  <1>5. CASE CycleIncremental /\ LastOfFile # 0 /\ ~cyc.conflicted /\ log[LastOfFile].kind # "deleted"
    <2>1. LastOfFile \in DOMAIN log
      BY <1>5, LastOfFileIs DEF Shapes
    <2>2. log[LastOfFile].kind = "updated"
      <3>1. log[LastOfFile].kind # "reconcile"
        <4> DEFINE mine == {i \in Missed : log[i].kind # "reconcile"}
        <4>1. Len(log) \in Nat /\ DOMAIN log = 1..Len(log)
          BY SeqLength DEF Shapes
        <4>2. mine \in SUBSET (0..Len(log))
          BY <4>1 DEF Missed
        <4>3. mine # {} /\ LastOfFile = CHOOSE i \in mine : \A j \in mine : j <= i
          BY <1>5 DEF LastOfFile
        <4>4. \E i \in mine : \A j \in mine : j <= i
          <5> HIDE DEF mine
          <5> QED
            BY <4>1, <4>2, <4>3, GreatestOf
        <4> QED
          BY <4>3, <4>4
      <3> QED
        BY <1>5, <2>1, <3>1 DEF ServerInv
    <2>3. OnServer(f.local)
      BY <1>5, <2>1, <2>2 DEF CycleIncremental, NeedsRead, canSkipRead, ServerInv
    <2>4. f' = [f EXCEPT !.tracked = Clean(log[LastOfFile].rev, f.local, cfg.canWrite)]
      BY <1>5 DEF CycleIncremental, SetFile, adoptWithoutRead
    <2>5. Writes => cfg.canWrite
      BY DEF Writes
    <2>6. Keeps(f, f')
      BY <1>1, <2>3, <2>4, <2>5, KeepsClean
    <2> QED
      BY <2>6, WorkFileKept DEF Keeps
  <1>6. CASE CycleIncremental
    BY <1>2, <1>3, <1>5, <1>6 DEF CycleIncremental, SetFile
  <1>7. CASE CycleApplyRead \/ CycleApplyExport
    BY <1>2, <1>3, <1>4, <1>7 DEF CycleApplyRead, CycleApplyExport, SetFile, local
  <1> QED
    BY <1>6, <1>7

(* The answer to the cycle's upload.                                        *)
LEMMA WorkCycleApply ==
    ASSUME Shapes, Sends, ServerInv, DeliveryInv, WorkInv, [Next]_vars, ~Agent, CycleApply
    PROVE  WorkInv'
  <1>1. cyc.rec \in Records /\ (cyc.answer.kind = "ok" => ops[cyc.rec.cmd].rev # 0)
          /\ (cyc.answer.kind = "forbidden" => ~cfg.granted)
    BY DEF CycleApply, DeliveryInv, AnswerTrue, Records
  <1> QED
    BY <1>1, WorkAnswered DEF CycleApply

(* The steps that leave the file alone.                                     *)
LEMMA WorkElsewhere ==
    ASSUME Shapes, Sends, ServerInv, DeliveryInv, WorkInv, [Next]_vars, ~Agent,
           \/ Server \/ connectWebSocket \/ ReadEventFile \/ ApplyReconcileEvent
           \/ CycleStart \/ CycleSettle \/ CycleSend \/ CyclePost \/ CycleFlushed \/ CycleScan
           \/ CycleNoPull \/ CycleQuiet \/ CycleCursorExpired \/ CycleFastPath \/ CycleFullPull
           \/ CycleIncrementalRead \/ CycleRead \/ CycleExport \/ CycleSeedCursor
           \/ (\E r \in outbox : SettleReceipt(r))
           \/ handleWebSocketDisconnect \/ savePrivateState \/ CircuitCloses
           \/ UNCHANGED vars
    PROVE  WorkInv'
  <1>1. UNCHANGED f
    BY DEF Server, RemoteWrite, RemoteDelete, Reconcile, OperationSettles, connectWebSocket,
           ReadEventFile, ApplyReconcileEvent, CycleStart, CycleSettle, CycleSend, CyclePost,
           CycleFlushed, CycleScan, CycleNoPull, CycleQuiet, CycleCursorExpired, CycleFastPath,
           CycleFullPull, CycleIncrementalRead, CycleRead, CycleExport, CycleSeedCursor,
           SettleReceipt, handleWebSocketDisconnect, savePrivateState, CircuitCloses, vars, local
  <1> QED
    BY <1>1, WorkUnchanged

(* WorkInv, whatever the step.                                              *)
LEMMA WorkStep ==
    ASSUME Shapes, Sends, ServerInv, DeliveryInv, WorkInv, [Next]_vars,
           cursor \in Nat, ws.pos \in Nat
    PROVE  WorkInv'
  <1>1. CASE Agent
    BY <1>1, WorkAgent
  <1>2. CASE ~Agent
    <2>1. IsSeq(log)
      BY DEF Shapes
    <2> QED
      BY <1>2, <2>1, WorkWatcher, WorkSocket, WorkCycleApply, WorkScanned, WorkPushed, WorkMissing,
         WorkPulls, WorkCrash, WorkElsewhere
         DEF Next, Socket, Cycle
  <1> QED
    BY <1>1, <1>2

-----------------------------------------------------------------------------
(* The cursor and the debt of a full reconcile                              *)

(* The cycle goes on and owes what it owed.                                 *)
CycleKept ==
    /\ cyc'.last = cyc.last \/ (cyc'.last = 0 /\ cyc'.pc = "flush")
    /\ cyc'.pc \in {"idle", "flush"} => ~cyc'.didPoll
    /\ cyc'.pc = "seeding" => cyc'.didPoll
    /\ force \/ (cyc.didPoll => cyc'.didPoll)
    /\ cyc'.pc \in {"reading", "read"} => cyc.pc \in {"reading", "read"}

(* The part of the feed that the cursors have seen stays as it is.          *)
LEMMA ReconcileStays ==
    ASSUME IsSeq(log), ServerGoesOn, NEW i \in Nat, NEW j \in 0..Len(log)
    PROVE  \A k \in (i + 1)..j : log'[k] = log[k]
  <1>1. DOMAIN log = 1..Len(log) /\ Len(log) \in Nat
    BY SeqLength
  <1>2. \A k \in (i + 1)..j : k \in DOMAIN log
    BY <1>1
  <1> QED
    BY <1>2 DEF ServerGoesOn

LEMMA NothingBetween ==
    ASSUME NEW i \in Nat, NEW k \in (i + 1)..i
    PROVE  FALSE
  OBVIOUS

(* The three ways a step can go on: it leaves the cursor and the debt alone,*)
(* saves both, or applies an event.                                         *)
LEMMA CursorQuiet ==
    ASSUME CursorInv, IsSeq(log), ServerGoesOn, UNCHANGED <<cfg, cursor, force, ws, crashes, disk>>,
           CycleKept
    PROVE  CursorInv'
  <1>1. Len(log) \in Nat /\ Len(log') \in Nat /\ Len(log) <= Len(log')
    BY DEF ServerGoesOn
  <1>2. /\ cursor \in 0..Len(log) /\ disk.cursor \in 0..Len(log)
        /\ cyc.last \in 0..Len(log) /\ ws.pos \in 0..Len(log)
    BY DEF CursorInv
  <1>3. /\ \A k \in (disk.cursor + 1)..cursor : log'[k] = log[k]
        /\ \A k \in (cursor + 1)..cyc.last : log'[k] = log[k]
    <2>1. disk.cursor \in Nat /\ cursor \in Nat
      BY <1>1, <1>2
    <2> QED
      BY <1>2, <2>1, ReconcileStays
  <1>4. ws.got = "file" => log'[ws.pos + 1] = log[ws.pos + 1] /\ ws.pos < Len(log')
    <2>1. ws.got = "file" => ws.pos + 1 \in DOMAIN log
      BY <1>1, <1>2, SeqLength DEF CursorInv
    <2> QED
      BY <1>1, <1>2, <2>1 DEF ServerGoesOn, CursorInv
  <1>5. /\ cursor' \in 0..Len(log') /\ disk'.cursor \in 0..Len(log')
        /\ cyc'.last \in 0..Len(log') /\ ws'.pos \in 0..Len(log')
    BY <1>1, <1>2 DEF CycleKept
  <1>6. crashes' < cfg'.crashes /\ disk'.cursor # 0 =>
          (cursor' = 0 \/ ReconcileIn(disk.cursor, cursor)' => force' \/ cyc'.didPoll)
    BY <1>3 DEF CursorInv, CycleKept, ReconcileIn
  <1>7. cyc'.pc \in {"reading", "read"} /\ ReconcileIn(cursor, cyc.last)' => force'
    BY <1>3 DEF CursorInv, CycleKept, ReconcileIn
  <1> QED
    BY <1>4, <1>5, <1>6, <1>7 DEF CursorInv, CycleKept

LEMMA CursorSaved ==
    ASSUME CursorInv, IsSeq(log), ServerGoesOn, UNCHANGED <<cfg, ws, crashes>>, EndCycle,
           \/ cursor' = cursor
           \/ cursor' = Len(log)
           \/ cursor # 0 /\ cursor' \in cursor..Len(log)
    PROVE  CursorInv'
  <1>1. Len(log) \in Nat /\ Len(log') \in Nat /\ Len(log) <= Len(log')
    BY DEF ServerGoesOn
  <1>2. /\ cursor \in 0..Len(log) /\ disk.cursor \in 0..Len(log) /\ ws.pos \in 0..Len(log)
    BY DEF CursorInv
  <1>3. /\ cyc'.pc = "idle" /\ ~cyc'.didPoll /\ cyc'.last = 0
        /\ disk' = IF crashes < cfg.crashes THEN savedState' ELSE disk
    BY DEF EndCycle, Idle
  <1>4. disk'.cursor = IF crashes < cfg.crashes THEN cursor' ELSE disk.cursor
    BY <1>3 DEF savedState
  <1>5. /\ cursor' \in 0..Len(log') /\ disk'.cursor \in 0..Len(log')
        /\ cyc'.last \in 0..Len(log') /\ ws'.pos \in 0..Len(log')
    BY <1>1, <1>2, <1>3, <1>4
  <1>6. ws.got = "file" => log'[ws.pos + 1] = log[ws.pos + 1] /\ ws.pos < Len(log')
    <2>1. ws.got = "file" => ws.pos + 1 \in DOMAIN log
      BY <1>1, <1>2, SeqLength DEF CursorInv
    <2> QED
      BY <1>1, <1>2, <2>1 DEF ServerGoesOn, CursorInv
  <1>7. ws'.on /\ cursor' # 0 => ws'.pos <= cursor'
    BY <1>1, <1>2 DEF CursorInv
  <1>8. crashes' < cfg'.crashes => ~ReconcileIn(disk.cursor, cursor)'
    <2>1. cursor' \in Nat
      BY <1>1, <1>5
    <2>2. \A k \in (cursor' + 1)..cursor' : FALSE
      BY <2>1, NothingBetween
    <2>3. crashes' < cfg'.crashes => disk'.cursor = cursor'
      BY <1>4
    <2>4. (disk'.cursor = cursor') => ~ReconcileIn(disk.cursor, cursor)'
      BY <2>2 DEF ReconcileIn
    <2> QED
      BY <2>3, <2>4
  <1>9. crashes' < cfg'.crashes /\ disk'.cursor # 0 => cursor' # 0
    BY <1>4
  <1> QED
    BY <1>3, <1>5, <1>6, <1>7, <1>8, <1>9 DEF CursorInv

(* The event after the socket's position is applied.                        *)
LEMMA CursorFollows ==
    ASSUME CursorInv, IsSeq(log), ServerGoesOn, UNCHANGED <<cfg, crashes, disk, cyc>>,
           ws.on, ws.pos < Len(log), EventApplied,
           \/ force' = TRUE
           \/ UNCHANGED force /\ log[ws.pos + 1].kind # "reconcile"
    PROVE  CursorInv'
  <1>1. Len(log) \in Nat /\ Len(log') \in Nat /\ Len(log) <= Len(log')
    BY DEF ServerGoesOn
  <1>2. /\ cursor \in 0..Len(log) /\ disk.cursor \in 0..Len(log)
        /\ cyc.last \in 0..Len(log) /\ ws.pos \in 0..Len(log)
    BY DEF CursorInv
  <1>3. /\ ws'.on /\ ws'.pos = ws.pos + 1 /\ ws'.got = "none"
        /\ cursor' = IF ws.pos + 1 < cursor THEN cursor ELSE ws.pos + 1
    BY <1>2 DEF EventApplied, NoSocket, advanceEventCursor
  <1>4. /\ cursor' \in 0..Len(log') /\ disk'.cursor \in 0..Len(log')
        /\ cyc'.last \in 0..Len(log') /\ ws'.pos \in 0..Len(log')
        /\ cursor' # 0 /\ cursor' \in 0..Len(log) /\ ws'.pos <= cursor'
    BY <1>1, <1>2, <1>3
  <1>5. /\ \A k \in (disk.cursor + 1)..cursor' : log'[k] = log[k]
        /\ \A k \in (cursor' + 1)..cyc.last : log'[k] = log[k]
    <2>1. disk.cursor \in Nat /\ cursor' \in Nat
      BY <1>1, <1>2, <1>4
    <2> QED
      BY <1>2, <1>4, <2>1, ReconcileStays
  <1>6. cursor # 0 => ws.pos <= cursor
    BY <1>3 DEF CursorInv
  <1>7. ASSUME ReconcileIn(disk.cursor, cursor)', cursor # 0, ~force'
        PROVE  ReconcileIn(disk.cursor, cursor)
    <2>1. PICK k \in (disk.cursor + 1)..cursor' : log[k].kind = "reconcile"
      BY <1>5, <1>7 DEF ReconcileIn
    <2>2. k # ws.pos + 1
      BY <1>7, <2>1
    <2>3. k \in (disk.cursor + 1)..cursor
      BY <1>2, <1>3, <1>6, <1>7, <2>1, <2>2
    <2> QED
      BY <2>1, <2>3 DEF ReconcileIn
  <1>8. ReconcileIn(cursor, cyc.last)' => ReconcileIn(cursor, cyc.last)
    BY <1>1, <1>2, <1>3, <1>5 DEF ReconcileIn
  <1>9. force => force'
    OBVIOUS
  <1> QED
    BY <1>3, <1>4, <1>7, <1>8, <1>9 DEF CursorInv

(* The steps of the agent, the server and the watcher.                      *)
LEMMA CursorOthers ==
    ASSUME Shapes, CursorInv, ServerGoesOn,
           \/ Agent \/ Server \/ Watcher \/ (\E r \in outbox : SettleReceipt(r)) \/ CircuitCloses
           \/ UNCHANGED vars
    PROVE  CursorInv'
  <1>1. UNCHANGED <<cfg, cursor, force, ws, crashes, disk>>
    BY DEF Agent, EditLocal, RemoveLocal, Server, RemoteWrite, RemoteDelete, Reconcile,
           OperationSettles, Watcher, HandleLocalGone, HandleLocalClean, HandleLocalWrite,
           WatcherPost, WatcherApply, SettleReceipt, CircuitCloses, vars, memory, env
  <1>2. cyc' = cyc \/ cyc' = markFullPullUpPath
    BY DEF Agent, EditLocal, RemoveLocal, Server, RemoteWrite, RemoteDelete, Reconcile,
           OperationSettles, Watcher, HandleLocalGone, HandleLocalClean, HandleLocalWrite,
           WatcherPost, WatcherApply, SettleReceipt, CircuitCloses, vars
  <1>3. /\ cyc'.last = cyc.last /\ cyc'.pc = cyc.pc /\ cyc'.didPoll = cyc.didPoll
    BY <1>2 DEF markFullPullUpPath, Shapes, Has, CycleFields
  <1>4. CycleKept
    BY <1>3 DEF CycleKept, CursorInv
  <1> QED
    BY <1>1, <1>4, CursorQuiet DEF Shapes

(* The steps of the cycle before it pulls.                                  *)
LEMMA CursorCycle ==
    ASSUME Shapes, Sends, CursorInv, ServerGoesOn,
           \/ CycleStart \/ CycleSettle \/ CycleSend \/ CyclePost \/ CycleApply \/ CycleFlushed
           \/ CycleScan \/ CycleScanned \/ CyclePushGone \/ CyclePush \/ CycleMissing
           \/ CycleNoPull \/ CycleQuiet \/ CycleFullPull \/ CycleRead \/ CycleExport
    PROVE  CursorInv'
  <1>1. UNCHANGED <<cfg, cursor, force, ws, crashes>>
    BY DEF CycleStart, CycleSettle, CycleSend, CyclePost, CycleApply, CycleFlushed, CycleScan,
           CycleScanned, CyclePushGone, CyclePush, CycleMissing, CycleNoPull, CycleQuiet,
           CycleFullPull, CycleRead, CycleExport, memory, env
  <1>2. CASE EndCycle
    BY <1>1, <1>2, CursorSaved DEF Shapes
  <1>3. CASE ~EndCycle
    <2>1. UNCHANGED disk
      BY <1>3 DEF CycleStart, CycleSettle, CycleSend, CyclePost, CycleApply, CycleFlushed,
           CycleScan, CycleScanned, CyclePushGone, CyclePush, CycleMissing, CycleNoPull,
           CycleQuiet, CycleFullPull, CycleRead, CycleExport
    <2>2. CASE CycleStart
      <3>1. cyc'.last = 0 /\ cyc'.pc = "flush" /\ ~cyc'.didPoll
        BY <2>2 DEF CycleStart, Idle
      <3>2. ~cyc.didPoll
        BY <2>2 DEF CycleStart, CursorInv
      <3> QED
        BY <1>1, <2>1, <3>1, <3>2, CursorQuiet DEF CycleKept, Shapes
    <2>3. CASE CycleFlushed
      <3>1. /\ cyc'.last = cyc.last /\ cyc'.pc \in {"exporting", "push"} /\ cyc'.didPoll = force
        BY <2>3 DEF CycleFlushed, Shapes, Has, CycleFields
      <3>2. ~cyc.didPoll
        BY <2>3 DEF CycleFlushed, CursorInv
      <3> QED
        BY <1>1, <2>1, <3>1, <3>2, CursorQuiet DEF CycleKept, Shapes
    <2>4. CASE ~CycleStart /\ ~CycleFlushed
      <3>1. cyc'.last = cyc.last /\ cyc'.didPoll = cyc.didPoll
        BY <1>3, <2>4 DEF CycleSettle, CycleSend, CyclePost, CycleApply,
           CycleScan, CycleScanned, CyclePushGone, CyclePush, CycleMissing, CycleNoPull,
           CycleQuiet, CycleFullPull, CycleRead, CycleExport, Shapes, Has, CycleFields
      <3>2. \/ cyc'.pc = cyc.pc
            \/ cyc'.pc \in {"missing", "scanned", "pull", "pushing", "exporting", "exported"}
            \/ cyc.pc = "reading" /\ cyc'.pc = "read"
        BY <1>3, <2>4 DEF CycleSettle, CycleSend, CyclePost, CycleApply,
           CycleScan, CycleScanned, CyclePushGone, CyclePush, CycleMissing, CycleNoPull,
           CycleQuiet, CycleFullPull, CycleRead, CycleExport, Shapes, Has, CycleFields
      <3>3. CycleKept
        BY <3>1, <3>2 DEF CycleKept, CursorInv
      <3> QED
        BY <1>1, <2>1, <3>3, CursorQuiet DEF Shapes
    <2> QED
      BY <2>2, <2>3, <2>4
  <1> QED
    BY <1>2, <1>3

(* A socket that connects, that waits for a file, and that is lost; a save; *)
(* a crash: what is read again is what was saved.                           *)
LEMMA CursorAround ==
    ASSUME Shapes, CursorInv, ServerGoesOn,
           \/ connectWebSocket \/ ReadEventFile \/ handleWebSocketDisconnect
           \/ savePrivateState \/ Crash
    PROVE  CursorInv'
  <1>1. Len(log) \in Nat /\ DOMAIN log = 1..Len(log)
    BY SeqLength DEF Shapes
  <1>2. /\ cursor \in 0..Len(log) /\ disk.cursor \in 0..Len(log)
        /\ cyc.last \in 0..Len(log) /\ ws.pos \in 0..Len(log)
    BY DEF CursorInv
  <1>3. UNCHANGED <<cfg, log>>
    BY DEF connectWebSocket, ReadEventFile, handleWebSocketDisconnect, savePrivateState, Crash,
           server
  <1>4. CASE connectWebSocket \/ ReadEventFile \/ handleWebSocketDisconnect
    <2>1. UNCHANGED <<cursor, force, cyc, disk, crashes>>
      BY <1>4 DEF connectWebSocket, ReadEventFile, handleWebSocketDisconnect, memory, env
    <2>2. CASE connectWebSocket
      <3>1. /\ ws'.pos = (IF cursor = 0 THEN Len(log) ELSE cursor) /\ ws'.got = "none"
        BY <2>2 DEF connectWebSocket, NoSocket
      <3>2. ws'.pos \in 0..Len(log) /\ (cursor # 0 => ws'.pos <= cursor)
        BY <1>1, <1>2, <3>1
      <3> QED
        BY <1>2, <1>3, <2>1, <3>1, <3>2 DEF CursorInv, ReconcileIn
    <2>3. CASE ReadEventFile
      <3>1. ws'.pos = ws.pos /\ ws'.on = ws.on
        BY <2>3 DEF ReadEventFile, Shapes, Has
      <3>2. ws.pos < Len(log) /\ log[ws.pos + 1].kind # "reconcile"
        BY <2>3 DEF ReadEventFile, EventWaits, NextEvent
      <3> QED
        BY <1>2, <1>3, <2>1, <3>1, <3>2 DEF CursorInv, ReconcileIn
    <2>4. CASE handleWebSocketDisconnect
      <3>1. ws'.pos = 0 /\ ~ws'.on /\ ws'.got = "none"
        BY <2>4 DEF handleWebSocketDisconnect, NoSocket
      <3> QED
        BY <1>1, <1>2, <1>3, <2>1, <3>1 DEF CursorInv, ReconcileIn
    <2> QED
      BY <1>4, <2>2, <2>3, <2>4
  <1>5. CASE savePrivateState
    <2>1. UNCHANGED <<cursor, force, cyc, ws, crashes>> /\ disk'.cursor = cursor
      BY <1>5 DEF savePrivateState, savedState, memory, env
    <2>2. ~ReconcileIn(disk.cursor, cursor)'
      BY <1>2, <2>1 DEF ReconcileIn
    <2> QED
      BY <1>2, <1>3, <2>1, <2>2 DEF CursorInv, ReconcileIn
  <1>6. CASE Crash
    <2>1. /\ UNCHANGED disk /\ crashes < cfg.crashes /\ cursor' = disk.cursor
          /\ ws'.pos = 0 /\ ~ws'.on /\ ws'.got = "none"
          /\ cyc'.pc = "idle" /\ ~cyc'.didPoll /\ cyc'.last = 0
      BY <1>6 DEF Crash, NoSocket, Idle
    <2>2. ~ReconcileIn(disk.cursor, cursor)'
      BY <1>2, <2>1 DEF ReconcileIn
    <2> QED
      BY <1>1, <1>2, <1>3, <2>1, <2>2 DEF CursorInv
  <1> QED
    BY <1>4, <1>5, <1>6

(* Events that are applied from the socket.                                 *)
LEMMA CursorSocket ==
    ASSUME Shapes, CursorInv, ServerGoesOn,
           ApplyInlineEvent \/ ApplyEventFile \/ ApplyDeletedEvent \/ ApplyReconcileEvent
    PROVE  CursorInv'
  <1>1. UNCHANGED <<cfg, crashes, disk, cyc>> /\ EventApplied /\ ws.on
    BY DEF ApplyInlineEvent, ApplyEventFile, ApplyDeletedEvent, ApplyReconcileEvent, EventWaits, env
  <1>2. /\ ws.pos < Len(log)
        /\ force' = TRUE \/ (UNCHANGED force /\ log[ws.pos + 1].kind # "reconcile")
    BY DEF ApplyInlineEvent, ApplyEventFile, ApplyDeletedEvent, ApplyReconcileEvent, EventWaits,
           NextEvent, CursorInv
  <1> QED
    BY <1>1, <1>2, CursorFollows DEF Shapes

(* The tip that a pull has read up to becomes the cursor.                   *)
LEMMA CursorAdvances ==
    ASSUME Shapes, CursorInv, ServerGoesOn, UNCHANGED <<cfg, ws, crashes>>, cursor # 0,
           NEW tip \in 0..Len(log), AfterIncremental(tip)
    PROVE  CursorInv'
  <1>1. Len(log) \in Nat /\ Len(log') \in Nat /\ Len(log) <= Len(log')
    BY DEF ServerGoesOn
  <1>2. /\ cursor \in 0..Len(log) /\ disk.cursor \in 0..Len(log)
        /\ cyc.last \in 0..Len(log) /\ ws.pos \in 0..Len(log)
    BY DEF CursorInv
  <1>3. cursor' \in cursor..Len(log)
    BY <1>1, <1>2 DEF AfterIncremental, advanceEventCursor
  <1>4. CASE EndCycle
    BY <1>3, <1>4, CursorSaved DEF Shapes
  <1>5. CASE ~EndCycle
    <2>1. force' /\ cyc' = [cyc EXCEPT !.pc = "exporting"] /\ UNCHANGED disk
      BY <1>5 DEF AfterIncremental
    <2>2. cyc'.pc = "exporting" /\ cyc'.last = cyc.last
      BY <2>1 DEF Shapes, Has, CycleFields
    <2>3. /\ cursor' \in 0..Len(log') /\ disk'.cursor \in 0..Len(log')
          /\ cyc'.last \in 0..Len(log') /\ ws'.pos \in 0..Len(log')
      <3>1. cursor' \in 0..Len(log')
        BY <1>1, <1>2, <1>3
      <3>2. /\ disk'.cursor \in 0..Len(log')
            /\ cyc'.last \in 0..Len(log') /\ ws'.pos \in 0..Len(log')
        BY <1>1, <1>2, <2>1, <2>2
      <3> QED
        BY <3>1, <3>2
    <2>4. ws.got = "file" => log'[ws.pos + 1] = log[ws.pos + 1] /\ ws.pos < Len(log')
      <3>1. ws.got = "file" => ws.pos + 1 \in DOMAIN log
        BY <1>1, <1>2, SeqLength DEF CursorInv, Shapes
      <3> QED
        BY <1>1, <1>2, <3>1 DEF ServerGoesOn, CursorInv
    <2>5. ws'.on /\ cursor' # 0 => ws'.pos <= cursor'
      BY <1>1, <1>2, <1>3 DEF CursorInv
    <2> QED
      BY <2>1, <2>2, <2>3, <2>4, <2>5 DEF CursorInv
  <1> QED
    BY <1>4, <1>5

(* The pulls that move the cursor or the debt.                              *)
LEMMA CursorPulls ==
    ASSUME Shapes, CursorInv, ServerGoesOn,
           \/ CycleCursorExpired \/ CycleFastPath \/ CycleIncremental \/ CycleIncrementalRead
           \/ CycleApplyRead \/ CycleApplyExport \/ CycleSeedCursor
    PROVE  CursorInv'
  <1>1. UNCHANGED <<cfg, ws, crashes, log>>
    BY DEF CycleCursorExpired, CycleFastPath, CycleIncremental, CycleIncrementalRead,
           CycleApplyRead, CycleApplyExport, CycleSeedCursor, env, server
  <1>2. Len(log) \in Nat /\ DOMAIN log = 1..Len(log)
    BY SeqLength DEF Shapes
  <1>3. /\ cursor \in 0..Len(log) /\ disk.cursor \in 0..Len(log)
        /\ cyc.last \in 0..Len(log) /\ ws.pos \in 0..Len(log)
    BY DEF CursorInv
  <1>4. CASE CycleCursorExpired
    <2>1. /\ cursor' = 0 /\ force' = TRUE /\ UNCHANGED disk
          /\ cyc'.pc = "exporting" /\ cyc'.last = cyc.last
      BY <1>4 DEF CycleCursorExpired, Shapes, Has, CycleFields
    <2> QED
      BY <1>1, <1>2, <1>3, <2>1 DEF CursorInv
  <1>5. CASE CycleFastPath
    BY <1>1, <1>5, CursorSaved DEF CycleFastPath, Shapes
  <1>6. CASE CycleIncremental
    <2>1. cursor # 0 /\ AfterIncremental(Len(log)) /\ Len(log) \in 0..Len(log)
      BY <1>2, <1>6 DEF CycleIncremental
    <2> QED
      BY <1>1, <2>1, CursorAdvances
  <1>7. CASE CycleIncrementalRead
    <2>1. /\ UNCHANGED <<cursor, disk>> /\ force' = AsksReconcile /\ ~force /\ ~cyc.didPoll
          /\ cursor # 0 /\ cyc'.pc = "reading" /\ cyc'.last = Len(log)
      BY <1>7 DEF CycleIncrementalRead, Pulls, Shapes, Has, CycleFields
    <2>2. ReconcileIn(cursor, cyc.last)' => force'
      BY <1>1, <1>2, <1>3, <2>1 DEF ReconcileIn, AsksReconcile, Missed
    <2>3. ReconcileIn(disk.cursor, cursor)' <=> ReconcileIn(disk.cursor, cursor)
      BY <1>1, <2>1 DEF ReconcileIn
    <2> QED
      BY <1>1, <1>2, <1>3, <2>1, <2>2, <2>3 DEF CursorInv
  <1>8. CASE CycleApplyRead
    <2>1. cursor # 0
      BY <1>8 DEF CycleApplyRead, CursorInv
    <2>2. CASE AfterIncremental(cyc.last)
      BY <1>1, <1>3, <2>1, <2>2, CursorAdvances
    <2>3. CASE EndCycle /\ UNCHANGED cursor
      BY <1>1, <2>3, CursorSaved DEF Shapes
    <2> QED
      BY <1>8, <2>2, <2>3 DEF CycleApplyRead
  <1>9. CASE CycleApplyExport
    <2>1. /\ UNCHANGED <<cursor, disk>> /\ cyc'.didPoll /\ cyc'.last = cyc.last
          /\ cyc'.pc \in {"seeding", "push", "pull"}
      BY <1>9 DEF CycleApplyExport, AfterFullPull, Shapes, Has, CycleFields
    <2> QED
      BY <1>1, <1>2, <1>3, <2>1 DEF CursorInv
  <1>10. CASE CycleSeedCursor
    <2>1. /\ UNCHANGED <<disk, force>> /\ cyc'.didPoll = cyc.didPoll /\ cyc'.last = cyc.last
          /\ cyc'.pc = "pull" /\ cyc.didPoll
      <3>1. UNCHANGED <<disk, force>> /\ cyc' = [cyc EXCEPT !.pc = "pull"] /\ cyc.pc = "seeding"
        BY <1>10 DEF CycleSeedCursor
      <3> QED
        BY <3>1 DEF Shapes, Has, CycleFields, CursorInv
    <2>4. cursor' = IF Len(log) = 0 THEN cursor ELSE IF Len(log) < cursor THEN cursor ELSE Len(log)
      BY <1>10 DEF CycleSeedCursor, advanceEventCursor
    <2>2. cursor' = Len(log) /\ cursor' \in 0..Len(log) /\ ws.pos <= cursor'
      <3>1. ~(Len(log) < cursor) /\ (Len(log) = 0 => cursor = 0)
        BY <1>2, <1>3
      <3>2. cursor' = Len(log)
        BY <2>4, <3>1
      <3> QED
        BY <1>2, <1>3, <3>2
    <2> QED
      BY <1>1, <1>2, <1>3, <2>1, <2>2 DEF CursorInv
  <1> QED
    BY <1>4, <1>5, <1>6, <1>7, <1>8, <1>9, <1>10

(* CursorInv, whatever the step.                                            *)
LEMMA CursorStep ==
    ASSUME Shapes, Sends, ServerInv, CursorInv, [Next]_vars
    PROVE  CursorInv'
  <1>1. ServerGoesOn
    BY ServerInvStep
  <1> QED
    BY <1>1, CursorOthers, CursorCycle, CursorAround, CursorSocket, CursorPulls
       DEF Next, Socket, Cycle

-----------------------------------------------------------------------------
(* The first state                                                          *)

(* The feed and the history of a file that is there or was deleted.         *)
LEMMA ListSeq ==
    /\ \A a : IsSeq(<<a>>) /\ DOMAIN <<a>> = {1} /\ Len(<<a>>) = 1 /\ <<a>>[1] = a
    /\ \A a, b : /\ IsSeq(<<a, b>>) /\ DOMAIN <<a, b>> = {1, 2} /\ Len(<<a, b>>) = 2
                 /\ <<a, b>>[1] = a /\ <<a, b>>[2] = b
  BY DEF IsSeq

LEMMA InitInv ==
    ASSUME Init
    PROVE  Shapes /\ Sends /\ ServerInv /\ DeliveryInv /\ WorkInv /\ CursorInv
  <1>1. PICK gone \in BOOLEAN :
          LET created == [rev |-> 1, body |-> {101}, kind |-> "updated"]
              deleted == [rev |-> 2, body |-> Absent, kind |-> "deleted"]
              writer(b) == [body |-> b, by |-> "other"]
          IN /\ remote = IF gone THEN NoFile ELSE [rev |-> 1, body |-> {101}]
             /\ history = IF gone THEN <<writer({101}), writer(Absent)>>
                                  ELSE <<writer({101})>>
             /\ log = IF gone THEN <<created, deleted>> ELSE <<created>>
             /\ f = IF gone THEN NewPath
                    ELSE [NewPath EXCEPT !.local = {101},
                            !.tracked = Clean(1, {101}, cfg.canWrite)]
    BY DEF Init
  <1>2. /\ IsSeq(history) /\ IsSeq(log) /\ Len(log) \in Nat /\ Len(log) # 0
        /\ 1 \in DOMAIN history /\ history[1].body = {101}
        /\ \A i \in DOMAIN log : \/ log[i].kind = "updated" /\ log[i].body = {101}
                                 \/ log[i].kind = "deleted"
    <2>1. CASE gone
      <3>1. PICK a, b : history = <<a, b>> /\ a.body = {101}
        BY <1>1, <2>1
      <3>2. PICK x, y : /\ log = <<x, y>> /\ x.kind = "updated" /\ x.body = {101}
                        /\ y.kind = "deleted"
        BY <1>1, <2>1
      <3> QED
        BY <3>1, <3>2, ListSeq
    <2>2. CASE ~gone
      <3>1. PICK a : history = <<a>> /\ a.body = {101}
        BY <1>1, <2>2
      <3>2. PICK x : log = <<x>> /\ x.kind = "updated" /\ x.body = {101}
        BY <1>1, <2>2
      <3> QED
        BY <3>1, <3>2, ListSeq
    <2> QED
      BY <2>1, <2>2
  <1>3. remote = NoFile \/ remote.body = {101}
    BY <1>1
  <1>4. /\ cyc = Idle /\ up = NoUpload /\ ws = NoSocket /\ outbox = {} /\ acked = {} /\ failed = {}
        /\ cursor = Len(log) /\ disk = savedState /\ lastEdit = Absent /\ cfg \in Configs
        /\ ops = [c \in 1..MaxCommands |-> [rev |-> 0, status |-> "free"]]
    BY DEF Init
  <1>5. Shapes
    <2>1. Has(Idle, CycleFields)
      BY IdleShapes
    <2> QED
      BY <1>2, <1>4, <2>1 DEF Shapes, Has, NoUpload, NoSocket
  <1>6. Sends
    BY <1>4 DEF Sends, Idle
  <1>7. ServerInv
    BY <1>2, <1>3, <1>4 DEF ServerInv, FromServer, OnServer, Idle, NoSocket
  <1>8. DeliveryInv
    <2>1. Records = {}
      BY <1>4 DEF Records, NoUpload, Idle
    <2>2. AnswerTrue(up) /\ AnswerTrue(cyc)
      BY <1>4 DEF AnswerTrue, NoUpload, Idle, NoAnswer
    <2>3. OpsShape /\ \A c \in 1..MaxCommands : ops[c].rev = 0 /\ ops[c].status = "free"
      BY <1>4 DEF OpsShape
    <2> QED
      BY <1>4, <2>1, <2>2, <2>3 DEF DeliveryInv, AckedDelivered
  <1>9. WorkInv
    <2>1. IsPath(NewPath) /\ ~NewPath.tracked.readOnly
      BY EntryShapes DEF IsPath, Has, NewPath, Untracked
    <2>2. PICK t : t = Clean(1, {101}, cfg.canWrite)
      OBVIOUS
    <2>3. Has(t, EntryFields) /\ (t.readOnly <=> ~cfg.canWrite)
      BY <2>2, EntryShapes, CleanIs
    <2>4. IsPath([NewPath EXCEPT !.local = {101}, !.tracked = t])
            /\ [NewPath EXCEPT !.local = {101}, !.tracked = t].tracked = t
      BY <2>1, <2>3 DEF IsPath, Has
    <2>5. IsPath(f) /\ (Writes => ~f.tracked.readOnly)
      BY <1>1, <2>1, <2>2, <2>3, <2>4 DEF Writes
    <2>6. disk.tracked = f.tracked
      BY <1>4 DEF savedState
    <2> QED
      BY <1>4, <2>5, <2>6 DEF WorkInv, IsPath
  <1>10. CursorInv
    <2>1. disk.cursor = Len(log)
      BY <1>4 DEF savedState
    <2>2. /\ cyc.last = 0 /\ cyc.pc = "idle" /\ ~cyc.didPoll
          /\ ws.pos = 0 /\ ~ws.on /\ ws.got = "none"
      BY <1>4 DEF Idle, NoSocket
    <2>3. ~ReconcileIn(disk.cursor, cursor)
      BY <1>2, <1>4, <2>1, NothingBetween DEF ReconcileIn
    <2> QED
      BY <1>2, <1>4, <2>1, <2>2, <2>3 DEF CursorInv
  <1> QED
    BY <1>5, <1>6, <1>7, <1>8, <1>9, <1>10

-----------------------------------------------------------------------------
(* The theorems                                                             *)

(* The inductive invariant.                                                 *)
SyncInv == Shapes /\ Sends /\ ServerInv /\ DeliveryInv /\ WorkInv /\ CursorInv

(* The invariant is inductive.                                              *)
LEMMA SyncInvStep ==
    ASSUME SyncInv, [Next]_vars
    PROVE  SyncInv'
  <1>1. cursor \in Nat /\ ws.pos \in Nat
    <2>1. Len(log) \in Nat
      BY SeqLength DEF SyncInv, Shapes
    <2> QED
      BY <2>1 DEF SyncInv, CursorInv
  <1> QED
    BY <1>1, ServerInvStep, SendsStep, DeliveryStep, WorkStep, CursorStep DEF SyncInv

LEMMA SyncInvariant == Spec => []SyncInv
  <1>1. Init => SyncInv
    BY InitInv DEF SyncInv
  <1>2. SyncInv /\ [Next]_vars => SyncInv'
    BY SyncInvStep
  <1> QED
    BY <1>1, <1>2, PTL DEF Spec

(* Whatever the three threads do, and wherever the daemon crashes, the      *)
(* newest save of an agent that may write is on disk, in a conflict         *)
(* artifact, in a pending or failed command, or with the server: the daemon *)
(* overwrites (applyRemoteFile, materializeConflict) and removes            *)
(* (applyRemoteDelete) only what it has put aside or uploaded.              *)
THEOREM LocalWorkAlwaysKept == Spec => []LocalWorkKept
  <1>1. SyncInv => LocalWorkKept
    BY DEF SyncInv, WorkInv, LocalWorkKept, Writes, SafeNow, Carried, Holds
  <1> QED
    BY <1>1, SyncInvariant, PTL

(* A command is moved to outbox/acked only with the server's word for it,   *)
(* or with its bytes found there.                                           *)
THEOREM AckedAlwaysDelivered == Spec => []AckedDelivered
  <1>1. SyncInv => AckedDelivered
    BY DEF SyncInv, DeliveryInv
  <1> QED
    BY <1>1, SyncInvariant, PTL

(* The steps that write the saved state.                                    *)
LEMMA SavingSteps ==
    ASSUME [Next]_vars
    PROVE  \/ UNCHANGED disk
           \/ savePrivateState
           \/ /\ EndCycle
              /\ \/ CycleSettle \/ CycleApply \/ CyclePushGone \/ CycleMissing \/ CycleNoPull
                 \/ CycleQuiet \/ CycleFastPath \/ CycleIncremental \/ CycleApplyRead
  <1>1. CASE Cycle
    BY <1>1 DEF Cycle, CycleStart, CycleSettle, CycleSend, CyclePost, CycleApply, CycleFlushed,
       CycleScan, CycleScanned, CyclePushGone, CyclePush, CycleMissing, CycleNoPull, CycleQuiet,
       CycleCursorExpired, CycleFastPath, CycleFullPull, CycleIncremental, CycleIncrementalRead,
       CycleRead, CycleApplyRead, CycleExport, CycleApplyExport, CycleSeedCursor, AfterIncremental
  <1>2. CASE ~Cycle
    BY <1>2 DEF Next, Agent, EditLocal, RemoveLocal, Server, RemoteWrite, RemoteDelete, Reconcile,
       OperationSettles, Watcher, HandleLocalGone, HandleLocalClean, HandleLocalWrite, WatcherPost,
       WatcherApply, Socket, connectWebSocket, ApplyInlineEvent, ReadEventFile, ApplyEventFile,
       ApplyDeletedEvent, ApplyReconcileEvent, SettleReceipt, handleWebSocketDisconnect,
       CircuitCloses, Crash, vars
  <1> QED
    BY <1>1, <1>2

(* A step that saves the state saves the cursor it leaves.                  *)
LEMMA SavesCursor ==
    ASSUME [Next]_vars, disk'.cursor # disk.cursor
    PROVE  /\ crashes < cfg.crashes
           /\ \/ disk'.cursor = cursor /\ disk'.force = force
              \/ /\ EndCycle /\ disk'.cursor = cursor' /\ disk'.force = force'
                 /\ \/ UNCHANGED <<cursor, force>>
                    \/ CycleFastPath \/ CycleIncremental \/ CycleApplyRead
  <1>1. CASE savePrivateState
    BY <1>1 DEF savePrivateState, savedState
  <1>2. CASE EndCycle
    <2>1. crashes < cfg.crashes /\ disk' = savedState'
      BY <1>2 DEF EndCycle
    <2>2. disk'.cursor = cursor' /\ disk'.force = force'
      BY <2>1 DEF savedState
    <2>3. disk' # disk
      OBVIOUS
    <2>4. \/ UNCHANGED <<cursor, force>>
          \/ CycleFastPath \/ CycleIncremental \/ CycleApplyRead
      BY <2>3, SavingSteps DEF savePrivateState, CycleSettle, CycleApply, CyclePushGone,
         CycleMissing, CycleNoPull, CycleQuiet, memory
    <2> QED
      BY <1>2, <2>1, <2>2, <2>4
  <1>3. CASE ~savePrivateState /\ ~EndCycle
    <2>1. UNCHANGED disk
      BY <1>3, SavingSteps
    <2> QED
      BY <2>1
  <1> QED
    BY <1>1, <1>2, <1>3

(* No save passes a reconcile event without the debt or the full pull that  *)
(* pays it (savePrivateState, PendingFullReconcile).                        *)
THEOREM ReconcileAlwaysRemembered == Spec => ReconcileRemembered
  <1>1. ASSUME SyncInv, [Next]_vars, disk.cursor # 0, disk'.cursor > disk.cursor,
               \E i \in (disk.cursor + 1)..disk'.cursor : log[i].kind = "reconcile"
        PROVE  disk'.force \/ cyc.didPoll
    <2>1. /\ crashes < cfg.crashes
          /\ \/ disk'.cursor = cursor /\ disk'.force = force
             \/ /\ EndCycle /\ disk'.cursor = cursor' /\ disk'.force = force'
                /\ \/ UNCHANGED <<cursor, force>>
                   \/ CycleFastPath \/ CycleIncremental \/ CycleApplyRead
      <3>1. Len(log) \in Nat
        BY <1>1, SeqLength DEF SyncInv, Shapes
      <3>2. disk.cursor \in Nat
        BY <1>1, <3>1 DEF SyncInv, CursorInv
      <3>3. disk'.cursor # disk.cursor
        BY <1>1, <3>2
      <3> QED
        BY <1>1, <3>3, SavesCursor
    <2>2. PICK k \in (disk.cursor + 1)..disk'.cursor : log[k].kind = "reconcile"
      BY <1>1
    <2>3. /\ Len(log) \in Nat /\ DOMAIN log = 1..Len(log)
          /\ cursor \in 0..Len(log) /\ disk.cursor \in 0..Len(log) /\ cyc.last \in 0..Len(log)
      BY <1>1, SeqLength DEF SyncInv, Shapes, CursorInv
    <2>4. cursor = 0 \/ ReconcileIn(disk.cursor, cursor) => force \/ cyc.didPoll
      BY <1>1, <2>1 DEF SyncInv, CursorInv
    <2>5. CASE disk'.cursor = cursor /\ (disk'.force = force)
      BY <2>2, <2>4, <2>5 DEF ReconcileIn
    <2>6. CASE CycleFastPath
      BY <2>4, <2>6 DEF CycleFastPath, Pulls
    <2>7. CASE CycleIncremental /\ EndCycle /\ disk'.cursor = cursor'
      <3>1. cursor' = Len(log) /\ ~force /\ ~cyc.didPoll /\ force' = AsksReconcile
        BY <2>3, <2>7 DEF CycleIncremental, Pulls, AfterIncremental, advanceEventCursor
      <3>2. AsksReconcile
        BY <2>2, <2>3, <2>4, <2>7, <3>1 DEF AsksReconcile, Missed, ReconcileIn
      <3>3. ~force'
        <4>1. CASE force'
          <5>1. cyc'.pc = "exporting"
            BY <1>1, <2>7, <4>1 DEF CycleIncremental, AfterIncremental, SyncInv, Shapes, Has, CycleFields
          <5> QED
            BY <2>7, <5>1 DEF EndCycle, Idle
        <4> QED
          BY <4>1
      <3> QED
        BY <3>1, <3>2, <3>3
    <2>8. CASE CycleApplyRead /\ disk'.cursor = cursor' /\ disk'.force = force'
      <3>1. UNCHANGED force /\ cyc.pc = "read"
        BY <2>8 DEF CycleApplyRead
      <3>2. cursor' = cursor \/ cursor' = cyc.last
        BY <2>8 DEF CycleApplyRead, AfterIncremental, advanceEventCursor
      <3>3. ReconcileIn(disk.cursor, cursor) \/ ReconcileIn(cursor, cyc.last)
        <4>1. CASE cursor' = cursor
          BY <2>2, <2>8, <4>1 DEF ReconcileIn
        <4>2. CASE cursor' = cyc.last
          <5>1. k \in (disk.cursor + 1)..cyc.last
            BY <2>2, <2>8, <4>2
          <5>2. k \in (disk.cursor + 1)..cursor \/ k \in (cursor + 1)..cyc.last
            BY <2>3, <5>1
          <5> QED
            BY <2>2, <5>2 DEF ReconcileIn
        <4> QED
          BY <3>2, <4>1, <4>2
      <3>4. ReconcileIn(cursor, cyc.last) => force
        BY <1>1, <3>1 DEF SyncInv, CursorInv
      <3> QED
        BY <2>4, <2>8, <3>1, <3>3, <3>4
    <2> QED
      BY <2>1, <2>5, <2>6, <2>7, <2>8
  <1>2. SyncInv /\ [Next]_vars =>
          [(/\ disk.cursor # 0 /\ disk'.cursor > disk.cursor
            /\ \E i \in (disk.cursor + 1)..disk'.cursor : log[i].kind = "reconcile")
           => disk'.force \/ cyc.didPoll]_vars
    BY <1>1
  <1> QED
    BY <1>2, SyncInvariant, PTL DEF Spec, ReconcileRemembered

=============================================================================
