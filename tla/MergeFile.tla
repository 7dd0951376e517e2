---------------------------- MODULE MergeFile ----------------------------
(***************************************************************************)
(* Store.MergeFile: the server-side three-way merge of a stale write.  The  *)
(* live file is read under the read lock, merged outside of any lock, and   *)
(* committed under the write lock if its revision has not moved; otherwise  *)
(* the merge is computed again.  Clients write conditionally first, merge   *)
(* when the write is stale, and send a request again when no answer came.   *)
(*                                                                          *)
(* One file; every client makes one edit of what it last read.             *)
(***************************************************************************)
EXTENDS MergeAlgorithms

CONSTANTS
    Editors,                  \* the clients
    NoFile,
    MaxMergeCommitAttempts,   \* maxMergeCommitAttempts
    MaxProvenance,            \* maxRevisionProvenancePerPath
    MergeConfigs              \* the situations explored, see MergeInit

VARIABLES
    situation,   \* the situation: strategy, initial content, edits, faults
    live,        \* the file: [rev, content] or NoFile
    ledger,      \* revisionProvenance: revision -> content hash, newest last
    mergeOps,    \* operations with a content identity (the editor)
    editor,      \* editor -> [pc, base]
    handler,     \* <<editor, n>> -> the n-th request of the editor's merge
    applied,     \* history: editors whose edit reached the file
    input        \* three texts for the line merge itself

mergeVars == <<situation, live, ledger, mergeOps, editor, handler, applied, input>>

Slots == {1, 2}

Idle == [pc |-> "none", attempt |-> 0, snap |-> NoFile]

-----------------------------------------------------------------------------
(* Edits.  [kind, target, own]: an editor replaces, deletes or precedes the  *)
(* target of what it read with its own line (function body).                 *)

EditLines(text, edit) ==
    LET at == SelectInSeq(text, LAMBDA line : line = edit.target)
    IN  IF at = 0 THEN text
        ELSE CASE edit.kind = "replace" -> ReplaceAt(text, at, edit.own)
               [] edit.kind = "insert" -> InsertAt(text, at, edit.own)
               [] edit.kind = "delete" -> RemoveAt(text, at)

EditGo(file, edit) ==
    LET at == SelectInSeq(file.funcs, LAMBDA f : f.key = edit.target)
    IN  CASE edit.kind = "insert" ->
                [file EXCEPT !.funcs = Append(@, [key |-> edit.own, text |-> edit.own])]
          [] edit.kind = "prologue" -> [file EXCEPT !.prologue = edit.own]
          [] at = 0 -> file
          [] edit.kind = "replace" /\ at # 0 -> [file EXCEPT !.funcs[at].text = edit.own]
          [] edit.kind = "delete" /\ at # 0 -> [file EXCEPT !.funcs = RemoveAt(@, at)]

EditOf(c, content) ==
    IF situation.strategy = "lines" THEN EditLines(content, situation.edits[c])
    ELSE EditGo(content, situation.edits[c])

(* What an editor sends: its edit of its last-synced content.                *)
Mine(c) == EditOf(c, editor[c].base.content)

mergeContents(base, mine, theirs) ==
    IF situation.strategy = "lines" THEN linesThreeWayMerge(base, mine, theirs)
    ELSE IF ~(base.parses /\ mine.parses /\ theirs.parses) THEN MergeFails("ineligible")
    ELSE goThreeWayMerge(base, mine, theirs)

-----------------------------------------------------------------------------
NextRev == Max({0} \cup {ledger[i].rev : i \in DOMAIN ledger}
                   \cup (IF live = NoFile THEN {} ELSE {live.rev})
                   \cup {op.rev : op \in mergeOps}) + 1

recordRevisionProvenanceLocked(entry) ==
    LET all == Append(ledger, entry)
    IN  ledger' = IF Len(all) > MaxProvenance
                  THEN SubSeq(all, Len(all) - MaxProvenance + 1, Len(all)) ELSE all

(* Every write of the file: content, revision and provenance together.       *)
Store(content, c) ==
    /\ live' = [rev |-> NextRev, content |-> content]
    /\ recordRevisionProvenanceLocked([rev |-> NextRev, content |-> content, deleted |-> FALSE])
    /\ applied' = applied \cup {c}

lookupRevisionProvenanceLocked(rev) == {i \in DOMAIN ledger : ledger[i].rev = rev}

(* A request that finds the merge already done answers with that operation;  *)
(* a request without a content identity cannot.                              *)
findExistingMergeOpLocked(c) ==
    situation.identity /\ \E op \in mergeOps : op.identity = c /\ ~op.expired

-----------------------------------------------------------------------------
MergeInit ==
    /\ situation \in MergeConfigs
    /\ live = [rev |-> 1, content |-> situation.content]
    /\ ledger = <<[rev |-> 1, content |-> situation.content, deleted |-> FALSE]>>
    /\ mergeOps = {}
    /\ editor = [c \in Editors |-> [pc |-> "start", base |-> NoFile]]
    /\ handler = [h \in Editors \X Slots |-> Idle]
    /\ applied = {}

(* The editor syncs and, if it finds what it wants to change, edits.         *)
ReadBase(c) ==
    /\ editor[c].pc = "start"
    /\ c \in DOMAIN situation.edits
    /\ live # NoFile
    /\ EditOf(c, live.content) # live.content
    /\ editor' = [editor EXCEPT ![c] = [pc |-> "edited", base |-> live]]
    /\ UNCHANGED <<situation, live, ledger, mergeOps, handler, applied, input>>

(* The conditional write that precedes every merge: it succeeds when nobody  *)
(* wrote since, and the merge is asked for when it is stale.                 *)
WriteBase(c) ==
    /\ editor[c].pc = "edited"
    /\ IF live # NoFile /\ live.rev = editor[c].base.rev
       THEN /\ Store(Mine(c), c)
            /\ editor' = [editor EXCEPT ![c].pc = "done"]
       ELSE /\ editor' = [editor EXCEPT ![c].pc = "stale"]
            /\ UNCHANGED <<live, ledger, applied>>
    /\ UNCHANGED <<situation, mergeOps, handler, input>>

RequestMerge(c) ==
    /\ editor[c].pc = "stale"
    /\ handler[<<c, 1>>].pc = "none"
    /\ handler' = [handler EXCEPT ![<<c, 1>>].pc = "snapshot"]
    /\ editor' = [editor EXCEPT ![c].pc = "waiting"]
    /\ UNCHANGED <<situation, live, ledger, mergeOps, applied, input>>

(* No answer in time: the same request again, while the first may be alive.  *)
RepeatMerge(c) ==
    /\ editor[c].pc = "waiting"
    /\ handler[<<c, 2>>].pc = "none"
    /\ situation.repeats
    /\ handler' = [handler EXCEPT ![<<c, 2>>].pc = "snapshot"]
    /\ UNCHANGED <<situation, live, ledger, mergeOps, editor, applied, input>>

Answered(c, n, answer) ==
    /\ handler' = [handler EXCEPT ![<<c, n>>] = [Idle EXCEPT !.pc = "over"]]
    /\ editor' = [editor EXCEPT ![c].pc = answer]

(* Under the read lock: the operation if there is one, the live file and     *)
(* the recorded hash of the base.                                            *)
MergeSnapshot(c, n) ==
    LET known == lookupRevisionProvenanceLocked(editor[c].base.rev)
    IN  /\ handler[<<c, n>>].pc = "snapshot"
        /\ CASE findExistingMergeOpLocked(c) -> Answered(c, n, "done")
             [] ~findExistingMergeOpLocked(c)
                /\ (\/ known = {}
                    \/ \E i \in known : ledger[i].deleted
                                        \/ ledger[i].content # editor[c].base.content
                    \/ live = NoFile) -> Answered(c, n, "refused")
             [] OTHER ->
                /\ handler' = [handler EXCEPT ![<<c, n>>].pc = "merge",
                                              ![<<c, n>>].snap = live]
                /\ UNCHANGED editor
        /\ UNCHANGED <<situation, live, ledger, mergeOps, applied, input>>

(* commitMergeResult under the write lock, or another attempt.               *)
CommitBlindly(h) == live # NoFile

CommitHolds(h) == live # NoFile /\ live.rev = h.snap.rev

commitMergeResult(c, n) ==
    LET h == handler[<<c, n>>]
        result == mergeContents(editor[c].base.content, Mine(c), h.snap.content)
    IN  /\ h.pc = "merge"
        /\ CASE result.outcome # "merged" ->
                    /\ Answered(c, n, "refused")
                    /\ UNCHANGED <<live, ledger, mergeOps, applied>>
             [] result.outcome = "merged" /\ CommitHolds(h) ->
                    /\ Store(result.content, c)
                    /\ mergeOps' = mergeOps \cup
                            {[identity |-> c, rev |-> NextRev, expired |-> FALSE]}
                    /\ Answered(c, n, "done")
             [] OTHER ->
                    /\ IF h.attempt + 1 < MaxMergeCommitAttempts
                       THEN /\ handler' = [handler EXCEPT ![<<c, n>>] =
                                    [pc |-> "snapshot", attempt |-> h.attempt + 1, snap |-> NoFile]]
                            /\ UNCHANGED editor
                       ELSE Answered(c, n, "refused")
                    /\ UNCHANGED <<live, ledger, mergeOps, applied>>
        /\ UNCHANGED <<situation, input>>

(* The content identity's TTL runs out.                                      *)
ExpireIdentity(c) ==
    /\ situation.expiry
    /\ \E op \in mergeOps :
        /\ op.identity = c /\ ~op.expired
        /\ mergeOps' = (mergeOps \ {op}) \cup {[op EXCEPT !.expired = TRUE]}
    /\ UNCHANGED <<situation, live, ledger, editor, handler, applied, input>>

(* The process restarts: requests die and the provenance, which is kept in   *)
(* memory only, is gone.                                                     *)
RestartStore ==
    /\ situation.restarts
    /\ ledger # <<>>
    /\ ledger' = <<>>
    /\ handler' = [h \in Editors \X Slots |->
                    IF handler[h].pc \in {"none", "over"} THEN handler[h]
                    ELSE [Idle EXCEPT !.pc = "over"]]
    /\ UNCHANGED <<situation, live, mergeOps, editor, applied, input>>

(* Somebody deletes the file.                                                *)
DeleteMerged ==
    /\ situation.deletes
    /\ live # NoFile
    /\ live' = NoFile
    /\ recordRevisionProvenanceLocked([rev |-> NextRev, content |-> <<>>, deleted |-> TRUE])
    /\ UNCHANGED <<situation, mergeOps, editor, handler, applied, input>>

MergeNext ==
    \/ \E c \in Editors :
        \/ ReadBase(c) \/ WriteBase(c) \/ RequestMerge(c) \/ RepeatMerge(c)
        \/ ExpireIdentity(c)
        \/ \E n \in Slots : MergeSnapshot(c, n) \/ commitMergeResult(c, n)
    \/ RestartStore \/ DeleteMerged

-----------------------------------------------------------------------------
LineCount(text, line) == Cardinality({i \in DOMAIN text : text[i] = line})

EditsOf(S) == {situation.edits[c] : c \in S}

Removed(S, line) == {e \in EditsOf(S) : e.kind \in {"replace", "delete"} /\ e.target = line}

LinesKept ==
    /\ \A e \in EditsOf(applied) :
        e.kind # "delete" => LineCount(live.content, e.own) = 1
    /\ \A line \in Range(situation.content) :
        LET gone == LineCount(situation.content, line) - LineCount(live.content, line)
        IN  /\ gone <= Cardinality(Removed(applied, line))
            /\ Removed(applied, line) # {} => gone >= 1

FunctionsKept ==
    /\ \A e \in EditsOf(applied) :
        CASE e.kind = "prologue" -> live.content.prologue = e.own
          [] e.kind = "insert" -> funcByKey(live.content, e.own) = e.own
          [] e.kind = "replace" -> funcByKey(live.content, e.target) = e.own
          [] e.kind = "delete" -> funcByKey(live.content, e.target) = NoText
    /\ \A i \in DOMAIN situation.content.funcs :
        LET f == situation.content.funcs[i]
        IN  Removed(applied, f.key) = {} => funcByKey(live.content, f.key) = f.text

(* Every edit that the store has accepted, by a conditional write or by a    *)
(* merge, is in the live file exactly once, and what nobody edited is        *)
(* untouched: merges computed outside the lock, retried after a race or sent *)
(* twice lose and repeat nothing.                                            *)
EditsSurvive ==
    live # NoFile =>
        IF situation.strategy = "lines" THEN LinesKept ELSE FunctionsKept

-----------------------------------------------------------------------------
(* linesThreeWayMerge by itself, on every small input.  A clean merge keeps   *)
(* every line that either side added and brings back none that both removed, *)
(* the number of every other line lies between what the two sides asked for; *)
(* and it does not matter whose request was first.                           *)
LineMergeSound ==
    LET base == input[1]
        mine == input[2]
        theirs == input[3]
        result == linesThreeWayMerge(base, mine, theirs)
        delta(text, line) == LineCount(text, line) - LineCount(base, line)
    IN  /\ result = linesThreeWayMerge(base, theirs, mine)
        /\ result.outcome = "merged" =>
            \A line \in Range(base) \cup Range(mine) \cup Range(theirs) :
                LET dm == delta(mine, line)
                    dt == delta(theirs, line)
                    dr == delta(result.content, line)
                IN  /\ dr >= Min({dm, dt, dm + dt})
                    /\ dr <= Max({dm, dt, dm + dt})
                    /\ dm > 0 /\ dt > 0 => dr >= Max({dm, dt})
                    /\ dm < 0 /\ dt < 0 => dr <= Min({dm, dt})
                    /\ line \notin Range(base) => dr >= Max({dm, dt})
=============================================================================
