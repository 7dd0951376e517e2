------------------------- MODULE MergeAlgorithms -------------------------
(***************************************************************************)
(* The two three-way merges that MergeFile chooses between: by lines       *)
(* (merge_lines.go) and by top-level Go functions (merge_go.go).  A text   *)
(* is a sequence of lines; a Go file is a prologue and a sequence of       *)
(* functions, each a key and a body.                                       *)
(***************************************************************************)
EXTENDS Integers, SequencesExt

CONSTANTS
    MaxMergeDiffLines,  \* maxMergeDiffLines, the longest text that is diffed
    InitKey,            \* the key of func init()
    NoText              \* "this file has no function with that key"

ASSUME MergeBounds == MaxMergeDiffLines \in Nat

Merged(content) == [outcome |-> "merged", content |-> content]

MergeFails(outcome) == [outcome |-> outcome, content |-> <<>>]

-----------------------------------------------------------------------------
(* Lines.  An alignment is the set of pairs <<i, j>> of matched lines.       *)

lcsSuffixes(base, other) ==
    LET dp[ij \in (1..Len(base) + 1) \X (1..Len(other) + 1)] ==
            LET i == ij[1]
                j == ij[2]
            IN  IF i > Len(base) \/ j > Len(other) THEN 0
                ELSE IF base[i] = other[j] THEN dp[<<i + 1, j + 1>>] + 1
                ELSE Max({dp[<<i + 1, j>>], dp[<<i, j + 1>>]})
    IN  dp

lcsPrefixes(base, other) ==
    LET dp[ij \in (0..Len(base)) \X (0..Len(other))] ==
            LET i == ij[1]
                j == ij[2]
            IN  IF i = 0 \/ j = 0 THEN 0
                ELSE IF base[i] = other[j] THEN dp[<<i - 1, j - 1>>] + 1
                ELSE Max({dp[<<i - 1, j>>], dp[<<i, j - 1>>]})
    IN  dp

(* On a tie the walk skips a line of the other text, so that the earliest    *)
(* line of the base keeps its match.                                         *)
lcsMatchPreferFirst(base, other) ==
    LET dp == lcsSuffixes(base, other)
        walk[ij \in (1..Len(base) + 1) \X (1..Len(other) + 1)] ==
            LET i == ij[1]
                j == ij[2]
            IN  IF i > Len(base) \/ j > Len(other) THEN {}
                ELSE IF base[i] = other[j] THEN {<<i, j>>} \cup walk[<<i + 1, j + 1>>]
                ELSE IF dp[<<i + 1, j>>] > dp[<<i, j + 1>>] THEN walk[<<i + 1, j>>]
                ELSE walk[<<i, j + 1>>]
    IN  walk[<<1, 1>>]

(* The mirror image, from the ends.                                          *)
lcsMatchPreferLast(base, other) ==
    LET dp == lcsPrefixes(base, other)
        walk[ij \in (0..Len(base)) \X (0..Len(other))] ==
            LET i == ij[1]
                j == ij[2]
            IN  IF i = 0 \/ j = 0 THEN {}
                ELSE IF base[i] = other[j] THEN {<<i, j>>} \cup walk[<<i - 1, j - 1>>]
                ELSE IF dp[<<i - 1, j>>] > dp[<<i, j - 1>>] THEN walk[<<i - 1, j>>]
                ELSE walk[<<i, j - 1>>]
    IN  walk[<<Len(base), Len(other)>>]

(* What one side does to the base: base[start .. end - 1] becomes lines.  A  *)
(* hunk lies between two neighbouring matches (or an end of the texts).      *)
lineChangesFromAlignment(base, other, match, side) ==
    LET anchors == match \cup {<<0, 0>>, <<Len(base) + 1, Len(other) + 1>>}
        next(a) == CHOOSE b \in anchors :
                        b[1] > a[1] /\ \A c \in anchors : c[1] > a[1] => b[1] <= c[1]
        hunk(a, b) == [side |-> side, start |-> a[1] + 1, end |-> b[1],
                       lines |-> SubSeq(other, a[2] + 1, b[2] - 1)]
    IN  {h \in {hunk(a, next(a)) : a \in {c \in anchors : c[1] <= Len(base)}} :
            h.start # h.end \/ h.lines # <<>>}

lineChangesOverlap(first, second) ==
    LET inserts(h) == h.start = h.end
        touches(h, g) == h.start >= g.start /\ h.start <= g.end
    IN  CASE inserts(first) /\ inserts(second) -> first.start = second.start
          [] inserts(first) /\ ~inserts(second) -> touches(first, second)
          [] ~inserts(first) /\ inserts(second) -> touches(second, first)
          [] OTHER -> first.start < second.end /\ second.start < first.end

(* The hunks of both sides that a hunk is connected to by overlaps.          *)
overlappingChangeComponent(hunks, hunk) ==
    LET grow[n \in 0..Cardinality(hunks)] ==
            IF n = 0 THEN {hunk}
            ELSE grow[n - 1] \cup
                    {h \in hunks : \E g \in grow[n - 1] :
                        h.side # g.side /\ lineChangesOverlap(h, g)}
    IN  grow[Cardinality(hunks)]

componentStart(group) == Min({h.start : h \in group})

componentEnd(group) == Max({h.end : h \in group})

renderChangeComponent(base, start, end, group) ==
    LET step(acc, h) == [out |-> acc.out \o SubSeq(base, acc.at, h.start - 1) \o h.lines,
                         at |-> h.end]
        ordered == SetToSortSeq(group, LAMBDA g, h : g.start < h.start)
        done == FoldLeft(step, [out |-> <<>>, at |-> start], ordered)
    IN  done.out \o SubSeq(base, done.at, end - 1)

(* One component at a time, from the front; a component that both sides      *)
(* changed differently is a conflict, and then nothing is written.           *)
mergeWithAlignment(base, mineChanges, theirsChanges) ==
    LET hunks == mineChanges \cup theirsChanges
        components == {overlappingChangeComponent(hunks, h) : h \in hunks}
        ordered == SetToSortSeq(components,
                        LAMBDA a, b : \/ componentStart(a) < componentStart(b)
                                      \/ /\ componentStart(a) = componentStart(b)
                                         /\ componentEnd(a) < componentEnd(b))
        resolve(acc, group) ==
            LET start == componentStart(group)
                end == componentEnd(group)
                was == SubSeq(base, start, end - 1)
                mine == renderChangeComponent(base, start, end,
                            {h \in group : h.side = "mine"})
                theirs == renderChangeComponent(base, start, end,
                            {h \in group : h.side = "theirs"})
            IN  [out |-> acc.out \o SubSeq(base, acc.at, start - 1)
                            \o (IF mine = was THEN theirs ELSE mine),
                 at |-> end,
                 clean |-> acc.clean /\ (mine = theirs \/ mine = was \/ theirs = was)]
        done == FoldLeft(resolve, [out |-> <<>>, at |-> 1, clean |-> TRUE], ordered)
    IN  IF done.clean
        THEN Merged(done.out \o SubSeq(base, done.at, Len(base)))
        ELSE MergeFails("conflict")

(* A merge that trusts the first alignment it finds.                         *)
AlignmentTrusted(base, other) == TRUE

(* Repeated lines can be aligned in more than one way; unless the earliest   *)
(* and the latest alignment agree the merge does not guess.                  *)
AlignmentUnambiguous(base, other) ==
    lcsMatchPreferFirst(base, other) = lcsMatchPreferLast(base, other)

linesThreeWayMerge(base, mine, theirs) ==
    CASE \E text \in {base, mine, theirs} : Len(text) > MaxMergeDiffLines ->
            MergeFails("ineligible")
      [] mine = theirs \/ theirs = base -> Merged(mine)
      [] mine = base -> Merged(theirs)
      [] ~AlignmentUnambiguous(base, mine) \/ ~AlignmentUnambiguous(base, theirs) ->
            MergeFails("conflict")
      [] OTHER ->
            mergeWithAlignment(base,
                lineChangesFromAlignment(base, mine, lcsMatchPreferFirst(base, mine), "mine"),
                lineChangesFromAlignment(base, theirs, lcsMatchPreferFirst(base, theirs), "theirs"))

-----------------------------------------------------------------------------
(* Go functions.  A file that goExtractUnits cannot take apart (it does not  *)
(* parse, a declaration follows a function, a key occurs twice) has          *)
(* parses = FALSE.                                                           *)

funcByKey(file, key) ==
    LET at == SelectInSeq(file.funcs, LAMBDA f : f.key = key)
    IN  IF at = 0 THEN NoText ELSE file.funcs[at].text

goConflict(key, b, m, t) ==
    CASE t # NoText /\ m = NoText -> b # NoText /\ t # b
      [] t # NoText /\ m # NoText /\ b = NoText -> m # t
      [] t # NoText /\ m # NoText /\ b # NoText ->
            m # t /\ IF key = InitKey THEN m # b \/ t # b ELSE m # b /\ t # b
      [] t = NoText /\ m # NoText -> b # NoText /\ m # b
      [] OTHER -> FALSE

goResolve(b, m, t) ==
    CASE t # NoText /\ m = NoText -> IF b = NoText THEN t ELSE NoText
      [] t # NoText /\ m # NoText -> IF b # NoText /\ m # b THEN m ELSE t
      [] OTHER -> IF b = NoText THEN m ELSE NoText

(* The result follows the order of the live file; functions that only mine   *)
(* has are appended.                                                         *)
goThreeWayMerge(base, mine, theirs) ==
    LET keys(file) == {file.funcs[i].key : i \in DOMAIN file.funcs}
        b(key) == funcByKey(base, key)
        m(key) == funcByKey(mine, key)
        t(key) == funcByKey(theirs, key)
        ordered == theirs.funcs \o SelectSeq(mine.funcs, LAMBDA f : f.key \notin keys(theirs))
        resolved == [i \in DOMAIN ordered |->
                        LET key == ordered[i].key
                        IN  [key |-> key, text |-> goResolve(b(key), m(key), t(key))]]
        prologueConflict == /\ mine.prologue # base.prologue
                            /\ theirs.prologue # base.prologue
                            /\ mine.prologue # theirs.prologue
    IN  IF \/ prologueConflict
           \/ \E key \in keys(mine) \cup keys(theirs) : goConflict(key, b(key), m(key), t(key))
        THEN MergeFails("conflict")
        ELSE Merged([parses |-> TRUE,
                     prologue |-> IF mine.prologue # base.prologue
                                  THEN mine.prologue ELSE theirs.prologue,
                     funcs |-> SelectSeq(resolved, LAMBDA f : f.text # NoText)])
=============================================================================
