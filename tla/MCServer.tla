----------------------------- MODULE MCServer -----------------------------
(* The situations in which the parts of the server are explored.            *)
EXTENDS Server

(* Merges: three editors of one small file.                                 *)
Edit(kind, target, own) == [kind |-> kind, target |-> target, own |-> own]

Edits(e) == LET order == SetToSeq(Editors) IN [c \in Editors |->
                e[CHOOSE i \in 1..Len(order) : order[i] = c]]

Faults == {[identity |-> TRUE, repeats |-> TRUE, expiry |-> FALSE, restarts |-> FALSE, deletes |-> FALSE],
           [identity |-> FALSE, repeats |-> FALSE, expiry |-> FALSE, restarts |-> TRUE, deletes |-> TRUE],
           [identity |-> TRUE, repeats |-> TRUE, expiry |-> TRUE, restarts |-> FALSE, deletes |-> FALSE]}

LineEdits ==
    {[strategy |-> "lines", content |-> content, edits |-> Edits(edits)] :
        content \in {<<"a", "b", "c">>, <<"a", "b", "a">>},
        edits \in {<<Edit("replace", "a", "x"), Edit("insert", "b", "y"), Edit("delete", "c", "z")>>,
                   <<Edit("insert", "a", "x"), Edit("delete", "a", "y"), Edit("replace", "b", "z")>>}}

GoFile(keys) == [parses |-> TRUE, prologue |-> "p",
                 funcs |-> [i \in DOMAIN keys |-> [key |-> keys[i], text |-> keys[i]]]]

GoEdits ==
    {[strategy |-> "go", content |-> GoFile(<<"f", "g">>), edits |-> Edits(edits)] :
        edits \in {<<Edit("replace", "f", "x"), Edit("insert", "f", "y"), Edit("delete", "g", "z")>>,
                   <<Edit("prologue", "f", "x"), Edit("insert", "f", "y"), Edit("insert", "g", "z")>>}}

MCMerges == {edits @@ faults : edits \in LineEdits \cup GoEdits, faults \in Faults}

(* Texts over two lines, for the line merge by itself.                      *)
MCTexts == UNION {[1..n -> {"a", "b"}] : n \in 0..3}

(* Files: 1 is a directory with its marker 2 and the files 3 and 4; 5 is    *)
(* outside of it.                                                           *)
MCDirs == 1 :> {2, 3, 4}

ReadGrant == [plain |-> FALSE, act |-> "manage", wild |-> FALSE, paths |-> {2, 3, 4, 5}]

MCReader == [agent |-> "r", workspace |-> "w", scopes |-> {ReadGrant}, tags |-> {}]

Deny == [effect |-> "deny", kind |-> "agent", value |-> "r"]
Allow == [effect |-> "allow", kind |-> "scope",
          value |-> [filesystem |-> TRUE, act |-> "*", wild |-> TRUE, paths |-> {}, tag |-> ""]]

MCRuleSets == {{}, {Deny}, {Allow}}

Plain == [rules |-> {}, seed |-> {}]

Request_(op, there, history, changing, paths, ifMatch) ==
    [op |-> op, files |-> there, history |-> history, changing |-> changing,
     paths |-> paths, ifMatch |-> ifMatch, maxExport |-> 3]

All == [p \in 2..5 |-> Plain]
Some == 3 :> [Plain EXCEPT !.rules = {Deny}] @@ 4 :> Plain @@ 5 :> Plain

MCRequests ==
    {Request_(op, there, <<>>, {2, 4}, <<>>, 0) : op \in {"query", "tree", "export"}, there \in {All, Some}}
    \cup {Request_(op, Some, <<4, 5>>, {2, 4}, <<>>, 0) : op \in {"asc", "desc"}}
    \cup {Request_("bulk_read", All, <<>>, {2, 3}, <<3, 5>>, 0)}
    \cup {Request_("bulk_write", All, <<>>, {2, 3}, <<3, 5>>, ifMatch) : ifMatch \in {-1, 1}}
    \cup {Request_(op, All, <<>>, {2, 3}, <<3>>, ifMatch) :
            op \in {"read_file", "write_file", "delete_file"}, ifMatch \in {-1, 0, 1}}
=============================================================================
