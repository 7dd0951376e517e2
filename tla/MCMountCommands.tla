-------------------------- MODULE MCMountCommands --------------------------
(* Who runs what, for the parts of the mount commands.                      *)
EXTENDS MountCommands, TLC

CONSTANTS p1, p2, p3, p4, p5, u1, u2, u3

Roles(s) == p1 :> s[1] @@ p2 :> s[2] @@ p3 :> s[3] @@ p4 :> s[4] @@ p5 :> s[5]

(* Two launchers and a standalone mount; two flush requests across a         *)
(* takeover; a foreground mount, a launcher and a stop; both kinds of mount  *)
(* with a flush request and a stop.                                         *)
MCSituations == {Roles(s) : s \in {
    <<"launcher", "child", "launcher", "child", "binary">>,
    <<"binary", "notify", "notify", "binary", "none">>,
    <<"mount", "launcher", "child", "stop", "none">>,
    <<"mount", "binary", "notify", "stop", "none">>}}

MCPrograms == {u1 :> s[1] @@ u2 :> s[2] @@ u3 :> s[3] : s \in {
    <<"cli", "cli", "mount">>, <<"cli", "cloud", "cloud">>, <<"cloud", "cloud", "logout">>}}

(* Writers of one file, also beside looks at its attributes; creates; an     *)
(* unlink beside a writer and beside listings; lookups.                     *)
MCUses == {{"open", "trunc", "flush", "release"}, {"open", "flush", "stat"},
           {"create", "flush"}, {"open", "flush", "unlink"},
           {"readdir", "unlink"}, {"lookup"}}
=============================================================================
