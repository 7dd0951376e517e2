-------------------------- MODULE AccessControl --------------------------
(***************************************************************************)
(* Who may do what to a file (internal/httpapi/auth.go, acl.go): the        *)
(* scopes of a token and the permission rules kept with files and           *)
(* directories.  A path pattern is the set of paths that it matches.        *)
(*                                                                          *)
(*   scope  [plain, act, wild, paths]   plain: the two-word "fs:read" form  *)
(*   rule   [effect, kind, value]       kind "tag": an entry that is not a  *)
(*                                      rule (parsePermissionRule = nil)    *)
(*   claims [agent, workspace, scopes, tags]                                *)
(***************************************************************************)
EXTENDS Naturals, FiniteSets

scopeActionMatches(granted, required) ==
    \/ granted = required
    \/ granted = "*"
    \/ granted = "manage" /\ required \in {"read", "write"}

(* A plain grant covers every path only for a token that has no grant of     *)
(* that action for certain paths (pathScopeForRequired, scopeMatchesPath).   *)
scopeMatchesPath(scopes, action, path) ==
    LET pathGrants == {s \in scopes : ~s.plain /\ scopeActionMatches(s.act, action)}
    IN  \/ \E s \in pathGrants : s.wild \/ path \in s.paths
        \/ pathGrants = {} /\ \E s \in scopes : s.plain /\ s.act = action

(* A scope rule speaks of the rule's own action and paths, and holds for a   *)
(* token whose grants cover the request.                                     *)
aclScopeRuleMatches(value, claims, action, path) ==
    IF ~value.filesystem THEN value.tag \in claims.tags
    ELSE /\ scopeActionMatches(value.act, action)
         /\ value.wild \/ path \in value.paths
         /\ scopeMatchesPath(claims.scopes, action, path)

ruleMatches(rule, claims, action, path) ==
    CASE rule.kind = "public" -> TRUE
      [] rule.kind = "scope" -> aclScopeRuleMatches(rule.value, claims, action, path)
      [] rule.kind = "agent" -> claims.agent = rule.value
      [] rule.kind = "workspace" -> claims.workspace = rule.value

(* A deny that matches wins; otherwise some rule must allow, unless there is *)
(* no rule at all.                                                           *)
filePermissionAllows(permissions, claims, action, path) ==
    LET rules == {r \in permissions : r.kind # "tag"}
        matching == {r \in rules : ruleMatches(r, claims, action, path)}
    IN  /\ \A r \in matching : r.effect = "allow"
        /\ matching # {} \/ rules = {}
=============================================================================
