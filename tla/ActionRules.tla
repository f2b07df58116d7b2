------------------------------ MODULE ActionRules ------------------------------
(***************************************************************************)
(* The rules by which an agent's door may act outside the container        *)
(* (crates/oc-protocol/src/action.rs): whether the arguments of one        *)
(* execution lie within a rule, and whether a delegated rule is no broader *)
(* than its parent.                                                        *)
(*                                                                         *)
(* Names (remote, branch, host, secret reference) are compared for         *)
(* equality only and are opaque.  A path is its nonempty components,       *)
(* whether it starts with a slash, and whether an empty component was      *)
(* dropped from it; its characters and length are left out.  A refusal is  *)
(* its variant without the name of the constraint.                         *)
(***************************************************************************)
EXTENDS Integers, Sequences

CONSTANTS
  Name,           \* remotes, branches, hosts and secret references
  Part,           \* path components
  Dots,           \* those of them that are "." or ".."
  Method,         \* HTTP methods
  NoSecret,       \* an absent secret reference
  MAX_BODY_LEN,   \* longest body of a request
  MAX_USES        \* largest limit on executions

ASSUME ActionAssumption ==
  Dots \subseteq Part /\ MAX_BODY_LEN \in Nat /\ MAX_USES \in Nat /\ NoSecret \notin Name

Kinds == {"GitPush", "TreeRemove", "TreeRename", "HttpRequest"}

Path == [rooted : BOOLEAN, doubled : BOOLEAN, parts : Seq(Part)]

Constraint ==
       [kind : {"GitPush"}, remote : Name, branch : Name]
  \cup [kind : {"TreeRemove"}, prefix : Path]
  \cup [kind : {"TreeRename"}, from_prefix : Path, to_prefix : Path]
  \cup [kind : {"HttpRequest"}, host : Name, methods : SUBSET Method,
        path_prefix : Path, secret_ref : Name \cup {NoSecret}]

\* max_uses = 0 means that there is no limit.
ActionRule ==
  [kind : Kinds, constraint : Constraint, max_uses : 0 .. MAX_USES,
   confirm : BOOLEAN, delegable : BOOLEAN]

Args ==
       [kind : {"GitPush"}, remote : Name, branch : Name]
  \cup [kind : {"TreeRemove"}, path : Path]
  \cup [kind : {"TreeRename"}, from : Path, to : Path]
  \cup [kind : {"HttpRequest"}, host : Name, method : Method, path : Path, body_len : Nat]

-------------------------------------------------------------------------------
(* Paths. *)

check_path_parts(path) ==
  ~path.doubled /\ \A i \in DOMAIN path.parts : path.parts[i] \notin Dots

check_tree_path(path) ==
  path.parts # <<>> /\ ~path.rooted /\ check_path_parts(path)

\* "/" alone is the root: everything lies under it.
check_http_path(path) == path.rooted /\ check_path_parts(path)

\* By whole components, and equality counts as under.
path_under(prefix, path) ==
  /\ Len(prefix.parts) <= Len(path.parts)
  /\ \A i \in 1 .. Len(prefix.parts) : path.parts[i] = prefix.parts[i]

-------------------------------------------------------------------------------
(* The shape every parsed rule has. *)

check_constraint_shape(limit) ==
  \/ limit.kind = "GitPush"
  \/ limit.kind = "TreeRemove" /\ check_tree_path(limit.prefix)
  \/ /\ limit.kind = "TreeRename"
     /\ check_tree_path(limit.from_prefix) /\ check_tree_path(limit.to_prefix)
  \/ /\ limit.kind = "HttpRequest"
     /\ limit.methods # {} /\ check_http_path(limit.path_prefix)

check_rule_shape(rule) ==
  rule.kind = rule.constraint.kind /\ check_constraint_shape(rule.constraint)

-------------------------------------------------------------------------------
(* Arguments against a rule. *)

\* The shape is looked at before the prefix: "src/../.." starts with "src".
under_tree_prefix(prefix, path) ==
  IF ~check_tree_path(path) \/ ~check_tree_path(prefix) THEN "BadPath"
  ELSE IF path_under(prefix, path) THEN "Ok" ELSE "OutsidePrefix"

GitWithin(limit, args) ==
  IF limit.remote = args.remote /\ limit.branch = args.branch THEN "Ok" ELSE "NotEqual"

RenameWithin(limit, args) ==
  IF under_tree_prefix(limit.from_prefix, args.from) # "Ok"
  THEN under_tree_prefix(limit.from_prefix, args.from)
  ELSE under_tree_prefix(limit.to_prefix, args.to)

HttpWithin(limit, args) ==
  IF limit.host # args.host                            THEN "NotEqual"
  ELSE IF args.method \notin limit.methods             THEN "MethodNotAllowed"
  ELSE IF ~check_http_path(args.path) \/ ~check_http_path(limit.path_prefix)
                                                       THEN "BadPath"
  ELSE IF ~path_under(limit.path_prefix, args.path)    THEN "OutsidePrefix"
  ELSE IF args.body_len > MAX_BODY_LEN                 THEN "BodyTooLarge"
  ELSE "Ok"

args_within(rule, args) ==
  IF rule.kind # args.kind \/ rule.constraint.kind # args.kind THEN "WrongKind"
  ELSE IF args.kind = "GitPush"    THEN GitWithin(rule.constraint, args)
  ELSE IF args.kind = "TreeRemove" THEN under_tree_prefix(rule.constraint.prefix, args.path)
  ELSE IF args.kind = "TreeRename" THEN RenameWithin(rule.constraint, args)
  ELSE HttpWithin(rule.constraint, args)

-------------------------------------------------------------------------------
(* A delegated rule against its parent. *)

\* Faulty: compared as numbers, so that "no limit" is below every limit.
uses_within_numeric(child, parent) == parent = 0 \/ child <= parent

uses_within(child, parent) == parent = 0 \/ (child # 0 /\ child <= parent)

narrower_prefix(parent, child) == IF path_under(parent, child) THEN "Ok" ELSE "WiderLimiter"

GitNarrower(child, parent) ==
  IF child.remote = parent.remote /\ child.branch = parent.branch
  THEN "Ok" ELSE "WiderLimiter"

RenameNarrower(child, parent) ==
  IF narrower_prefix(parent.from_prefix, child.from_prefix) # "Ok" THEN "WiderLimiter"
  ELSE narrower_prefix(parent.to_prefix, child.to_prefix)

\* A secret reference may be dropped, never changed or added.
HttpNarrower(child, parent) ==
  IF child.host # parent.host                                       THEN "WiderLimiter"
  ELSE IF ~(child.methods \subseteq parent.methods)                 THEN "WiderLimiter"
  ELSE IF ~path_under(parent.path_prefix, child.path_prefix)        THEN "WiderLimiter"
  ELSE IF child.secret_ref \notin {NoSecret, parent.secret_ref}     THEN "SecretRefChanged"
  ELSE "Ok"

LimitNarrower(child, parent) ==
  IF child.kind # parent.kind        THEN "WrongKind"
  ELSE IF child.kind = "GitPush"     THEN GitNarrower(child, parent)
  ELSE IF child.kind = "TreeRemove"  THEN narrower_prefix(parent.prefix, child.prefix)
  ELSE IF child.kind = "TreeRename"  THEN RenameNarrower(child, parent)
  ELSE HttpNarrower(child, parent)

\* The owner's live word is for one door: it is asked about before delegable.
narrower(child, parent) ==
  IF child.kind # parent.kind                             THEN "WrongKind"
  ELSE IF parent.confirm                                  THEN "ConfirmNotDelegable"
  ELSE IF ~parent.delegable                               THEN "NotDelegable"
  ELSE IF ~uses_within(child.max_uses, parent.max_uses)   THEN "MoreUses"
  ELSE LimitNarrower(child.constraint, parent.constraint)

===============================================================================
