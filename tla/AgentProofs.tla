------------------------------ MODULE AgentProofs ------------------------------
(***************************************************************************)
(* Agents and what they may do.  Of DelegationChain and ActionRules: a     *)
(* chain never hands on more than its root.  Of ActionDoor: uses are       *)
(* counted along the chain and the owner stays in control, for every set   *)
(* of doors, rules and requests, every order of messages and every bound.  *)
(***************************************************************************)
EXTENDS DelegationChain, ActionDoor, FiniteSetTheorems, TLAPS

-------------------------------------------------------------------------------
(* Paths and rules. *)

\* path_under is transitive: a prefix of a prefix is a prefix.
LEMMA UnderTransitive ==
  ASSUME NEW p \in Path, NEW q \in Path, NEW r \in Path,
         path_under(p, q), path_under(q, r)
  PROVE  path_under(p, r)
<1>1. Len(p.parts) \in Nat /\ Len(q.parts) \in Nat /\ Len(r.parts) \in Nat
  BY DEF Path
<1>2. Len(p.parts) <= Len(r.parts)
  BY <1>1 DEF path_under
<1>3. \A i \in 1 .. Len(p.parts) : r.parts[i] = p.parts[i]
  BY <1>1 DEF path_under
<1> QED BY <1>2, <1>3 DEF path_under

\* The fields a constraint has by its kind.
LEMMA ConstraintFields ==
  ASSUME NEW c \in Constraint
  PROVE  /\ c.kind \in Kinds
         /\ c.kind = "TreeRemove" => c.prefix \in Path
         /\ c.kind = "TreeRename" => c.from_prefix \in Path /\ c.to_prefix \in Path
         /\ c.kind = "HttpRequest" => c.path_prefix \in Path
BY DEF Constraint, Kinds

\* The fields the arguments of an execution have by their kind.
LEMMA ArgsFields ==
  ASSUME NEW a \in Args
  PROVE  /\ a.kind \in Kinds
         /\ a.kind = "TreeRemove" => a.path \in Path
         /\ a.kind = "TreeRename" => a.from \in Path /\ a.to \in Path
         /\ a.kind = "HttpRequest" => a.path \in Path
BY DEF Args, Kinds

\* under_tree_prefix of action.rs accepts under a parent's prefix what it
\* accepts under a child's.
LEMMA UnderWiderPrefix ==
  ASSUME NEW parent \in Path, NEW child \in Path, NEW path \in Path,
         check_tree_path(parent), path_under(parent, child),
         under_tree_prefix(child, path) = "Ok"
  PROVE  under_tree_prefix(parent, path) = "Ok"
<1>1. check_tree_path(path) /\ path_under(child, path)
  BY DEF under_tree_prefix
<1>2. path_under(parent, path)
  BY <1>1, UnderTransitive
<1> QED BY <1>1, <1>2 DEF under_tree_prefix

\* What narrower has checked when it says Ok.
LEMMA NarrowerChecks ==
  ASSUME NEW child, NEW parent, narrower(child, parent) = "Ok"
  PROVE  /\ child.kind = parent.kind /\ ~parent.confirm /\ parent.delegable
         /\ uses_within(child.max_uses, parent.max_uses)
         /\ LimitNarrower(child.constraint, parent.constraint) = "Ok"
BY DEF narrower

\* A rule that narrower accepts permits no execution its parent does not:
\* args_within of the child implies args_within of the parent.
THEOREM NarrowerNeverWidens ==
  ASSUME NEW child \in ActionRule, NEW parent \in ActionRule, NEW args \in Args,
         check_rule_shape(parent), narrower(child, parent) = "Ok",
         args_within(child, args) = "Ok"
  PROVE  args_within(parent, args) = "Ok"
<1> DEFINE c == child.constraint
           p == parent.constraint
<1>1. c \in Constraint /\ p \in Constraint
  BY DEF ActionRule
<1>2. /\ child.kind = parent.kind /\ LimitNarrower(c, p) = "Ok"
      /\ parent.kind = p.kind /\ check_constraint_shape(p)
  BY NarrowerChecks DEF check_rule_shape
<1>3. child.kind = args.kind /\ c.kind = args.kind
  BY DEF args_within
<1>4. p.kind = args.kind /\ parent.kind = args.kind
  BY <1>2, <1>3
<1>5. CASE args.kind = "GitPush"
  <2>1. GitNarrower(c, p) = "Ok" /\ GitWithin(c, args) = "Ok"
    BY <1>2, <1>3, <1>4, <1>5 DEF LimitNarrower, args_within
  <2>2. GitWithin(p, args) = "Ok"
    BY <2>1 DEF GitNarrower, GitWithin
  <2> QED BY <2>2, <1>4, <1>5 DEF args_within
<1>6. CASE args.kind = "TreeRemove"
  <2>1. narrower_prefix(p.prefix, c.prefix) = "Ok" /\ under_tree_prefix(c.prefix, args.path) = "Ok"
    BY <1>2, <1>3, <1>4, <1>6 DEF LimitNarrower, args_within
  <2>2. check_tree_path(p.prefix) /\ path_under(p.prefix, c.prefix)
    BY <2>1, <1>2, <1>4, <1>6 DEF check_constraint_shape, narrower_prefix
  <2>3. p.prefix \in Path /\ c.prefix \in Path /\ args.path \in Path
    BY <1>1, <1>3, <1>4, <1>6, ConstraintFields, ArgsFields
  <2>4. under_tree_prefix(p.prefix, args.path) = "Ok"
    BY <2>1, <2>2, <2>3, UnderWiderPrefix
  <2> QED BY <2>4, <1>4, <1>6 DEF args_within
<1>7. CASE args.kind = "TreeRename"
  <2>1. RenameNarrower(c, p) = "Ok" /\ RenameWithin(c, args) = "Ok"
    BY <1>2, <1>3, <1>4, <1>7 DEF LimitNarrower, args_within
  <2>2. /\ path_under(p.from_prefix, c.from_prefix)
        /\ path_under(p.to_prefix, c.to_prefix)
    BY <2>1 DEF RenameNarrower, narrower_prefix
  <2>3. /\ under_tree_prefix(c.from_prefix, args.from) = "Ok"
        /\ under_tree_prefix(c.to_prefix, args.to) = "Ok"
    BY <2>1 DEF RenameWithin
  <2>4. check_tree_path(p.from_prefix) /\ check_tree_path(p.to_prefix)
    BY <1>2, <1>4, <1>7 DEF check_constraint_shape
  <2>5. /\ p.from_prefix \in Path /\ c.from_prefix \in Path /\ args.from \in Path
        /\ p.to_prefix \in Path /\ c.to_prefix \in Path /\ args.to \in Path
    BY <1>1, <1>3, <1>4, <1>7, ConstraintFields, ArgsFields
  <2>6. under_tree_prefix(p.from_prefix, args.from) = "Ok"
    BY <2>2, <2>3, <2>4, <2>5, UnderWiderPrefix
  <2>7. under_tree_prefix(p.to_prefix, args.to) = "Ok"
    BY <2>2, <2>3, <2>4, <2>5, UnderWiderPrefix
  <2> QED BY <2>6, <2>7, <1>4, <1>7 DEF args_within, RenameWithin
<1>8. CASE args.kind = "HttpRequest"
  <2>1. HttpNarrower(c, p) = "Ok" /\ HttpWithin(c, args) = "Ok"
    BY <1>2, <1>3, <1>4, <1>8 DEF LimitNarrower, args_within
  <2>2. /\ c.host = p.host /\ c.methods \subseteq p.methods
        /\ path_under(p.path_prefix, c.path_prefix)
    BY <2>1 DEF HttpNarrower
  <2>3. /\ c.host = args.host /\ args.method \in c.methods
        /\ check_http_path(args.path) /\ path_under(c.path_prefix, args.path)
        /\ ~(args.body_len > MAX_BODY_LEN)
    BY <2>1 DEF HttpWithin
  <2>4. check_http_path(p.path_prefix)
    BY <1>2, <1>4, <1>8 DEF check_constraint_shape
  <2>5. p.path_prefix \in Path /\ c.path_prefix \in Path /\ args.path \in Path
    BY <1>1, <1>3, <1>4, <1>8, ConstraintFields, ArgsFields
  <2>6. path_under(p.path_prefix, args.path)
    BY <2>2, <2>3, <2>5, UnderTransitive
  <2>7. HttpWithin(p, args) = "Ok"
    BY <2>2, <2>3, <2>4, <2>6 DEF HttpWithin
  <2> QED BY <2>7, <1>4, <1>8 DEF args_within
<1> QED BY <1>5, <1>6, <1>7, <1>8, ArgsFields DEF Kinds

-------------------------------------------------------------------------------
(* The walk. *)

\* What the checks already made leave true of the documents: a decoded grant
\* has its shape, and so has every rule in hand; the first holder has the
\* author's rules.
Checked ==
  /\ stage \in {"actions", "links", "accepted"} =>
       grant.max_depth <= MAX_GRANT_DEPTH /\ now <= grant.expires_at
  /\ Granting => RulesShape(facts.actions) /\ RulesShape(root_actions)
  /\ Granting /\ taken = 0 => facts.actions = root_actions
  /\ ~Granting /\ stage # "refused" => taken = 0

ChainInv == TypeOK /\ NeverBeyondTheRoot /\ ActionsNeverWiden /\ Checked

\* The types of the documents.
LEMMA DocumentTypes ==
  /\ \A g \in Grants : g \in GrantDocs
  /\ \A l \in Links : l \in LinkDocs
  /\ \A a \in ActionGrants : a \in ActionDocs /\ a # Absent
BY ChainAssumption

\* What LinkRefusal has checked when it says Ok.
LEMMA LinkChecks ==
  ASSUME NEW link, LinkRefusal(link) = "Ok"
  PROVE  /\ decode_delegation(link, facts.holder_verify)
         /\ link.grant_id = facts.grant_id /\ link.parent_fpr = facts.holder_fpr
         /\ ~DepthExhausted(link)
         /\ link.entries \subseteq facts.files
         /\ ~(link.expires_at > facts.expires_at) /\ ~(now > link.expires_at)
         /\ narrow_actions(facts.actions, ChildActions(link)) = "Ok"
BY DEF LinkRefusal, WrongParent

\* narrow_actions says Ok only if every child rule narrows a parent rule.
LEMMA NarrowActionsOk ==
  ASSUME NEW parents, NEW children, narrow_actions(parents, children) = "Ok"
  PROVE  \A i \in DOMAIN children : Narrows(children[i], parents)
BY DEF narrow_actions

\* The rules of the root and of a child are sequences of rules.
LEMMA RuleTypes ==
  ASSUME TypeOK
  PROVE  /\ root_actions \in Seq(ActionRule)
         /\ \A link \in Links : ChildActions(link) \in Seq(ActionRule)
<1>1. root_actions \in Seq(ActionRule)
  BY DocumentTypes DEF TypeOK, root_actions, ActionDocs
<1>2. \A link \in Links : ChildActions(link) \in Seq(ActionRule)
  BY DocumentTypes DEF ChildActions, LinkDocs
<1> QED BY <1>1, <1>2

\* A document's tightening is at most one policy.
LEMMA TightenedType ==
  /\ \A g \in Grants : Tightened(g) \in Seq(Nat)
  /\ \A l \in Links : Tightened(l) \in Seq(Nat)
<1>1. ASSUME NEW g \in Grants PROVE Tightened(g) \in Seq(Nat)
  <2>1. g.tightening \in Nat \cup {Absent}
    BY DocumentTypes DEF GrantDocs
  <2> QED BY <2>1 DEF Tightened
<1>2. ASSUME NEW l \in Links PROVE Tightened(l) \in Seq(Nat)
  <2>1. l.tightening \in Nat \cup {Absent}
    BY DocumentTypes DEF LinkDocs
  <2> QED BY <2>1 DEF Tightened
<1> QED BY <1>1, <1>2

\* Init of the walk satisfies the invariant.
LEMMA InitEstablishes == Init => ChainInv
BY DEF Init, ChainInv, TypeOK, NeverBeyondTheRoot, ActionsNeverWiden, Checked, Granting

\* What a Refuse step leaves alone.
LEMMA RefuseKeeps ==
  ASSUME NEW why, Refuse(why), ChainInv
  PROVE  ChainInv'
BY DEF Refuse, ChainInv, TypeOK, NeverBeyondTheRoot, ActionsNeverWiden, Checked, Granting,
       arguments

\* The facts of the next holder are facts.
LEMMA NextFactsType ==
  ASSUME TypeOK, stage = "links", NEW link \in Links
  PROVE  NextFacts(link) \in ChainFacts
<1>1. facts \in ChainFacts
  BY DEF TypeOK, Granting
<1>2. link \in LinkDocs
  BY DocumentTypes
<1>3. facts.tightening \o Tightened(link) \in Seq(Nat)
  BY <1>1, TightenedType DEF ChainFacts
<1> QED BY <1>1, <1>2, <1>3, RuleTypes DEF NextFacts, ChainFacts, LinkDocs

\* Every step of the walk keeps the types.
LEMMA TypeStep == TypeOK /\ [Next]_vars => TypeOK'
<1> SUFFICES ASSUME TypeOK, [Next]_vars PROVE TypeOK'
  OBVIOUS
<1>1. CASE CheckActionGrant
  <2>1. RootFacts \in ChainFacts
    BY RuleTypes, TightenedType, DocumentTypes DEF RootFacts, ChainFacts, TypeOK, GrantDocs
  <2> QED BY <1>1, <2>1 DEF CheckActionGrant, TypeOK, arguments, Granting
<1>2. CASE \E link \in Links : TakeLink(link)
  <2>1. PICK link \in Links : TakeLink(link)
    BY <1>2
  <2>2. NextFacts(link) \in ChainFacts
    BY <2>1, NextFactsType DEF TakeLink
  <2> QED BY <2>1, <2>2 DEF TakeLink, TypeOK, arguments, Granting
<1>3. CASE CheckGrant
  BY <1>3 DEF CheckGrant, TypeOK, arguments, Granting
<1>4. CASE Accept
  BY <1>4 DEF Accept, TypeOK, arguments, Granting
<1>5. CASE \E why : Refuse(why)
  BY <1>5 DEF Refuse, TypeOK, arguments, Granting
<1>6. CASE UNCHANGED vars
  BY <1>6 DEF vars, TypeOK, Granting
<1> QED
  BY <1>1, <1>2, <1>3, <1>4, <1>5, <1>6 DEF Next, RefuseGrant, RefuseActionGrant, RefuseLink

\* A link that is taken stays within the bounds of the root.
LEMMA LinkWithinRoot ==
  ASSUME ChainInv, NEW link \in Links, TakeLink(link)
  PROVE  NeverBeyondTheRoot'
<1>1. /\ facts \in ChainFacts /\ link \in LinkDocs /\ grant \in GrantDocs
      /\ taken \in Nat /\ now \in Int /\ MAX_GRANT_DEPTH \in Nat
  BY DocumentTypes, ChainAssumption DEF ChainInv, TypeOK, Granting, TakeLink
<1>2. /\ facts.grant_id = grant.grant_id /\ facts.files \subseteq grant.entries
      /\ facts.expires_at <= grant.expires_at
      /\ facts.depth_left + taken <= grant.max_depth
      /\ grant.max_depth <= MAX_GRANT_DEPTH
  BY DEF ChainInv, NeverBeyondTheRoot, Checked, Granting, TakeLink
<1>3. /\ link.entries \subseteq facts.files
      /\ ~(link.expires_at > facts.expires_at) /\ ~(now > link.expires_at)
      /\ ~DepthExhausted(link)
  BY LinkChecks DEF TakeLink
<1>4. /\ facts'.grant_id = facts.grant_id /\ facts'.files = link.entries
      /\ facts'.expires_at = link.expires_at /\ facts'.depth_left = link.depth
      /\ taken' = taken + 1 /\ now' = now /\ grant' = grant
  BY DEF TakeLink, NextFacts, arguments
<1>5. link.expires_at \in Int /\ facts.expires_at \in Int /\ grant.expires_at \in Int
  BY <1>1 DEF ChainFacts, LinkDocs, GrantDocs
<1>6. link.depth \in Nat /\ facts.depth_left \in Nat /\ grant.max_depth \in Nat
  BY <1>1 DEF ChainFacts, LinkDocs, GrantDocs
<1>7. link.depth < facts.depth_left
  BY <1>3, <1>6 DEF DepthExhausted
<1>8. link.depth + (taken + 1) <= grant.max_depth /\ taken + 1 <= MAX_GRANT_DEPTH
  BY <1>1, <1>2, <1>6, <1>7
<1>9. now <= link.expires_at /\ link.expires_at <= grant.expires_at
  BY <1>1, <1>2, <1>3, <1>5
<1> QED BY <1>2, <1>3, <1>4, <1>8, <1>9 DEF NeverBeyondTheRoot

\* A rule that narrows a covered rule is covered by the same root rule.
LEMMA CoverPassesOn ==
  ASSUME NEW root \in ActionRule, NEW parent \in ActionRule, NEW child \in ActionRule,
         check_rule_shape(parent), check_rule_shape(child), check_rule_shape(root),
         narrower(child, parent) = "Ok",
         parent = root \/ (Covers(root, parent) /\ root.delegable /\ ~root.confirm)
  PROVE  /\ \A args \in Requests :
              args_within(child, args) = "Ok" => args_within(root, args) = "Ok"
         /\ root.max_uses = 0 \/ child.max_uses \in 1 .. root.max_uses
         /\ child.kind = "HttpRequest" =>
              child.constraint.secret_ref \in {NoSecret, root.constraint.secret_ref}
         /\ root.delegable /\ ~root.confirm
<1>1. ASSUME NEW args \in Requests, args_within(child, args) = "Ok"
      PROVE  args_within(root, args) = "Ok"
  <2>1. args \in Args
    BY ChainAssumption
  <2>2. args_within(parent, args) = "Ok"
    BY <1>1, <2>1, NarrowerNeverWidens
  <2> QED BY <2>2 DEF Covers
<1>2. root.max_uses = 0 \/ child.max_uses \in 1 .. root.max_uses
  <2>1. uses_within(child.max_uses, parent.max_uses)
    BY NarrowerChecks
  <2>2. child.max_uses \in Nat /\ parent.max_uses \in Nat /\ root.max_uses \in Nat
    BY ActionAssumption DEF ActionRule
  <2>3. root.max_uses = 0 \/ parent.max_uses = root.max_uses \/ parent.max_uses \in 1 .. root.max_uses
    BY DEF Covers
  <2> QED BY <2>1, <2>2, <2>3 DEF uses_within
<1>3. ASSUME child.kind = "HttpRequest"
      PROVE  child.constraint.secret_ref \in {NoSecret, root.constraint.secret_ref}
  <2>1. parent.kind = "HttpRequest" /\ LimitNarrower(child.constraint, parent.constraint) = "Ok"
    BY <1>3, NarrowerChecks
  <2>2. child.constraint.kind = "HttpRequest" /\ parent.constraint.kind = "HttpRequest"
    BY <1>3, <2>1 DEF check_rule_shape
  <2>3. HttpNarrower(child.constraint, parent.constraint) = "Ok"
    BY <2>1, <2>2 DEF LimitNarrower
  <2>4. child.constraint.secret_ref \in {NoSecret, parent.constraint.secret_ref}
    BY <2>3 DEF HttpNarrower
  <2>5. parent.constraint.secret_ref \in {NoSecret, root.constraint.secret_ref}
    BY <2>1 DEF Covers
  <2> QED BY <2>4, <2>5
<1>4. root.delegable /\ ~root.confirm
  BY NarrowerChecks
<1> QED BY <1>1, <1>2, <1>3, <1>4

\* The rules of the next holder are covered by the author's.
LEMMA LinkActionsCovered ==
  ASSUME ChainInv, NEW link \in Links, TakeLink(link)
  PROVE  ActionsNeverWiden'
<1> DEFINE new == ChildActions(link)
           old == facts.actions
<1>1. /\ new \in Seq(ActionRule) /\ old \in Seq(ActionRule)
      /\ root_actions \in Seq(ActionRule) /\ taken \in Nat
  BY RuleTypes DEF ChainInv, TypeOK, Granting, TakeLink, ChainFacts
<1>2. RulesShape(old) /\ RulesShape(root_actions)
  BY DEF ChainInv, Checked, Granting, TakeLink
<1>3. RulesShape(new)
  <2>1. RulesShape(link.actions)
    BY LinkChecks DEF TakeLink, decode_delegation, check_delegation_shape
  <2>2. RulesShape(<<>>)
    BY ChainAssumption DEF RulesShape
  <2> QED BY <2>1, <2>2 DEF ChildActions
<1>4. \A i \in DOMAIN new : Narrows(new[i], old)
  BY LinkChecks, NarrowActionsOk DEF TakeLink
<1>5. facts'.actions = new /\ taken' = taken + 1 /\ root_actions' = root_actions
  BY DEF TakeLink, NextFacts, root_actions, arguments
<1>6. ASSUME NEW i \in DOMAIN new
      PROVE  \E j \in DOMAIN root_actions : Covers(root_actions[j], new[i])'
  <2>1. PICK k \in DOMAIN old : narrower(new[i], old[k]) = "Ok"
    BY <1>4 DEF Narrows
  <2>2. PICK j \in DOMAIN root_actions :
          \/ old[k] = root_actions[j]
          \/ /\ Covers(root_actions[j], old[k])
             /\ root_actions[j].delegable /\ ~root_actions[j].confirm
    <3>1. CASE taken = 0
      BY <3>1 DEF ChainInv, Checked, Granting, TakeLink
    <3>2. CASE taken # 0
      BY <1>1, <3>2 DEF ChainInv, ActionsNeverWiden, Granting, TakeLink, Covers
    <3> QED BY <3>1, <3>2
  <2>3. /\ root_actions[j] \in ActionRule /\ old[k] \in ActionRule /\ new[i] \in ActionRule
        /\ check_rule_shape(old[k]) /\ check_rule_shape(new[i]) /\ check_rule_shape(root_actions[j])
    BY <1>1, <1>2, <1>3 DEF RulesShape
  <2>4. /\ \A args \in Requests :
              args_within(new[i], args) = "Ok" => args_within(root_actions[j], args) = "Ok"
        /\ root_actions[j].max_uses = 0 \/ new[i].max_uses \in 1 .. root_actions[j].max_uses
        /\ new[i].kind = "HttpRequest" =>
             new[i].constraint.secret_ref \in {NoSecret, root_actions[j].constraint.secret_ref}
        /\ root_actions[j].delegable /\ ~root_actions[j].confirm
    BY <2>1, <2>2, <2>3, CoverPassesOn
  <2>5. new[i]' = new[i]
    BY DEF TakeLink, arguments, ChildActions
  <2>6. Covers(root_actions[j], new[i])'
    BY <2>4, <2>5, <1>5 DEF Covers
  <2> QED BY <2>6, <1>5
<1>7. new' = new
  BY DEF TakeLink, arguments, ChildActions
<1>8. \A i \in DOMAIN new' : \E j \in DOMAIN root_actions' : Covers(root_actions[j], new[i])'
  BY <1>5, <1>6, <1>7
<1> QED BY <1>5, <1>7, <1>8 DEF ActionsNeverWiden

\* The author's own rights are within the author's rights.
LEMMA RootWithinRoot ==
  ASSUME ChainInv, CheckActionGrant
  PROVE  NeverBeyondTheRoot' /\ ActionsNeverWiden' /\ Checked'
<1>1. grant \in GrantDocs /\ now \in Int /\ MAX_GRANT_DEPTH \in Nat /\ taken = 0
  BY DocumentTypes, ChainAssumption DEF ChainInv, TypeOK, Checked, CheckActionGrant, Granting
<1>2. grant.max_depth <= MAX_GRANT_DEPTH /\ now <= grant.expires_at
  BY DEF ChainInv, Checked, CheckActionGrant
<1>3. /\ facts' = RootFacts /\ stage' = "links" /\ taken' = 0
      /\ grant' = grant /\ now' = now /\ action_grant' = action_grant
  BY <1>1 DEF CheckActionGrant, arguments
<1>4. root_actions' = root_actions /\ facts'.actions = root_actions
  BY <1>3 DEF root_actions, RootFacts
<1>5. RulesShape(root_actions) /\ root_actions \in Seq(ActionRule)
  <2>1. CASE action_grant = Absent
    BY <2>1, ChainAssumption DEF RulesShape, root_actions
  <2>2. CASE action_grant # Absent
    <3>1. decode_action_grant(action_grant, AuthorKey)
      BY <2>2 DEF CheckActionGrant, ActionsRefusal
    <3> QED BY <3>1, <2>2, RuleTypes DEF decode_action_grant, root_actions, ChainInv
  <2> QED BY <2>1, <2>2
<1>6. NeverBeyondTheRoot'
  <2>1. grant.max_depth \in Nat /\ grant.expires_at \in Int
    BY <1>1 DEF GrantDocs
  <2> QED BY <1>1, <1>2, <1>3, <2>1 DEF NeverBeyondTheRoot, RootFacts
<1>7. ActionsNeverWiden'
  <2> SUFFICES ASSUME NEW i \in DOMAIN root_actions
               PROVE  Covers(root_actions[i], root_actions[i])'
    BY <1>4 DEF ActionsNeverWiden
  <2>1. root_actions[i] \in ActionRule
    BY <1>5
  <2>2. root_actions[i].max_uses \in Nat
    BY <2>1, ActionAssumption DEF ActionRule
  <2> QED BY <1>3, <1>4, <2>2 DEF Covers
<1>8. Checked'
  BY <1>2, <1>3, <1>4, <1>5 DEF Checked, Granting, RulesShape
<1> QED BY <1>6, <1>7, <1>8

\* Every step of the walk keeps the invariant.
LEMMA ChainStep == ChainInv /\ [Next]_vars => ChainInv'
<1> SUFFICES ASSUME ChainInv, [Next]_vars PROVE ChainInv'
  OBVIOUS
<1>1. TypeOK'
  BY TypeStep DEF ChainInv
<1>2. CASE CheckGrant
  <2>1. grant.max_depth <= MAX_GRANT_DEPTH /\ ~(now > grant.expires_at)
    BY <1>2 DEF CheckGrant, GrantRefusal, decode_grant, check_grant_shape
  <2>2. now \in Int /\ grant.expires_at \in Int
    BY DocumentTypes, ChainAssumption DEF ChainInv, TypeOK, GrantDocs
  <2> QED
    BY <1>1, <1>2, <2>1, <2>2
    DEF CheckGrant, ChainInv, NeverBeyondTheRoot, ActionsNeverWiden, Checked, Granting, arguments
<1>3. CASE CheckActionGrant
  BY <1>1, <1>3, RootWithinRoot DEF ChainInv
<1>4. CASE \E link \in Links : TakeLink(link)
  <2>1. PICK link \in Links : TakeLink(link)
    BY <1>4
  <2>2. RulesShape(ChildActions(link))
    <3>1. RulesShape(link.actions)
      BY <2>1, LinkChecks DEF TakeLink, decode_delegation, check_delegation_shape
    <3>2. RulesShape(<<>>)
      BY ChainAssumption DEF RulesShape
    <3> QED BY <3>1, <3>2 DEF ChildActions
  <2>3. Checked'
    <3>1. taken \in Nat
      BY DEF ChainInv, TypeOK
    <3>2. /\ stage = "links" /\ stage' = "links" /\ facts'.actions = ChildActions(link)
          /\ taken' = taken + 1 /\ grant' = grant /\ now' = now /\ root_actions' = root_actions
      BY <2>1 DEF TakeLink, NextFacts, arguments, root_actions
    <3> QED BY <2>2, <3>1, <3>2 DEF ChainInv, Checked, Granting, RulesShape
  <2> QED BY <1>1, <2>1, <2>3, LinkWithinRoot, LinkActionsCovered DEF ChainInv
<1>5. CASE Accept
  BY <1>1, <1>5
  DEF Accept, ChainInv, NeverBeyondTheRoot, ActionsNeverWiden, Checked, Granting, arguments,
      Covers, root_actions
<1>6. CASE \E why : Refuse(why)
  BY <1>6, RefuseKeeps
<1>7. CASE UNCHANGED vars
  BY <1>1, <1>7
  DEF vars, ChainInv, NeverBeyondTheRoot, ActionsNeverWiden, Checked, Granting, Covers, root_actions
<1> QED
  BY <1>2, <1>3, <1>4, <1>5, <1>6, <1>7 DEF Next, RefuseGrant, RefuseActionGrant, RefuseLink

\* The invariant of the walk.
LEMMA Invariance == Spec => []ChainInv
<1>1. Init => ChainInv
  BY InitEstablishes
<1>2. ChainInv /\ [Next]_vars => ChainInv'
  BY ChainStep
<1> QED BY <1>1, <1>2, PTL DEF Spec

\* The variables of verify_grant_chain_with_actions keep their types.
THEOREM TypeCorrect == Spec => []TypeOK
<1>1. ChainInv => TypeOK
  BY DEF ChainInv
<1> QED BY <1>1, Invariance, PTL

\* Files, lifetime and depth at the end of every accepted chain are within the
\* author's grant, for all documents, signers and clocks.
THEOREM RootBounds == Spec => []NeverBeyondTheRoot
<1>1. ChainInv => NeverBeyondTheRoot
  BY DEF ChainInv
<1> QED BY <1>1, Invariance, PTL

\* Every rule at the end of every accepted chain is covered by one rule of the
\* author's: executions, uses, secret, delegable and confirm.
THEOREM RulesBounded == Spec => []ActionsNeverWiden
<1>1. ChainInv => ActionsNeverWiden
  BY DEF ChainInv
<1> QED BY <1>1, Invariance, PTL

-------------------------------------------------------------------------------
(* The walk implements Attenuation. *)

\* The author's rights are rights.
LEMMA AuthorRightsType ==
  ASSUME TypeOK PROVE AuthorRights \in Rights
<1>1. grant \in GrantDocs /\ Tightened(grant) \in Seq(Nat)
  BY DocumentTypes, TightenedType DEF TypeOK
<1>2. {Tightened(grant)[i] : i \in DOMAIN Tightened(grant)} \subseteq Nat
  BY <1>1
<1>3. {args \in Requests : Permits(root_actions, args)} \subseteq Args
  BY ChainAssumption
<1> QED BY <1>1, <1>2, <1>3 DEF AuthorRights, Rights, GrantDocs

\* A holder's rights are rights.
LEMMA HolderRightsType == TypeOK /\ Granting => HolderRights \in Rights
<1> SUFFICES ASSUME TypeOK, Granting PROVE HolderRights \in Rights
  OBVIOUS
<1>1. facts \in ChainFacts
  BY DEF TypeOK
<1>2. {facts.tightening[i] : i \in DOMAIN facts.tightening} \subseteq Nat
  BY <1>1 DEF ChainFacts
<1>3. {args \in Requests : Permits(facts.actions, args)} \subseteq Args
  BY ChainAssumption
<1>4. stage # "refused"
  BY DEF Granting
<1> QED BY <1>1, <1>2, <1>3, <1>4 DEF HolderRights, Rights, ChainFacts

\* A rule list each of whose rules narrows a rule of another permits no more.
LEMMA PermitsLess ==
  ASSUME NEW old \in Seq(ActionRule), NEW new \in Seq(ActionRule), RulesShape(old),
         \A i \in DOMAIN new : Narrows(new[i], old),
         NEW args \in Requests, Permits(new, args)
  PROVE  Permits(old, args)
<1>1. PICK i \in DOMAIN new : args_within(new[i], args) = "Ok"
  BY DEF Permits
<1>2. PICK k \in DOMAIN old : narrower(new[i], old[k]) = "Ok"
  BY DEF Narrows
<1>3. new[i] \in ActionRule /\ old[k] \in ActionRule /\ check_rule_shape(old[k]) /\ args \in Args
  BY ChainAssumption DEF RulesShape
<1>4. args_within(old[k], args) = "Ok"
  BY <1>1, <1>2, <1>3, NarrowerNeverWidens
<1> QED BY <1>4 DEF Permits

\* A link hands on less than its holder has.
LEMMA LinkHandsOn ==
  ASSUME ChainInv, NEW link \in Links, TakeLink(link)
  PROVE  Abstract!HandOn
<1>1. TypeOK /\ Granting /\ TypeOK' /\ Granting'
  BY TypeStep DEF ChainInv, Next, TakeLink, Granting
<1>2. HolderRights \notin {Absent, Void} /\ HolderRights' \notin {Absent, Void}
  <2>1. HolderRights \in Rights
    BY <1>1, HolderRightsType
  <2>2. (TypeOK /\ Granting => HolderRights \in Rights)'
    BY HolderRightsType, PTL
  <2> QED BY <1>1, <2>1, <2>2, ChainAssumption
<1>3. /\ facts \in ChainFacts /\ link \in LinkDocs /\ facts' = NextFacts(link)
      /\ decode_delegation(link, facts.holder_verify)
      /\ link.grant_id = facts.grant_id /\ link.parent_fpr = facts.holder_fpr
      /\ ~DepthExhausted(link)
      /\ link.entries \subseteq facts.files
      /\ ~(link.expires_at > facts.expires_at)
      /\ narrow_actions(facts.actions, ChildActions(link)) = "Ok"
  BY <1>1, DocumentTypes, LinkChecks DEF TakeLink, TypeOK
<1>4. HolderRights =
        [grant |-> facts.grant_id, key |-> facts.holder_verify, fpr |-> facts.holder_fpr,
         files |-> facts.files, until |-> facts.expires_at, depth |-> facts.depth_left,
         may |-> {args \in Requests : Permits(facts.actions, args)},
         limits |-> {facts.tightening[i] : i \in DOMAIN facts.tightening}]
  BY <1>1 DEF HolderRights, Granting
<1>5. HolderRights' =
        [grant |-> facts.grant_id, key |-> link.child_verify, fpr |-> link.child_fpr,
         files |-> link.entries, until |-> link.expires_at, depth |-> link.depth,
         may |-> {args \in Requests : Permits(ChildActions(link), args)},
         limits |-> {facts'.tightening[i] : i \in DOMAIN facts'.tightening}]
  BY <1>1, <1>3 DEF HolderRights, Granting, NextFacts, Permits
<1>6. <<facts.holder_verify, facts.holder_fpr, facts.grant_id>> \in Willing
  BY <1>3 DEF Willing, decode_delegation
<1>7. link.expires_at <= facts.expires_at /\ link.depth < facts.depth_left
  BY <1>3 DEF DepthExhausted, ChainFacts, LinkDocs
<1>8. {args \in Requests : Permits(ChildActions(link), args)}
        \subseteq {args \in Requests : Permits(facts.actions, args)}
  <2>1. RulesShape(facts.actions) /\ facts.actions \in Seq(ActionRule)
    BY <1>1, <1>3 DEF ChainInv, Checked, ChainFacts
  <2> QED BY <1>1, <1>3, <2>1, RuleTypes, NarrowActionsOk, PermitsLess
<1>9. {facts.tightening[i] : i \in DOMAIN facts.tightening}
        \subseteq {facts'.tightening[i] : i \in DOMAIN facts'.tightening}
  <2>1. facts.tightening \in Seq(Nat) /\ Tightened(link) \in Seq(Nat)
    BY <1>3, TightenedType DEF ChainFacts
  <2>2. facts'.tightening = facts.tightening \o Tightened(link)
    BY <1>3 DEF NextFacts
  <2>3. ASSUME NEW i \in DOMAIN facts.tightening
        PROVE  /\ i \in DOMAIN (facts.tightening \o Tightened(link))
               /\ (facts.tightening \o Tightened(link))[i] = facts.tightening[i]
    BY <2>1
  <2> QED BY <2>2, <2>3
<1>10. Abstract!Below(HolderRights', HolderRights)
  BY <1>3, <1>4, <1>5, <1>7, <1>8, <1>9 DEF Abstract!Below
<1> QED BY <1>2, <1>4, <1>6, <1>10 DEF Abstract!HandOn

\* A refused chain leaves its holder nothing.
LEMMA RefusalLoses ==
  ASSUME NEW why, Refuse(why) PROVE Abstract!Lose
BY DEF Refuse, Abstract!Lose, HolderRights

\* Every step of the walk is a step of Attenuation or leaves the rights alone.
LEMMA StepSimulates ==
  ChainInv /\ [Next]_vars => [Abstract!Next]_<<AuthorRights, HolderRights>>
<1> SUFFICES ASSUME ChainInv, [Next]_vars
             PROVE  [Abstract!Next]_<<AuthorRights, HolderRights>>
  OBVIOUS
<1>1. UNCHANGED AuthorRights
  <2>1. UNCHANGED <<grant, action_grant>>
    BY DEF Next, CheckGrant, RefuseGrant, CheckActionGrant, RefuseActionGrant, TakeLink,
           RefuseLink, Accept, Refuse, vars, arguments
  <2> QED BY <2>1 DEF AuthorRights, root_actions, Tightened, Permits
<1>2. CASE CheckGrant
  BY <1>1, <1>2 DEF CheckGrant, HolderRights, Granting
<1>3. CASE CheckActionGrant
  <2>1. HolderRights = Absent
    BY <1>3 DEF CheckActionGrant, HolderRights, Granting
  <2>2. HolderRights' = AuthorRights
    <3>1. facts' = RootFacts /\ stage' = "links"
      BY <1>3 DEF CheckActionGrant
    <3> QED BY <3>1 DEF HolderRights, Granting, RootFacts, AuthorRights, Permits
  <2> QED BY <1>1, <2>1, <2>2 DEF Abstract!Next, Abstract!Give
<1>4. CASE \E link \in Links : TakeLink(link)
  BY <1>1, <1>4, LinkHandsOn DEF Abstract!Next
<1>5. CASE Accept
  BY <1>1, <1>5 DEF Accept, HolderRights, Granting, Permits
<1>6. CASE \E why : Refuse(why)
  BY <1>1, <1>6, RefusalLoses DEF Abstract!Next
<1>7. CASE UNCHANGED vars
  BY <1>1, <1>7 DEF vars, HolderRights, Granting, Permits
<1> QED
  BY <1>2, <1>3, <1>4, <1>5, <1>6, <1>7 DEF Next, RefuseGrant, RefuseActionGrant, RefuseLink

\* verify_grant_chain_with_actions implements Attenuation: a chain hands on
\* strictly less at every link, only on the word of its holder under this very
\* grant, and a refused chain gives nothing.
THEOREM ChainAttenuates == Spec => Attenuates
<1>1. Init => Abstract!Init
  BY DEF Init, Abstract!Init, HolderRights, Granting
<1>2. ChainInv /\ [Next]_vars => [Abstract!Next]_<<AuthorRights, HolderRights>>
  BY StepSimulates
<1> QED BY <1>1, <1>2, Invariance, PTL DEF Spec, Attenuates, Abstract!Spec

-------------------------------------------------------------------------------
(* The door: its invariant. *)

\* The same request, as far as a lease tells.
About(lease, ask) ==
  lease.nonce = ask.nonce /\ lease.args = ask.args /\ lease.door_fpr = ask.door_fpr

\* Requests: a door has open what it has sent in its own name.
Requested ==
  /\ seconds \in Nat /\ (revoked # Never => revoked \in Int /\ revoked <= seconds)
  /\ sent \subseteq Asks
  /\ asking \in [Doors -> Asks \cup {NoAsk}]
  /\ \A d \in Doors : asking[d] # NoAsk => asking[d] \in sent /\ asking[d].door_fpr = d

\* The queue: a number stands for one request, on the screen as in the queue.
Numbering ==
  /\ numbered \in Nat
  /\ queue \subseteq [seq : 1 .. numbered, ask : Asks, verdict : {"none", "yes", "no"}]
  /\ screen \subseteq [seq : 1 .. numbered, ask : Asks, verdict : {"none", "yes", "no"}]
  /\ \A p, q \in queue \cup screen : p.seq = q.seq => p.ask = q.ask

\* What the owner's key has signed as a yes, the owner was shown and has willed;
\* so has what the queue holds as confirmed.
Confirmed ==
  /\ \A d \in decisions :
       verify(d, "ActionDecision", OwnerKey) /\ d.text.approve =>
         \E p \in screen : p.seq = d.text.seq /\ p.ask \in willed
  /\ \A p \in queue : p.verdict = "yes" => p.ask \in willed

\* A lease is numbered, dates from before a revocation and answers a request
\* under a rule of its door, with the owner's yes where the rule wants one.
Issued(l) ==
  /\ l.rule \in AllRules /\ l.doc.text.door_fpr \in Doors
  /\ l.doc.text.seq \in 1 .. Cardinality(leases)
  /\ l.doc.text.issued_at \in Nat /\ l.doc.text.issued_at <= seconds
  /\ l.doc.text.expires_at \in Int
  /\ revoked # Never => l.doc.text.issued_at <= revoked
  /\ \E ask \in sent : About(l.doc.text, ask)
  /\ l.rule.confirm => \E ask \in willed : About(l.doc.text, ask)

Leased == IsFiniteSet(leases) /\ \A l \in leases : Issued(l)

\* An execution had a lease; its request is not open at any door again.
Executed ==
  /\ \A e \in done :
       /\ \E l \in leases : e.lease = l.doc.text /\ e.rule = l.rule
       /\ e.at \in Int /\ e.at <= e.lease.issued_at + ACTION_LEASE_SECONDS
       /\ \A d \in Doors : asking[d] # NoAsk =>
            ~(asking[d].nonce = e.lease.nonce /\ asking[d].args = e.lease.args)
  /\ \A e, f \in done : f.lease.nonce = e.lease.nonce /\ f.lease.args = e.lease.args => f = e

\* The counters.
Counted ==
  /\ used \in [Counters -> Nat]
  /\ \A d \in Doors : \A r \in AllRules :
       /\ used[<<d, limiter_key(r)>>] = Cardinality(ChargedTo(d, r))
       /\ r.max_uses # 0 => Cardinality(ChargedToRule(d, r)) <= r.max_uses

DoorInv == Requested /\ Numbering /\ Confirmed /\ Leased /\ Executed /\ Counted

\* The constants as the proofs use them.
LEMMA DoorConstants ==
  /\ \A ask \in Asks : ask.door_fpr \in Doors /\ ask.nonce # 0
  /\ \A a, b \in Asks : a.nonce = b.nonce /\ a.args = b.args => a = b
  /\ \A r \in AllRules : r.max_uses \in Nat
  /\ \A d \in Foreign : ~verify(d, "ActionDecision", OwnerKey)
  /\ ACTION_LEASE_SECONDS \in Nat /\ Terms \subseteq Nat /\ Never \notin Int
BY DoorAssumption, ActionAssumption DEF ActionRule

\* A door without a request open is not taken for one that asks.
LEMMA NothingOpen == ASSUME NEW ask \in Asks PROVE ask # NoAsk
BY DoorConstants DEF NoAsk

\* The first state satisfies the invariant.
LEMMA DoorInitEstablishes == DoorInit => DoorInv
<1> SUFFICES ASSUME DoorInit PROVE DoorInv
  OBVIOUS
<1> USE DEF DoorInit
<1>1. Requested
  BY DoorConstants DEF Requested
<1>2. Numbering
  BY DEF Numbering
<1>3. Confirmed
  BY DoorConstants DEF Confirmed
<1>4. Leased
  BY FS_EmptySet DEF Leased
<1>5. Executed
  BY DEF Executed
<1>6. Counted
  <2>1. used \in [Counters -> Nat] /\ \A c \in Counters : used[c] = 0
    OBVIOUS
  <2>2. ASSUME NEW d \in Doors, NEW r \in AllRules
        PROVE  /\ used[<<d, limiter_key(r)>>] = Cardinality(ChargedTo(d, r))
               /\ r.max_uses # 0 => Cardinality(ChargedToRule(d, r)) <= r.max_uses
    <3>1. ChargedTo(d, r) = {} /\ ChargedToRule(d, r) = {}
      BY DEF ChargedTo, ChargedToRule
    <3>2. <<d, limiter_key(r)>> \in Counters /\ r.max_uses \in Nat
      BY DoorConstants DEF Counters
    <3>3. Cardinality({}) = 0
      BY FS_EmptySet
    <3> HIDE DEF DoorInit
    <3> QED BY <2>1, <3>1, <3>2, <3>3
  <2> QED BY <2>1, <2>2 DEF Counted
<1> QED BY <1>1, <1>2, <1>3, <1>4, <1>5, <1>6 DEF DoorInv

-------------------------------------------------------------------------------
(* Every part is kept by every step. *)

\* Requests and the clock.
LEMMA RequestedStep == DoorInv /\ [DoorNext]_doorvars => Requested'
<1> SUFFICES ASSUME DoorInv, [DoorNext]_doorvars PROVE Requested'
  OBVIOUS
<1>0. Requested
  BY DEF DoorInv
<1>1. ASSUME NEW ask \in Asks, Ask(ask)
      PROVE  Requested'
  <2>1. /\ asking' = [asking EXCEPT ![ask.door_fpr] = ask] /\ sent' = sent \cup {ask}
        /\ UNCHANGED <<seconds, revoked>>
    BY <1>1 DEF Ask
  <2>2. ask.door_fpr \in Doors
    BY DoorConstants
  <2> QED BY <1>0, <2>1, <2>2 DEF Requested
<1>2. CASE RevokeGrant
  BY <1>0, <1>2 DEF RevokeGrant, Requested
<1>3. CASE Second
  BY <1>0, <1>3 DEF Second, Requested
<1>4. ASSUME NEW l \in leases, Execute(l)
      PROVE  Requested'
  <2>1. PICK door : asking' = [asking EXCEPT ![door] = NoAsk]
    BY <1>4 DEF Execute
  <2>2. UNCHANGED <<seconds, revoked, sent>>
    BY <1>4 DEF Execute
  <2> QED BY <1>0, <2>1, <2>2 DEF Requested
<1>5. ASSUME NEW door \in Doors, GiveUp(door)
      PROVE  Requested'
  BY <1>0, <1>5 DEF GiveUp, Requested
<1>6. CASE UNCHANGED <<seconds, revoked, sent, asking>>
  BY <1>0, <1>6 DEF Requested
<1>7. ASSUME NEW ask \in sent, NEW rule \in AllRules, NEW term \in Terms, Issue(ask, rule, term)
      PROVE  Requested'
  BY <1>6, <1>7 DEF Issue
<1>8. ASSUME NEW ask \in sent, NEW rule \in AllRules, Enqueue(ask, rule)
      PROVE  Requested'
  BY <1>6, <1>8 DEF Enqueue
<1>9. ASSUME NEW d \in decisions, Decide(d)
      PROVE  Requested'
  BY <1>6, <1>9 DEF Decide
<1>10. CASE Look
  BY <1>6, <1>10 DEF Look
<1>11. ASSUME NEW p \in screen, NEW approve \in BOOLEAN, Answer(p, approve)
       PROVE  Requested'
  BY <1>6, <1>11 DEF Answer
<1>12. CASE UNCHANGED doorvars
  BY <1>6, <1>12 DEF doorvars
<1> QED
  BY <1>1, <1>2, <1>3, <1>4, <1>5, <1>7, <1>8, <1>9, <1>10, <1>11, <1>12 DEF DoorNext

\* Numbers are given once.
LEMMA NumberingStep == DoorInv /\ [DoorNext]_doorvars => Numbering'
<1> SUFFICES ASSUME DoorInv, [DoorNext]_doorvars PROVE Numbering'
  OBVIOUS
<1>0. Numbering /\ sent \subseteq Asks
  BY DEF DoorInv, Requested
<1>1. ASSUME NEW ask \in sent, NEW rule \in AllRules, Enqueue(ask, rule)
      PROVE  Numbering'
  <2>1. PICK new : new = [seq |-> numbered + 1, ask |-> ask, verdict |-> "none"]
    OBVIOUS
  <2>2. /\ queue' = queue \cup {new} /\ numbered' = numbered + 1 /\ screen' = screen
        /\ new.seq = numbered + 1 /\ new.ask = ask
    BY <1>1, <2>1 DEF Enqueue
  <2>3. numbered \in Nat /\ numbered' \in Nat
    BY <1>0, <2>2 DEF Numbering
  <2>4. new \in [seq : 1 .. numbered', ask : Asks, verdict : {"none", "yes", "no"}]
    BY <1>0, <2>1, <2>2, <2>3
  <2>5. [seq : 1 .. numbered, ask : Asks, verdict : {"none", "yes", "no"}]
          \subseteq [seq : 1 .. numbered', ask : Asks, verdict : {"none", "yes", "no"}]
    BY <2>2, <2>3
  <2>6. \A p \in queue \cup screen : p.seq \in 1 .. numbered
    BY <1>0 DEF Numbering
  <2>7. \A p, q \in queue' \cup screen' : p.seq = q.seq => p.ask = q.ask
    <3>1. \A p \in queue \cup screen : p.seq # new.seq
      BY <2>2, <2>3, <2>6
    <3> QED BY <1>0, <2>2, <3>1 DEF Numbering
  <2>8. /\ queue' \subseteq [seq : 1 .. numbered', ask : Asks, verdict : {"none", "yes", "no"}]
        /\ screen' \subseteq [seq : 1 .. numbered', ask : Asks, verdict : {"none", "yes", "no"}]
    BY <1>0, <2>2, <2>4, <2>5 DEF Numbering
  <2> QED BY <2>3, <2>7, <2>8 DEF Numbering
<1>2. ASSUME NEW d \in decisions, Decide(d)
      PROVE  Numbering'
  <2>1. PICK p \in queue : queue' = (queue \ {p}) \cup
                   {[p EXCEPT !.verdict = IF d.text.approve THEN "yes" ELSE "no"]}
    BY <1>2 DEF Decide
  <2>2. UNCHANGED <<numbered, screen>>
    BY <1>2 DEF Decide
  <2>3. PICK new : new = [p EXCEPT !.verdict = IF d.text.approve THEN "yes" ELSE "no"]
    OBVIOUS
  <2>4. p \in [seq : 1 .. numbered, ask : Asks, verdict : {"none", "yes", "no"}]
    BY <1>0 DEF Numbering
  <2>5. /\ new \in [seq : 1 .. numbered, ask : Asks, verdict : {"none", "yes", "no"}]
        /\ new.seq = p.seq /\ new.ask = p.ask
    BY <2>3, <2>4
  <2> QED BY <1>0, <2>1, <2>2, <2>3, <2>5 DEF Numbering
<1>3. CASE Look
  <2>1. screen' = screen \cup Window /\ Window \subseteq queue /\ UNCHANGED <<numbered, queue>>
    BY <1>3 DEF Look, Window
  <2> QED BY <1>0, <2>1 DEF Numbering
<1>4. ASSUME NEW ask \in sent, NEW rule \in AllRules, NEW term \in Terms, Issue(ask, rule, term)
      PROVE  Numbering'
  <2>1. queue' \subseteq queue /\ UNCHANGED <<numbered, screen>>
    BY <1>4 DEF Issue
  <2> QED BY <1>0, <2>1 DEF Numbering
<1>5. CASE UNCHANGED <<numbered, queue, screen>>
  BY <1>0, <1>5 DEF Numbering
<1>6. ASSUME NEW ask \in Asks, Ask(ask)
      PROVE  Numbering'
  BY <1>5, <1>6 DEF Ask
<1>7. CASE RevokeGrant \/ Second
  BY <1>5, <1>7 DEF RevokeGrant, Second
<1>8. ASSUME NEW p \in screen, NEW approve \in BOOLEAN, Answer(p, approve)
      PROVE  Numbering'
  BY <1>5, <1>8 DEF Answer
<1>9. ASSUME NEW l \in leases, Execute(l)
      PROVE  Numbering'
  BY <1>5, <1>9 DEF Execute
<1>10. ASSUME NEW door \in Doors, GiveUp(door)
       PROVE  Numbering'
  BY <1>5, <1>10 DEF GiveUp
<1>11. CASE UNCHANGED doorvars
  BY <1>5, <1>11 DEF doorvars
<1> QED
  BY <1>1, <1>2, <1>3, <1>4, <1>6, <1>7, <1>8, <1>9, <1>10, <1>11 DEF DoorNext

\* A yes is the owner's, to the request its number stands for.
LEMMA ConfirmedStep == DoorInv /\ [DoorNext]_doorvars => Confirmed'
<1> SUFFICES ASSUME DoorInv, [DoorNext]_doorvars PROVE Confirmed'
  OBVIOUS
<1>0. Confirmed /\ Numbering
  BY DEF DoorInv
<1>1. ASSUME NEW d \in decisions, Decide(d)
      PROVE  Confirmed'
  <2>1. PICK p \in queue :
          /\ p.seq = d.text.seq
          /\ queue' = (queue \ {p}) \cup
                      {[p EXCEPT !.verdict = IF d.text.approve THEN "yes" ELSE "no"]}
    BY <1>1 DEF Decide
  <2>2. verify(d, "ActionDecision", OwnerKey) /\ UNCHANGED <<screen, decisions, willed>>
    BY <1>1 DEF Decide, decode_action_decision
  <2>3. PICK new : new = [p EXCEPT !.verdict = IF d.text.approve THEN "yes" ELSE "no"]
    OBVIOUS
  <2>4. p \in [seq : 1 .. numbered, ask : Asks, verdict : {"none", "yes", "no"}]
    BY <1>0 DEF Numbering
  <2>5. new.ask = p.ask /\ (new.verdict = "yes" => d.text.approve)
    BY <2>3, <2>4
  <2>6. d.text.approve => p.ask \in willed
    BY <1>0, <2>1, <2>2 DEF Confirmed, Numbering
  <2> QED BY <1>0, <2>1, <2>2, <2>3, <2>5, <2>6 DEF Confirmed
<1>2. ASSUME NEW p \in screen, NEW approve \in BOOLEAN, Answer(p, approve)
      PROVE  Confirmed'
  <2>1. PICK new : new = Signed("ActionDecision", OwnerKey, Decision(p, approve), "none")
    OBVIOUS
  <2>2. /\ decisions' = decisions \cup {new}
        /\ willed' = IF approve THEN willed \cup {p.ask} ELSE willed
        /\ UNCHANGED <<screen, queue>>
    BY <1>2, <2>1 DEF Answer
  <2>3. new.text.seq = p.seq /\ new.text.approve = approve
    BY <2>1 DEF Signed, Decision
  <2>4. willed \subseteq willed' /\ (approve => p.ask \in willed')
    BY <2>2
  <2>5. ASSUME NEW d \in decisions', verify(d, "ActionDecision", OwnerKey), d.text.approve
        PROVE  \E q \in screen : q.seq = d.text.seq /\ q.ask \in willed'
    <3>1. CASE d = new
      BY <2>3, <2>4, <2>5, <3>1
    <3>2. CASE d \in decisions
      BY <1>0, <2>4, <2>5, <3>2 DEF Confirmed
    <3> QED BY <2>2, <3>1, <3>2
  <2>6. \A q \in queue : q.verdict = "yes" => q.ask \in willed'
    BY <1>0, <2>4 DEF Confirmed
  <2> QED BY <2>2, <2>5, <2>6 DEF Confirmed, verify
<1>3. CASE Look
  <2>1. screen \subseteq screen' /\ UNCHANGED <<queue, decisions, willed>>
    BY <1>3 DEF Look
  <2> QED BY <1>0, <2>1 DEF Confirmed, verify
<1>4. ASSUME NEW ask \in sent, NEW rule \in AllRules, NEW term \in Terms, Issue(ask, rule, term)
      PROVE  Confirmed'
  <2>1. queue' \subseteq queue /\ UNCHANGED <<decisions, screen, willed>>
    BY <1>4 DEF Issue
  <2> QED BY <1>0, <2>1 DEF Confirmed, verify
<1>5. ASSUME NEW ask \in sent, NEW rule \in AllRules, Enqueue(ask, rule)
      PROVE  Confirmed'
  <2>1. /\ queue' = queue \cup {[seq |-> numbered + 1, ask |-> ask, verdict |-> "none"]}
        /\ UNCHANGED <<decisions, screen, willed>>
    BY <1>5 DEF Enqueue
  <2> QED BY <1>0, <2>1 DEF Confirmed, verify
<1>6. CASE UNCHANGED <<decisions, screen, willed, queue>>
  BY <1>0, <1>6 DEF Confirmed, verify
<1>7. ASSUME NEW ask \in Asks, Ask(ask)
      PROVE  Confirmed'
  BY <1>6, <1>7 DEF Ask
<1>8. CASE RevokeGrant \/ Second
  BY <1>6, <1>8 DEF RevokeGrant, Second
<1>9. ASSUME NEW l \in leases, Execute(l)
      PROVE  Confirmed'
  BY <1>6, <1>9 DEF Execute
<1>10. ASSUME NEW door \in Doors, GiveUp(door)
       PROVE  Confirmed'
  BY <1>6, <1>10 DEF GiveUp
<1>11. CASE UNCHANGED doorvars
  BY <1>6, <1>11 DEF doorvars
<1> QED
  BY <1>1, <1>2, <1>3, <1>4, <1>5, <1>7, <1>8, <1>9, <1>10, <1>11 DEF DoorNext

\* The lease an Issue makes: it is a new one, for the request, under a rule of
\* the door.
NewLease(ask, rule, term) ==
  [doc |-> Signed("ActionLease", LeaseKey, Lease(ask, term), "none"), rule |-> rule]

LEMMA IssueMakes ==
  ASSUME DoorInv, NEW ask \in sent, NEW rule \in AllRules, NEW term \in Terms,
         Issue(ask, rule, term)
  PROVE  LET new == NewLease(ask, rule, term)
         IN  /\ leases' = leases \cup {new} /\ new \notin leases
             /\ IsFiniteSet(leases') /\ Cardinality(leases') = Cardinality(leases) + 1
             /\ Cardinality(leases) \in Nat
             /\ new.rule = rule /\ About(new.doc.text, ask)
             /\ new.doc.text.seq = Cardinality(leases) + 1
             /\ new.doc.text.issued_at = seconds /\ new.doc.text.expires_at = seconds + term
             /\ ask.door_fpr \in Doors
<1> DEFINE new == NewLease(ask, rule, term)
<1>1. /\ new.rule = rule /\ About(new.doc.text, ask)
      /\ new.doc.text.seq = Cardinality(leases) + 1
      /\ new.doc.text.issued_at = seconds /\ new.doc.text.expires_at = seconds + term
  BY DEF NewLease, Signed, Lease, About
<1>2. leases' = leases \cup {new}
  BY DEF Issue, NewLease
<1> HIDE DEF new
<1>3. IsFiniteSet(leases) /\ \A l \in leases : l.doc.text.seq \in 1 .. Cardinality(leases)
  BY DEF DoorInv, Leased, Issued
<1>4. Cardinality(leases) \in Nat
  BY <1>3, FS_CardinalityType
<1>5. new \notin leases
  BY <1>1, <1>3, <1>4
<1>6. IsFiniteSet(leases') /\ Cardinality(leases') = Cardinality(leases) + 1
  BY <1>2, <1>3, <1>5, FS_AddElement
<1>7. ask.door_fpr \in Doors
  BY DoorConstants DEF DoorInv, Requested
<1> QED BY <1>1, <1>2, <1>4, <1>5, <1>6, <1>7 DEF new

\* Leases are issued before a revocation, and with the owner's yes where it is
\* wanted.
LEMMA LeasedStep == DoorInv /\ [DoorNext]_doorvars => Leased'
<1> SUFFICES ASSUME DoorInv, [DoorNext]_doorvars PROVE Leased'
  OBVIOUS
<1>0. /\ Leased /\ seconds \in Nat /\ sent \subseteq Asks
      /\ \A l \in leases : Issued(l)
  BY DEF DoorInv, Requested, Leased
<1>1. ASSUME NEW ask \in sent, NEW rule \in AllRules, NEW term \in Terms, Issue(ask, rule, term)
      PROVE  Leased'
  <2> DEFINE new == NewLease(ask, rule, term)
  <2>0. PICK n : n = new
    OBVIOUS
  <2>1. /\ leases' = leases \cup {n}
        /\ IsFiniteSet(leases') /\ Cardinality(leases') = Cardinality(leases) + 1
        /\ Cardinality(leases) \in Nat
        /\ n.rule = rule /\ About(n.doc.text, ask)
        /\ n.doc.text.seq = Cardinality(leases) + 1
        /\ n.doc.text.issued_at = seconds /\ n.doc.text.expires_at = seconds + term
        /\ ask.door_fpr \in Doors
    BY <1>1, <2>0, IssueMakes
  <2> HIDE DEF new
  <2>2. revoked = Never /\ UNCHANGED <<seconds, revoked, sent, willed>>
    BY <1>1 DEF Issue, Gates
  <2>3. rule.confirm => ask \in willed
    <3>1. rule.confirm => \E p \in Waiting(ask) : p.verdict = "yes"
      BY <1>1 DEF Issue
    <3>2. \A p \in Waiting(ask) : p.ask = ask /\ p \in queue
      BY <1>1 DEF Issue, Gates, Waiting
    <3> QED BY <3>1, <3>2 DEF DoorInv, Confirmed
  <2>4. Issued(n)'
    BY <1>0, <2>1, <2>2, <2>3, DoorConstants DEF Issued, About
  <2>5. \A l \in leases : Issued(l)'
    BY <1>0, <2>1, <2>2 DEF Issued, About
  <2> QED BY <2>1, <2>4, <2>5 DEF Leased
<1>2. CASE RevokeGrant
  <2>1. revoked = Never /\ revoked' = seconds /\ UNCHANGED <<seconds, sent, willed, leases>>
    BY <1>2 DEF RevokeGrant
  <2>2. \A l \in leases : Issued(l)'
    BY <1>0, <2>1 DEF Issued, About
  <2> QED BY <1>0, <2>1, <2>2 DEF Leased
<1>3. CASE Second
  <2>1. seconds' = seconds + 1 /\ UNCHANGED <<revoked, sent, willed, leases>>
    BY <1>3 DEF Second
  <2>2. \A l \in leases : Issued(l)'
    BY <1>0, <2>1 DEF Issued, About
  <2> QED BY <1>0, <2>1, <2>2 DEF Leased
<1>4. CASE sent \subseteq sent' /\ willed \subseteq willed' /\ UNCHANGED <<seconds, revoked, leases>>
  <2>1. \A l \in leases : Issued(l)'
    BY <1>0, <1>4 DEF Issued, About
  <2> QED BY <1>0, <1>4, <2>1 DEF Leased
<1>5. ASSUME NEW ask \in Asks, Ask(ask)
      PROVE  Leased'
  BY <1>4, <1>5 DEF Ask
<1>6. ASSUME NEW p \in screen, NEW approve \in BOOLEAN, Answer(p, approve)
      PROVE  Leased'
  BY <1>4, <1>6 DEF Answer
<1>7. ASSUME NEW ask \in sent, NEW rule \in AllRules, Enqueue(ask, rule)
      PROVE  Leased'
  BY <1>4, <1>7 DEF Enqueue
<1>8. ASSUME NEW d \in decisions, Decide(d)
      PROVE  Leased'
  BY <1>4, <1>8 DEF Decide
<1>9. CASE Look
  BY <1>4, <1>9 DEF Look
<1>10. ASSUME NEW l \in leases, Execute(l)
       PROVE  Leased'
  BY <1>4, <1>10 DEF Execute
<1>11. ASSUME NEW door \in Doors, GiveUp(door)
       PROVE  Leased'
  BY <1>4, <1>11 DEF GiveUp
<1>12. CASE UNCHANGED doorvars
  BY <1>4, <1>12 DEF doorvars
<1> QED
  BY <1>1, <1>2, <1>3, <1>5, <1>6, <1>7, <1>8, <1>9, <1>10, <1>11, <1>12 DEF DoorNext

\* A request is executed once: the door closes it, and never opens it again.
LEMMA ExecutedStep == DoorInv /\ [DoorNext]_doorvars => Executed'
<1> SUFFICES ASSUME DoorInv, [DoorNext]_doorvars PROVE Executed'
  OBVIOUS
<1>0. Executed /\ Requested /\ Leased
  BY DEF DoorInv
<1>1. ASSUME NEW l \in leases, Execute(l)
      PROVE  Executed'
  <2> DEFINE lease == l.doc.text
             door  == lease.door_fpr
  <2>1. /\ door \in Doors /\ lease.issued_at \in Nat /\ lease.expires_at \in Int
        /\ \E ask \in sent : About(lease, ask)
    BY <1>0 DEF Leased, Issued
  <2>2. PICK e : e = [lease |-> lease, rule |-> l.rule, at |-> seconds]
    OBVIOUS
  <2>3. /\ done' = done \cup {e} /\ asking' = [asking EXCEPT ![door] = NoAsk]
        /\ lease.nonce = asking[door].nonce /\ lease.args = asking[door].args
        /\ seconds <= lease.expires_at /\ lease.expires_at <= lease.issued_at + ACTION_LEASE_SECONDS
        /\ leases' = leases
    BY <1>1, <2>2 DEF Execute, decode_lease, check_lease_shape
  <2>4. e.lease = lease /\ e.rule = l.rule /\ e.at = seconds
    BY <2>2
  <2>5. PICK ask \in sent : About(lease, ask)
    BY <2>1
  <2> HIDE DEF lease
  <2>6. ask \in Asks /\ ask.nonce # 0
    BY <1>0, DoorConstants DEF Requested
  <2>7. asking[door] # NoAsk /\ asking[door] \in Asks
    <3>1. asking[door].nonce # 0
      BY <2>3, <2>5, <2>6 DEF About
    <3> QED BY <1>0, <2>1, <3>1 DEF Requested, NoAsk
  <2>8. \A d \in Doors : asking'[d] # NoAsk => asking'[d] = asking[d] /\ d # door
    BY <1>0, <2>1, <2>3 DEF Requested
  <2>9. \A d \in Doors : asking'[d] # NoAsk =>
          ~(asking'[d].nonce = lease.nonce /\ asking'[d].args = lease.args)
    <3> SUFFICES ASSUME NEW d \in Doors, asking[d] # NoAsk, d # door,
                        asking[d].nonce = lease.nonce, asking[d].args = lease.args
                 PROVE  FALSE
      BY <2>8
    <3>1. asking[d] \in Asks /\ asking[d].door_fpr = d /\ asking[door].door_fpr = door
      BY <1>0, <2>1, <2>7 DEF Requested
    <3>2. asking[d] = asking[door]
      BY <3>1, <2>3, <2>7, DoorConstants
    <3> QED BY <3>1, <3>2
  <2>10. \A f \in done : ~(f.lease.nonce = lease.nonce /\ f.lease.args = lease.args)
    BY <1>0, <2>1, <2>3, <2>7 DEF Executed
  <2>11. \A x, y \in done' : x.lease.nonce = y.lease.nonce /\ x.lease.args = y.lease.args => x = y
    <3>1. \A x, y \in done : x.lease.nonce = y.lease.nonce /\ x.lease.args = y.lease.args => x = y
      BY <1>0 DEF Executed
    <3> QED BY <2>3, <2>4, <2>10, <3>1
  <2>12. e.at \in Int /\ e.at <= e.lease.issued_at + ACTION_LEASE_SECONDS
    BY <1>0, <2>1, <2>3, <2>4, DoorConstants DEF Requested
  <2>13. \A f \in done' :
           /\ \E m \in leases' : f.lease = m.doc.text /\ f.rule = m.rule
           /\ f.at \in Int /\ f.at <= f.lease.issued_at + ACTION_LEASE_SECONDS
           /\ \A d \in Doors : asking'[d] # NoAsk =>
                ~(asking'[d].nonce = f.lease.nonce /\ asking'[d].args = f.lease.args)
    <3> SUFFICES ASSUME NEW f \in done'
                 PROVE  /\ \E m \in leases' : f.lease = m.doc.text /\ f.rule = m.rule
                        /\ f.at \in Int /\ f.at <= f.lease.issued_at + ACTION_LEASE_SECONDS
                        /\ \A d \in Doors : asking'[d] # NoAsk =>
                             ~(asking'[d].nonce = f.lease.nonce /\ asking'[d].args = f.lease.args)
      OBVIOUS
    <3>1. CASE f = e
      BY <3>1, <2>3, <2>4, <2>9, <2>12 DEF lease
    <3>2. CASE f \in done
      BY <3>2, <1>0, <2>3, <2>8 DEF Executed
    <3> QED BY <2>3, <3>1, <3>2
  <2> QED BY <2>11, <2>13 DEF Executed
<1>2. ASSUME NEW ask \in Asks, Ask(ask)
      PROVE  Executed'
  <2>1. /\ asking' = [asking EXCEPT ![ask.door_fpr] = ask] /\ ask \notin sent
        /\ UNCHANGED <<leases, done>>
    BY <1>2 DEF Ask
  <2>2. \A e \in done : ~(ask.nonce = e.lease.nonce /\ ask.args = e.lease.args)
    <3> SUFFICES ASSUME NEW e \in done, ask.nonce = e.lease.nonce, ask.args = e.lease.args
                 PROVE  FALSE
      OBVIOUS
    <3>1. PICK l \in leases : e.lease = l.doc.text
      BY <1>0 DEF Executed
    <3>2. PICK old \in sent : About(e.lease, old)
      BY <1>0, <3>1 DEF Leased, Issued
    <3>3. old = ask
      BY <1>0, <3>2, DoorConstants DEF About, Requested
    <3> QED BY <2>1, <3>2, <3>3
  <2>3. \A d \in Doors : asking'[d] = asking[d] \/ asking'[d] = ask
    BY <1>0, <2>1 DEF Requested
  <2> QED BY <1>0, <2>1, <2>2, <2>3 DEF Executed
<1>3. ASSUME NEW door \in Doors, GiveUp(door)
      PROVE  Executed'
  <2>1. asking' = [asking EXCEPT ![door] = NoAsk] /\ UNCHANGED <<leases, done>>
    BY <1>3 DEF GiveUp
  <2>2. \A d \in Doors : asking'[d] = asking[d] \/ asking'[d] = NoAsk
    BY <1>0, <2>1 DEF Requested
  <2> QED BY <1>0, <2>1, <2>2 DEF Executed
<1>4. CASE leases \subseteq leases' /\ UNCHANGED <<asking, done>>
  BY <1>0, <1>4 DEF Executed
<1>5. ASSUME NEW ask \in sent, NEW rule \in AllRules, NEW term \in Terms, Issue(ask, rule, term)
      PROVE  Executed'
  BY <1>4, <1>5 DEF Issue
<1>6. ASSUME NEW ask \in sent, NEW rule \in AllRules, Enqueue(ask, rule)
      PROVE  Executed'
  BY <1>4, <1>6 DEF Enqueue
<1>7. ASSUME NEW d \in decisions, Decide(d)
      PROVE  Executed'
  BY <1>4, <1>7 DEF Decide
<1>8. CASE RevokeGrant \/ Second \/ Look
  BY <1>4, <1>8 DEF RevokeGrant, Second, Look
<1>9. ASSUME NEW p \in screen, NEW approve \in BOOLEAN, Answer(p, approve)
      PROVE  Executed'
  BY <1>4, <1>9 DEF Answer
<1>10. CASE UNCHANGED doorvars
  BY <1>4, <1>10 DEF doorvars
<1> QED
  BY <1>1, <1>2, <1>3, <1>5, <1>6, <1>7, <1>8, <1>9, <1>10 DEF DoorNext

\* A lease is charged to a counter once for each time the counter grows.
LEMMA CountedStep == DoorInv /\ [DoorNext]_doorvars => Counted'
<1> SUFFICES ASSUME DoorInv, [DoorNext]_doorvars PROVE Counted'
  OBVIOUS
<1>0. Counted /\ IsFiniteSet(leases)
  BY DEF DoorInv, Leased
<1>1. ASSUME NEW ask \in sent, NEW rule \in AllRules, NEW term \in Terms, Issue(ask, rule, term)
      PROVE  Counted'
  <2>0. PICK n : n = NewLease(ask, rule, term)
    OBVIOUS
  <2>1. /\ leases' = leases \cup {n} /\ n \notin leases
        /\ n.rule = rule /\ n.doc.text.door_fpr = ask.door_fpr
    BY <1>1, <2>0, IssueMakes DEF About
  <2>2. /\ used' = [c \in Counters |->
                      IF c \in Charges(ask.door_fpr, rule) THEN used[c] + 1 ELSE used[c]]
        /\ Left(ask.door_fpr, rule)
    BY <1>1 DEF Issue, Gates
  <2>3. used \in [Counters -> Nat] /\ used' \in [Counters -> Nat]
    BY <1>0, <2>2 DEF Counted
  <2>4. ASSUME NEW d \in Doors, NEW r \in AllRules
        PROVE  /\ used'[<<d, limiter_key(r)>>] = Cardinality(ChargedTo(d, r)')
               /\ r.max_uses # 0 => Cardinality(ChargedToRule(d, r)') <= r.max_uses
    <3> DEFINE c == <<d, limiter_key(r)>>
               hit == \E h \in Charged(ask.door_fpr, rule) : h[1] = d /\ SameLimit(h[2], r)
               hitRule == <<d, r>> \in Charged(ask.door_fpr, rule)
    <3>1. c \in Counters /\ r.max_uses \in Nat
      BY DoorConstants DEF Counters
    <3>2. c \in Charges(ask.door_fpr, rule) <=> hit
      BY DEF Charges, limiter_key, SameLimit
    <3>3. hitRule => hit
      BY DEF SameLimit
    <3>4. /\ ChargedTo(d, r)' = IF hit THEN ChargedTo(d, r) \cup {n} ELSE ChargedTo(d, r)
          /\ n \notin ChargedTo(d, r)
      BY <2>1 DEF ChargedTo
    <3>5. /\ ChargedToRule(d, r)' =
               IF hitRule THEN ChargedToRule(d, r) \cup {n} ELSE ChargedToRule(d, r)
          /\ n \notin ChargedToRule(d, r)
      BY <2>1 DEF ChargedToRule
    <3>6. /\ IsFiniteSet(ChargedTo(d, r)) /\ IsFiniteSet(ChargedToRule(d, r))
          /\ Cardinality(ChargedTo(d, r)) \in Nat /\ Cardinality(ChargedToRule(d, r)) \in Nat
          /\ Cardinality(ChargedToRule(d, r)) <= Cardinality(ChargedTo(d, r))
      <4>1. ChargedToRule(d, r) \subseteq ChargedTo(d, r) /\ ChargedTo(d, r) \subseteq leases
        BY DEF ChargedTo, ChargedToRule, SameLimit
      <4> QED BY <1>0, <4>1, FS_Subset, FS_CardinalityType
    <3>7. /\ hit => Cardinality(ChargedTo(d, r)') = Cardinality(ChargedTo(d, r)) + 1
          /\ ~hit => Cardinality(ChargedTo(d, r)') = Cardinality(ChargedTo(d, r))
      BY <3>4, <3>6, FS_AddElement
    <3>8. /\ hitRule => Cardinality(ChargedToRule(d, r)') = Cardinality(ChargedToRule(d, r)) + 1
          /\ ~hitRule => Cardinality(ChargedToRule(d, r)') = Cardinality(ChargedToRule(d, r))
      BY <3>5, <3>6, FS_AddElement
    <3>9. /\ used[c] = Cardinality(ChargedTo(d, r))
          /\ r.max_uses # 0 => Cardinality(ChargedToRule(d, r)) <= r.max_uses
      BY <1>0 DEF Counted
    <3>10. hitRule /\ r.max_uses # 0 => used[c] < r.max_uses
      BY <2>2 DEF Left
    <3>11. /\ hit => used'[c] = used[c] + 1
           /\ ~hit => used'[c] = used[c]
      <4> HIDE DEF c, hit
      <4> QED BY <2>2, <3>1, <3>2
    <3> HIDE DEF c, hit, hitRule
    <3>12. used'[c] = Cardinality(ChargedTo(d, r)')
      BY <3>7, <3>9, <3>11
    <3>13. r.max_uses # 0 => Cardinality(ChargedToRule(d, r)') <= r.max_uses
      BY <3>1, <3>6, <3>8, <3>9, <3>10
    <3> QED BY <3>12, <3>13 DEF c
  <2> QED BY <2>3, <2>4 DEF Counted
<1>2. CASE UNCHANGED <<used, leases>>
  BY <1>0, <1>2 DEF Counted, ChargedTo, ChargedToRule
<1>3. ASSUME NEW ask \in Asks, Ask(ask)
      PROVE  Counted'
  BY <1>2, <1>3 DEF Ask
<1>4. ASSUME NEW ask \in sent, NEW rule \in AllRules, Enqueue(ask, rule)
      PROVE  Counted'
  BY <1>2, <1>4 DEF Enqueue
<1>5. ASSUME NEW d \in decisions, Decide(d)
      PROVE  Counted'
  BY <1>2, <1>5 DEF Decide
<1>6. CASE RevokeGrant \/ Second \/ Look
  BY <1>2, <1>6 DEF RevokeGrant, Second, Look
<1>7. ASSUME NEW p \in screen, NEW approve \in BOOLEAN, Answer(p, approve)
      PROVE  Counted'
  BY <1>2, <1>7 DEF Answer
<1>8. ASSUME NEW l \in leases, Execute(l)
      PROVE  Counted'
  BY <1>2, <1>8 DEF Execute
<1>9. ASSUME NEW door \in Doors, GiveUp(door)
      PROVE  Counted'
  BY <1>2, <1>9 DEF GiveUp
<1>10. CASE UNCHANGED doorvars
  BY <1>2, <1>10 DEF doorvars
<1> QED
  BY <1>1, <1>3, <1>4, <1>5, <1>6, <1>7, <1>8, <1>9, <1>10 DEF DoorNext

-------------------------------------------------------------------------------
(* The theorems. *)

\* The invariant holds of every behaviour of the doors, the server and the owner.
LEMMA DoorInvariance == DoorSpec => []DoorInv
<1>1. DoorInv /\ [DoorNext]_doorvars => DoorInv'
  BY RequestedStep, NumberingStep, ConfirmedStep, LeasedStep, ExecutedStep, CountedStep DEF DoorInv
<1> QED BY DoorInitEstablishes, <1>1, PTL DEF DoorSpec

\* Delegation does not multiply a limit on executions: for every chain of doors
\* and every set of rules the counters are the leases charged to them, and the
\* leases under a rule stay within its number.
THEOREM LimitsAlongTheChain == DoorSpec => []UsesCounted
<1>1. \A d \in Doors : Rules[d] \subseteq AllRules
  BY DEF AllRules
<1>2. DoorInv => UsesCounted
  BY <1>1 DEF DoorInv, Counted, UsesCounted
<1> QED BY DoorInvariance, <1>2, PTL

\* Nothing is executed without the owner's yes to this very request where the
\* rule asks for it, later than one lease after the revocation, or twice.
THEOREM OwnerStaysInControl == DoorSpec => []OwnerInControl
<1>1. DoorInv => OwnerInControl
  <2> SUFFICES ASSUME DoorInv, NEW e \in done
               PROVE  /\ e.rule.confirm =>
                           \E ask \in willed : /\ ask.nonce = e.lease.nonce
                                               /\ ask.args = e.lease.args
                                               /\ ask.door_fpr = e.lease.door_fpr
                      /\ revoked # Never => e.at <= revoked + ACTION_LEASE_SECONDS
                      /\ \A f \in done :
                           f.lease.nonce = e.lease.nonce /\ f.lease.args = e.lease.args => f = e
    BY DEF OwnerInControl
  <2>1. PICK l \in leases : e.lease = l.doc.text /\ e.rule = l.rule
    BY DEF DoorInv, Executed
  <2>2. Issued(l)
    BY DEF DoorInv, Leased
  <2>3. e.rule.confirm => \E ask \in willed : About(e.lease, ask)
    BY <2>1, <2>2 DEF Issued
  <2>4. revoked # Never => e.at <= revoked + ACTION_LEASE_SECONDS
    <3>1. e.at \in Int /\ e.at <= e.lease.issued_at + ACTION_LEASE_SECONDS
      BY DEF DoorInv, Executed
    <3>2. /\ e.lease.issued_at \in Nat
          /\ revoked # Never => revoked \in Int /\ e.lease.issued_at <= revoked
      BY <2>1, <2>2 DEF Issued, DoorInv, Requested
    <3> QED BY <3>1, <3>2, DoorConstants
  <2>5. \A f \in done :
          f.lease.nonce = e.lease.nonce /\ f.lease.args = e.lease.args => f = e
    BY DEF DoorInv, Executed
  <2> QED BY <2>3, <2>4, <2>5 DEF About
<1> QED BY DoorInvariance, <1>1, PTL

===============================================================================
