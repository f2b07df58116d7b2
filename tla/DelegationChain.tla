---------------------------- MODULE DelegationChain ----------------------------
(***************************************************************************)
(* verify_grant_chain_with_actions of crates/oc-protocol/src/agent.rs, one *)
(* step for the author's grant, one for the optional action grant and one  *)
(* for each link.  The documents come from outside: any that somebody has  *)
(* signed may be presented, in any order.                                  *)
(*                                                                         *)
(* A document carries the key that really signed it (signer); parses tells *)
(* whether its bytes decode, its list of files ascends and its holder's    *)
(* name is the fingerprint of the key it presents.  Sealed shares are left *)
(* out, a tightening policy is opaque.                                     *)
(***************************************************************************)
EXTENDS ActionRules, FiniteSets

CONSTANTS
  AuthorKey,            \* the key of the container header
  Grants,               \* agent grants that may be presented
  ActionGrants,         \* action grants that may be presented
  Links,                \* delegations that somebody has signed
  Moments,              \* clocks the caller may pass
  Requests,             \* arguments of executions
  Absent,               \* an absent document or policy
  Void,                 \* the rights of a chain that was refused
  MAX_GRANT_FILES, MAX_GRANT_DEPTH, MAX_ACTION_RULES

GrantDocs ==
  [signer : Nat, parses : BOOLEAN, author_key : Nat, grant_id : Nat,
   door_fpr : Nat, door_verify : Nat, entries : SUBSET Nat,
   issued_at : Int, expires_at : Int, max_depth : Nat, tightening : Nat \cup {Absent}]

ActionDocs ==
  [signer : Nat, parses : BOOLEAN, author_key : Nat, grant_id : Nat,
   rules : Seq(ActionRule), issued_at : Int, expires_at : Int]

LinkDocs ==
  [signer : Nat, parses : BOOLEAN, grant_id : Nat, parent_fpr : Nat,
   child_fpr : Nat, child_verify : Nat, entries : SUBSET Nat,
   expires_at : Int, depth : Nat, tightening : Nat \cup {Absent},
   actions : Seq(ActionRule)]

\* What a holder has, in the words of Attenuation.
Rights ==
  [grant : Nat, key : Nat, fpr : Nat, files : SUBSET Nat, until : Int, depth : Nat,
   may : SUBSET Args, limits : SUBSET Nat]

ASSUME ChainAssumption ==
  /\ AuthorKey \in Nat
  /\ Grants \subseteq GrantDocs /\ Links \subseteq LinkDocs
  /\ ActionGrants \subseteq ActionDocs
  /\ Absent \notin Nat /\ Absent \notin ActionDocs
  /\ Absent \notin Rights /\ Void \notin Rights /\ Absent # Void
  /\ Moments \subseteq Int /\ Requests \subseteq Args
  /\ MAX_GRANT_FILES \in Nat /\ MAX_GRANT_DEPTH \in Nat /\ MAX_ACTION_RULES \in Nat

VARIABLES
  grant, action_grant, now,   \* arguments of the call
  stage,                      \* "grant", "actions", "links", "accepted" or "refused"
  facts,                      \* ChainFacts, meaningful from "links" on
  refusal,                    \* why the chain was refused
  taken                       \* history: links accepted so far

vars == <<grant, action_grant, now, stage, facts, refusal, taken>>

arguments == <<grant, action_grant, now>>

-------------------------------------------------------------------------------
(* The documents. *)

check_grant_shape(doc) ==
  /\ Cardinality(doc.entries) <= MAX_GRANT_FILES
  /\ doc.max_depth <= MAX_GRANT_DEPTH
  /\ doc.expires_at >= doc.issued_at

\* The signature is checked first; the key named inside must be the same.
decode_grant(doc, key) ==
  doc.signer = key /\ doc.parses /\ check_grant_shape(doc) /\ doc.author_key = key

RulesShape(rules) ==
  /\ Len(rules) <= MAX_ACTION_RULES
  /\ \A i \in DOMAIN rules : check_rule_shape(rules[i])

decode_action_grant(doc, key) ==
  /\ doc.signer = key /\ doc.parses
  /\ RulesShape(doc.rules) /\ doc.expires_at >= doc.issued_at
  /\ doc.author_key = key

check_delegation_shape(doc) ==
  /\ Cardinality(doc.entries) <= MAX_GRANT_FILES
  /\ doc.depth <= MAX_GRANT_DEPTH
  /\ RulesShape(doc.actions)

decode_delegation(doc, key) ==
  doc.signer = key /\ doc.parses /\ check_delegation_shape(doc)

-------------------------------------------------------------------------------
(* Rules narrow along the chain: each rule of the child narrows some rule  *)
(* of the parent.  The first child that does not decides the reason.       *)

Narrows(child, parents) ==
  \E i \in DOMAIN parents :
    child.kind = parents[i].kind /\ narrower(child, parents[i]) = "Ok"

narrow_actions(parents, children) ==
  LET wide == {i \in DOMAIN children : ~Narrows(children[i], parents)}
      first == CHOOSE i \in wide : \A j \in wide : i <= j
  IN  IF wide = {} THEN "Ok"
      ELSE IF \E i \in DOMAIN parents : parents[i].kind = children[first].kind
      THEN "ActionWidens"
      ELSE "ActionNotGranted"

-------------------------------------------------------------------------------
(* The walk. *)

GrantRefusal ==
  IF ~decode_grant(grant, AuthorKey)       THEN "BadGrant"
  ELSE IF now < grant.issued_at            THEN "NotYetValid"
  ELSE IF now > grant.expires_at           THEN "Expired"
  ELSE "Ok"

ActionsRefusal ==
  IF action_grant = Absent                             THEN "Ok"
  ELSE IF ~decode_action_grant(action_grant, AuthorKey) THEN "BadActionGrant"
  ELSE IF action_grant.grant_id # grant.grant_id       THEN "ActionsWrongGrant"
  ELSE IF action_grant.expires_at > grant.expires_at   THEN "ActionsOutliveGrant"
  ELSE IF now < action_grant.issued_at                 THEN "NotYetValid"
  ELSE IF now > action_grant.expires_at                THEN "Expired"
  ELSE "Ok"

root_actions == IF action_grant = Absent THEN <<>> ELSE action_grant.rules

\* Faulty: an absent policy is pushed like any other.
TightenedAlways(doc) == <<doc.tightening>>

Tightened(doc) == IF doc.tightening = Absent THEN <<>> ELSE <<doc.tightening>>

RootFacts ==
  [grant_id |-> grant.grant_id, holder_fpr |-> grant.door_fpr,
   holder_verify |-> grant.door_verify, files |-> grant.entries,
   expires_at |-> grant.expires_at, tightening |-> Tightened(grant),
   depth_left |-> grant.max_depth, actions |-> root_actions]

WrongParent(link) ==
  link.grant_id # facts.grant_id \/ link.parent_fpr # facts.holder_fpr

\* Faulty: the child may keep the parent's depth.
DepthExhaustedLoosely(link) == facts.depth_left = 0 \/ link.depth > facts.depth_left

DepthExhausted(link) == facts.depth_left = 0 \/ link.depth >= facts.depth_left

\* Without an action grant there is nothing to narrow: the child has no rules.
ChildActions(link) == IF action_grant = Absent THEN <<>> ELSE link.actions

\* Faulty: neither the grant nor the parent is compared.
LinkRefusalAnyParent(link) ==
  IF ~decode_delegation(link, facts.holder_verify)     THEN "BadLink"
  ELSE IF DepthExhausted(link)                         THEN "DepthExhausted"
  ELSE IF ~(link.entries \subseteq facts.files)        THEN "NotASubset"
  ELSE IF link.expires_at > facts.expires_at           THEN "OutlivesParent"
  ELSE IF now > link.expires_at                        THEN "Expired"
  ELSE narrow_actions(facts.actions, ChildActions(link))

LinkRefusal(link) ==
  IF ~decode_delegation(link, facts.holder_verify)     THEN "BadLink"
  ELSE IF WrongParent(link)                            THEN "WrongParent"
  ELSE IF DepthExhausted(link)                         THEN "DepthExhausted"
  ELSE IF ~(link.entries \subseteq facts.files)        THEN "NotASubset"
  ELSE IF link.expires_at > facts.expires_at           THEN "OutlivesParent"
  ELSE IF now > link.expires_at                        THEN "Expired"
  ELSE narrow_actions(facts.actions, ChildActions(link))

NextFacts(link) ==
  [grant_id |-> facts.grant_id, holder_fpr |-> link.child_fpr,
   holder_verify |-> link.child_verify, files |-> link.entries,
   expires_at |-> link.expires_at, tightening |-> facts.tightening \o Tightened(link),
   depth_left |-> link.depth, actions |-> ChildActions(link)]

Refuse(why) ==
  stage' = "refused" /\ refusal' = why /\ UNCHANGED <<arguments, facts, taken>>

CheckGrant ==
  /\ stage = "grant" /\ GrantRefusal = "Ok"
  /\ stage' = "actions"
  /\ UNCHANGED <<arguments, facts, refusal, taken>>

RefuseGrant == stage = "grant" /\ GrantRefusal # "Ok" /\ Refuse(GrantRefusal)

CheckActionGrant ==
  /\ stage = "actions" /\ ActionsRefusal = "Ok"
  /\ stage' = "links"
  /\ facts' = RootFacts
  /\ UNCHANGED <<arguments, refusal, taken>>

RefuseActionGrant ==
  stage = "actions" /\ ActionsRefusal # "Ok" /\ Refuse(ActionsRefusal)

TakeLink(link) ==
  /\ stage = "links" /\ LinkRefusal(link) = "Ok"
  /\ facts' = NextFacts(link)
  /\ taken' = taken + 1
  /\ UNCHANGED <<arguments, stage, refusal>>

RefuseLink(link) ==
  stage = "links" /\ LinkRefusal(link) # "Ok" /\ Refuse(LinkRefusal(link))

\* The list of links is at its end.
Accept ==
  /\ stage = "links"
  /\ stage' = "accepted"
  /\ UNCHANGED <<arguments, facts, refusal, taken>>

Init ==
  /\ grant \in Grants /\ action_grant \in ActionGrants \cup {Absent} /\ now \in Moments
  /\ stage = "grant" /\ facts = Absent /\ refusal = Absent /\ taken = 0

Next ==
  \/ CheckGrant \/ RefuseGrant
  \/ CheckActionGrant \/ RefuseActionGrant
  \/ \E link \in Links : TakeLink(link)
  \/ \E link \in Links : RefuseLink(link)
  \/ Accept

Spec == Init /\ [][Next]_vars

-------------------------------------------------------------------------------
(* Correctness. *)

Granting == stage \in {"links", "accepted"}

ChainFacts ==
  [grant_id : Nat, holder_fpr : Nat, holder_verify : Nat, files : SUBSET Nat,
   expires_at : Int, tightening : Seq(Nat), depth_left : Nat, actions : Seq(ActionRule)]

\* The variables hold what their declarations say.
TypeOK ==
  /\ grant \in Grants /\ action_grant \in ActionGrants \cup {Absent} /\ now \in Moments
  /\ stage \in {"grant", "actions", "links", "accepted", "refused"}
  /\ facts \in ChainFacts \cup {Absent} /\ taken \in Nat
  /\ Granting => facts \in ChainFacts

\* Whoever ends up with rights has no more than the author signed: files,
\* lifetime and number of further hands, however many documents of however
\* many signers were presented, and every one of them is alive by the clock.
NeverBeyondTheRoot ==
  Granting =>
    /\ facts.grant_id = grant.grant_id
    /\ facts.files \subseteq grant.entries
    /\ now <= facts.expires_at /\ facts.expires_at <= grant.expires_at
    /\ facts.depth_left + taken <= grant.max_depth
    /\ taken <= MAX_GRANT_DEPTH

Permits(rules, args) == \E i \in DOMAIN rules : args_within(rules[i], args) = "Ok"

\* Every rule at the end of a chain is covered by one and the same rule of
\* the author's: it permits no execution that one does not, has no higher
\* limit of uses and no other secret; and past the first holder that rule was
\* the author's to pass on and does not ask for the owner's word.
Covers(root, rule) ==
  /\ \A args \in Requests : args_within(rule, args) = "Ok" => args_within(root, args) = "Ok"
  /\ root.max_uses = 0 \/ rule.max_uses \in 1 .. root.max_uses
  /\ rule.kind = "HttpRequest" =>
       rule.constraint.secret_ref \in {NoSecret, root.constraint.secret_ref}
  /\ taken > 0 => root.delegable /\ ~root.confirm

ActionsNeverWiden ==
  Granting =>
    \A i \in DOMAIN facts.actions :
      \E j \in DOMAIN root_actions : Covers(root_actions[j], facts.actions[i])

\* The walk does what Attenuation allows and nothing else: in particular a
\* holder that has delegated nothing under this grant keeps it to itself.
Willing == {<<link.signer, link.parent_fpr, link.grant_id>> : link \in Links}

AuthorRights ==
  [grant |-> grant.grant_id, key |-> grant.door_verify, fpr |-> grant.door_fpr,
   files |-> grant.entries, until |-> grant.expires_at, depth |-> grant.max_depth,
   may |-> {args \in Requests : Permits(root_actions, args)},
   limits |-> {Tightened(grant)[i] : i \in DOMAIN Tightened(grant)}]

HolderRights ==
  IF stage = "refused" THEN Void
  ELSE IF ~Granting THEN Absent
  ELSE [grant |-> facts.grant_id, key |-> facts.holder_verify, fpr |-> facts.holder_fpr,
        files |-> facts.files, until |-> facts.expires_at, depth |-> facts.depth_left,
        may |-> {args \in Requests : Permits(facts.actions, args)},
        limits |-> {facts.tightening[i] : i \in DOMAIN facts.tightening}]

Abstract == INSTANCE Attenuation
  WITH Nobody <- Absent, Lost <- Void, author <- AuthorRights, rights <- HolderRights

Attenuates == Abstract!Spec

===============================================================================
