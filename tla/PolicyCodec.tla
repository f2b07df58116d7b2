------------------------------ MODULE PolicyCodec ------------------------------
(***************************************************************************)
(* The policy as it stands in a header: encode and decode of               *)
(* crates/oc-format/src/policy_codec.rs over the records of tlv.rs.        *)
(*                                                                         *)
(* A TLV string is the sequence of its fields, a tag and a value each.     *)
(* Bytes of a value that select something (a rule, a binding, the kind of  *)
(* a validity) are numbers; a number of fixed width is that number, and    *)
(* the empty value of max_opens is None.                                   *)
(***************************************************************************)
EXTENDS Policy, Sequences, FiniteSets

-------------------------------------------------------------------------------
(* TLV. *)

Field(tag, value) == [tag |-> tag, value |-> value]

\* Reader and writer take a tag only above the one before it.
Ascending(fields) ==
  \A i, j \in DOMAIN fields : i < j => fields[i].tag < fields[j].tag

TagsOf(fields) == {fields[i].tag : i \in DOMAIN fields}

ValueOf(fields, tag) == fields[CHOOSE i \in DOMAIN fields : fields[i].tag = tag].value

\* The fields of a map from tags to values, written in the order of their tags.
InTagOrder(byTag) ==
  LET Tag(i) == CHOOSE t \in DOMAIN byTag : Cardinality({u \in DOMAIN byTag : u < t}) = i - 1
  IN  [i \in 1 .. Cardinality(DOMAIN byTag) |-> Field(Tag(i), byTag[Tag(i)])]

-------------------------------------------------------------------------------
(* The numbers of the format. *)

TAG_ACTIONS == 1
TAG_VALIDITY == 2
TAG_NETWORK == 3
TAG_MIN_BINDING == 4
TAG_MAX_OPENS == 5
TAG_WATERMARK == 6
TAG_ACTION_BINDING == 7

FIRST_ACTION_BINDING_VERSION == 4

ActionTag ==
  [a \in Action |->
     CASE a = "View" -> 1 [] a = "Edit" -> 2 [] a = "Print" -> 3
       [] a = "Clipboard" -> 4 [] a = "Export" -> 5 [] a = "Screenshot" -> 6]

KnownTags == {ActionTag[a] : a \in Action}

RULE_ALLOW == 1
RULE_DENY == 0

OPENS_WHEN_THE_FIELD_IS_ABSENT == 1

\* Software, Hardware and HardwareAttested are 1, 2 and 3: a zeroed byte is no binding.
encode_binding(binding) == binding + 1
ReadableBinding(byte) == byte \in {encode_binding(b) : b \in Binding}
decode_binding(byte) == byte - 1

encode_validity(v) ==
  CASE v.kind = "Always" -> <<1>>
    [] v.kind = "Window" -> <<2, v.not_before, v.not_after>>
    [] v.kind = "FromFirstOpen" -> <<3, v.seconds>>

ReadableValidity(value) == <<value[1], Len(value)>> \in {<<1, 1>>, <<2, 3>>, <<3, 2>>}

decode_validity(value) ==
  CASE value[1] = 1 -> Always
    [] value[1] = 2 -> Window(value[2], value[3])
    [] value[1] = 3 -> FromFirstOpen(value[2])

encode_network(n) ==
  IF n.kind = "StrictOnline" THEN <<1>> ELSE <<2, n.seconds, n.max_offline_seconds>>

ReadableNetwork(value) == <<value[1], Len(value)>> \in {<<1, 1>>, <<2, 3>>}

decode_network(value) ==
  IF value[1] = 1 THEN StrictOnline ELSE LeaseNetwork(value[2], value[3])

-------------------------------------------------------------------------------
(* Writing. *)

RuleOf(policy, action) == IF action \in policy.actions THEN RULE_ALLOW ELSE RULE_DENY

\* Every known action with its rule, every unknown one as a denial; a known
\* tag listed as unknown is written once, with its rule.
RulesByTag(policy) ==
  [t \in KnownTags \cup policy.unknown_actions |->
     IF t \in KnownTags THEN RuleOf(policy, CHOOSE a \in Action : ActionTag[a] = t)
     ELSE RULE_DENY]

BindingsByTag(policy) ==
  [t \in KnownTags |->
     encode_binding(policy.action_binding[CHOOSE a \in Action : ActionTag[a] = t])]

encode_policy(version, policy) ==
  << Field(TAG_ACTIONS, InTagOrder(RulesByTag(policy))),
     Field(TAG_VALIDITY, encode_validity(policy.validity)),
     Field(TAG_NETWORK, encode_network(policy.network)),
     Field(TAG_MIN_BINDING, encode_binding(policy.min_binding)),
     Field(TAG_MAX_OPENS, policy.max_opens),
     Field(TAG_WATERMARK, IF policy.watermark THEN 1 ELSE 0) >>
  \o IF version >= FIRST_ACTION_BINDING_VERSION
     THEN << Field(TAG_ACTION_BINDING, InTagOrder(BindingsByTag(policy))) >>
     ELSE << >>

-------------------------------------------------------------------------------
(* Reading. *)

Required(version) ==
  {TAG_ACTIONS, TAG_VALIDITY, TAG_NETWORK, TAG_MIN_BINDING} \cup
  (IF version >= FIRST_ACTION_BINDING_VERSION THEN {TAG_ACTION_BINDING} ELSE {})

\* No tag of a policy may be skipped, whatever its range.
Understood(version) == Required(version) \cup {TAG_MAX_OPENS, TAG_WATERMARK}

\* decode refuses what is not of this shape.
PolicyReadable(version, fields) ==
  /\ Ascending(fields)
  /\ Required(version) \subseteq TagsOf(fields)
  /\ TagsOf(fields) \subseteq Understood(version)
  /\ Ascending(ValueOf(fields, TAG_ACTIONS))
  /\ ReadableValidity(ValueOf(fields, TAG_VALIDITY))
  /\ ReadableNetwork(ValueOf(fields, TAG_NETWORK))
  /\ ReadableBinding(ValueOf(fields, TAG_MIN_BINDING))
  /\ TAG_ACTION_BINDING \in TagsOf(fields) =>
       LET entries == ValueOf(fields, TAG_ACTION_BINDING)
       IN  Ascending(entries) /\ \A i \in DOMAIN entries : ReadableBinding(entries[i].value)

\* Exactly one byte allows.
AllowedBy(rules) ==
  {a \in Action : \E i \in DOMAIN rules :
     rules[i].tag = ActionTag[a] /\ rules[i].value = RULE_ALLOW}

\* An action without an entry keeps the weakest binding.
BindingBy(entries) ==
  [a \in Action |->
     IF ActionTag[a] \in TagsOf(entries)
     THEN decode_binding(ValueOf(entries, ActionTag[a])) ELSE Software]

\* Faulty: what is absent is as in deny_all, which lifts both obligations.
WhenAbsentLax == [max_opens |-> None, watermark |-> FALSE]

\* What the two fields that may be absent are then read as.
WhenAbsent == [max_opens |-> OPENS_WHEN_THE_FIELD_IS_ABSENT, watermark |-> TRUE]

\* decode of fields that are PolicyReadable.
decode_policy(fields) ==
  LET Given(tag) == tag \in TagsOf(fields)
      rules == ValueOf(fields, TAG_ACTIONS)
  IN  [actions         |-> AllowedBy(rules),
       validity        |-> decode_validity(ValueOf(fields, TAG_VALIDITY)),
       max_opens       |-> IF Given(TAG_MAX_OPENS) THEN ValueOf(fields, TAG_MAX_OPENS)
                           ELSE WhenAbsent.max_opens,
       network         |-> decode_network(ValueOf(fields, TAG_NETWORK)),
       min_binding     |-> decode_binding(ValueOf(fields, TAG_MIN_BINDING)),
       action_binding  |-> IF Given(TAG_ACTION_BINDING)
                           THEN BindingBy(ValueOf(fields, TAG_ACTION_BINDING))
                           ELSE deny_all.action_binding,
       watermark       |-> IF Given(TAG_WATERMARK) THEN ValueOf(fields, TAG_WATERMARK) # 0
                           ELSE WhenAbsent.watermark,
       unknown_actions |-> TagsOf(rules) \ KnownTags]

===============================================================================
