----------------------------- MODULE LineProtocol ----------------------------
(***************************************************************************)
(* The model's structured replies (llm/line_protocol.py): documents of     *)
(* BEGIN and END lines and of scalar lines, parsed with a stack and then   *)
(* decoded as the reply that was asked for.                                *)
(*                                                                         *)
(* A line's name is its block type or its field, in upper case; its value  *)
(* is a member of a small set of JSON values.  "malformed" is text that is *)
(* not JSON, "blank" an empty text.  A document starts as a well-formed    *)
(* reply and is then edited line by line, as a model misremembers it.      *)
(***************************************************************************)
EXTENDS Naturals, FiniteSets, Sequences, SequencesExt

CONSTANTS
  Seeds,            \* the well-formed replies, by what was asked for
  Values,           \* the values an edit may write
  Names,            \* the names an edit may write
  MaxEdits,         \* edits of one reply
  CriterionCount,   \* criterion_count of a judgment
  ExpectedRevision  \* expected_revision of a plan, as a value

VARIABLES
  asked,            \* what the reply was asked to be
  doc,              \* its lines
  edits             \* how often it was edited

lvars == <<asked, doc, edits>>

Begin(type)  == [kind |-> "begin", name |-> type, value |-> ""]
End(type)    == [kind |-> "end", name |-> type, value |-> ""]
Scalar(field, value) == [kind |-> "scalar", name |-> field, value |-> value]
Prose        == [kind |-> "other", name |-> "", value |-> ""]

Numeral  == <<"1", "2", "3">>
Booleans == {"true", "false"}
Texts    == {"text", "a", "b", "completed", "failed", "need_tool"}

(***************************************************************************)
(* parse_line_protocol.  The result is the set of blocks it returns: one,  *)
(* or none when it raises.  A block keeps the values of each of its fields *)
(* and its children in order.                                              *)
(***************************************************************************)
NoField == [field \in {} |-> <<>>]
Block(type) == [type |-> type, fields |-> NoField, children |-> <<>>]

WithValue(block, field, value) ==
  LET values == IF field \in DOMAIN block.fields THEN block.fields[field] ELSE <<>>
  IN  [block EXCEPT !.fields = [f \in DOMAIN @ \cup {field} |->
                                  IF f = field THEN Append(values, value) ELSE @[f]]]

Start == [stack |-> <<>>, root |-> {}, error |-> FALSE]
Reject(parse) == [parse EXCEPT !.error = TRUE]

\* Only a root block may end with an empty stack, and only once.
Ended(parse) ==
  LET block == Last(parse.stack)
      rest  == Front(parse.stack)
  IN  IF rest = <<>> THEN [parse EXCEPT !.stack = <<>>, !.root = {block}]
      ELSE [parse EXCEPT !.stack =
              [rest EXCEPT ![Len(rest)].children = Append(@, block)]]

Read(parse, line) ==
  CASE parse.error -> parse
    [] line.kind = "begin" ->
         IF parse.stack = <<>> /\ parse.root # {} THEN Reject(parse)
         ELSE [parse EXCEPT !.stack = Append(@, Block(line.name))]
    [] line.kind = "end" /\ parse.stack # <<>> ->
         IF Last(parse.stack).type = line.name THEN Ended(parse) ELSE Reject(parse)
    [] line.kind = "scalar" /\ parse.stack # <<>> /\ line.value # "malformed" ->
         [parse EXCEPT !.stack =
            [@ EXCEPT ![Len(@)] = WithValue(@, line.name, line.value)]]
    [] OTHER -> Reject(parse)

\* CODEC_REGISTRY, for the replies modelled here.
Registry ==
  [PLAN |-> [fields |-> {"REVISION", "GOAL"}, children |-> {"STEP"}],
   STEP |-> [fields |-> {"ID", "INTENT", "COMPLETION_CRITERION"}, children |-> {}],
   ANSWER |-> [fields |-> {"TEXT"}, children |-> {}],
   REACT_DECISION |-> [fields |-> {"STATUS", "ANSWER", "ERROR"}, children |-> {}],
   GOAL_JUDGMENT |-> [fields |-> {"COMPLETED", "EVIDENCE", "GAP"}, children |-> {}],
   COMPLETION_PROGRESS |->
     [fields |-> {"ALL_COMPLETED", "ANSWER"},
      children |-> {"CRITERION_VERDICT", "COMPLETED_CRITERION"}],
   CRITERION_VERDICT |->
     [fields |-> {"NUMBER", "VERIFIED", "EVIDENCE", "GAP"}, children |-> {}],
   STEP_COMPLETION_PROGRESS |->
     [fields |-> {"ALL_COMPLETED"}, children |-> {"COMPLETED_CRITERION"}],
   COMPLETED_CRITERION |-> [fields |-> {"NUMBER", "EVIDENCE"}, children |-> {}]]

\* None of these fields may be repeated.
Declared(block) ==
  /\ block.type \in DOMAIN Registry
  /\ DOMAIN block.fields \subseteq Registry[block.type].fields
  /\ \A field \in DOMAIN block.fields : Len(block.fields[field]) = 1

\* No declared child has children of its own.
Registered(root) ==
  /\ Declared(root) /\ root.type # "STEP"
  /\ \A child \in ToSet(root.children) :
       /\ child.type \in Registry[root.type].children
       /\ Declared(child) /\ child.children = <<>>

Parsed(lines) ==
  LET parse == FoldLeft(Read, Start, lines)
  IN  IF parse.error \/ parse.stack # <<>> THEN {}
      ELSE {root \in parse.root : Registered(root)}

(***************************************************************************)
(* The decoders: the set of meanings of a block, one or none.              *)
(***************************************************************************)
Value(block, field) == block.fields[field][1]
Fields(block) == DOMAIN block.fields
IsText(block, field) == Value(block, field) \in Texts

\* decode_completion_judgment: the criteria that are verified now.
IsVerdict(child, number) ==
  /\ {"NUMBER", "VERIFIED"} \subseteq Fields(child)
  /\ Value(child, "NUMBER") = Numeral[number]
  /\ Value(child, "VERIFIED") \in Booleans
  /\ LET detail == IF Value(child, "VERIFIED") = "true" THEN "EVIDENCE" ELSE "GAP"
     IN  Fields(child) = {"NUMBER", "VERIFIED", detail} /\ IsText(child, detail)

VerifiedBy(root) ==
  {k \in DOMAIN root.children : Value(root.children[k], "VERIFIED") = "true"}

\* Mutant of IsJudgment: the verdicts are not compared with ALL_COMPLETED.
IsJudgmentClaimed(root) ==
  /\ root.type = "COMPLETION_PROGRESS" /\ Fields(root) = {"ALL_COMPLETED"}
  /\ Value(root, "ALL_COMPLETED") \in Booleans
  /\ Len(root.children) = CriterionCount
  /\ \A k \in DOMAIN root.children :
       root.children[k].type = "CRITERION_VERDICT" /\ IsVerdict(root.children[k], k)

IsJudgment(root) ==
  /\ root.type = "COMPLETION_PROGRESS" /\ Fields(root) = {"ALL_COMPLETED"}
  /\ Value(root, "ALL_COMPLETED") \in Booleans
  /\ Len(root.children) = CriterionCount
  /\ \A k \in DOMAIN root.children :
       root.children[k].type = "CRITERION_VERDICT" /\ IsVerdict(root.children[k], k)
  /\ Value(root, "ALL_COMPLETED") = "true" <=> VerifiedBy(root) = DOMAIN root.children

\* decode_step_completion_progress, for the one criterion of a Plan step.
IsStepJudgment(root) ==
  /\ root.type = "STEP_COMPLETION_PROGRESS" /\ Fields(root) = {"ALL_COMPLETED"}
  /\ Value(root, "ALL_COMPLETED") \in Booleans
  /\ Len(root.children) <= 1
  /\ \A child \in ToSet(root.children) :
       /\ Fields(child) = {"NUMBER", "EVIDENCE"}
       /\ Value(child, "NUMBER") = "1" /\ IsText(child, "EVIDENCE")
  /\ Value(root, "ALL_COMPLETED") = "true" <=> root.children # <<>>

IsGoalJudgment(root) ==
  /\ root.type = "GOAL_JUDGMENT" /\ "COMPLETED" \in Fields(root)
  /\ Value(root, "COMPLETED") \in Booleans
  /\ LET detail == IF Value(root, "COMPLETED") = "true" THEN "EVIDENCE" ELSE "GAP"
     IN  Fields(root) = {"COMPLETED", detail} /\ IsText(root, detail)

DecisionFields ==
  [completed |-> {"STATUS", "ANSWER"}, failed |-> {"STATUS", "ERROR"}, need_tool |-> {"STATUS"}]

IsDecision(root) ==
  /\ root.type = "REACT_DECISION" /\ "STATUS" \in Fields(root)
  /\ Value(root, "STATUS") \in DOMAIN DecisionFields
  /\ Fields(root) = DecisionFields[Value(root, "STATUS")]
  /\ \A field \in Fields(root) : IsText(root, field)

IsAnswer(root) ==
  root.type = "ANSWER" /\ Fields(root) = {"TEXT"} /\ IsText(root, "TEXT")

StepIds(root) == [k \in DOMAIN root.children |-> Value(root.children[k], "ID")]

IsPlan(root) ==
  /\ root.type = "PLAN" /\ Fields(root) = {"REVISION", "GOAL"}
  /\ root.children # <<>>
  /\ Value(root, "REVISION") = ExpectedRevision /\ IsText(root, "GOAL")
  /\ \A child \in ToSet(root.children) :
       /\ Fields(child) = {"ID", "INTENT", "COMPLETION_CRITERION"}
       /\ \A field \in Fields(child) : IsText(child, field)
  /\ Cardinality(ToSet(StepIds(root))) = Len(root.children)

Decoded(kind, lines) ==
  LET roots(Valid(_)) == {root \in Parsed(lines) : Valid(root)}
  IN  CASE kind = "judgment" -> {VerifiedBy(root) : root \in roots(IsJudgment)}
        [] kind = "step" -> {root.children # <<>> : root \in roots(IsStepJudgment)}
        [] kind = "goal" -> {Value(root, "COMPLETED") : root \in roots(IsGoalJudgment)}
        [] kind = "decision" -> {Value(root, "STATUS") : root \in roots(IsDecision)}
        [] kind = "answer" -> {Value(root, "TEXT") : root \in roots(IsAnswer)}
        [] kind = "plan" -> {StepIds(root) : root \in roots(IsPlan)}

(***************************************************************************)
(* A reply, and what may become of it: a line is lost, repeated, moved, or *)
(* gets another value or name, or prose slips in.                          *)
(***************************************************************************)
LInit ==
  /\ asked \in DOMAIN Seeds
  /\ doc \in Seeds[asked]
  /\ edits = 0

Edited(i) ==
  {RemoveAt(doc, i), InsertAt(doc, i, doc[i]), InsertAt(doc, i, Prose)}
    \cup {[doc EXCEPT ![i] = doc[j], ![j] = doc[i]] : j \in {i, i + 1} \cap DOMAIN doc}
    \cup {[doc EXCEPT ![i].value = value] : value \in IF doc[i].kind = "scalar" THEN Values ELSE {}}
    \cup {[doc EXCEPT ![i].name = name] : name \in Names}

Edit ==
  /\ edits < MaxEdits
  /\ edits' = edits + 1
  /\ \E i \in DOMAIN doc : doc' \in Edited(i)
  /\ UNCHANGED asked

LSpec == LInit /\ [][Edit]_lvars

-----------------------------------------------------------------------------
(***************************************************************************)
(* The reference: what the lines of a reply say, read by position.         *)
(***************************************************************************)
IsBoundary(i) == doc[i].kind \in {"begin", "end"}

\* The blocks inside the outermost one, as their first and last lines.
Inner ==
  {<<i, j>> \in (2 .. Len(doc) - 1) \X (2 .. Len(doc) - 1) :
     /\ i < j /\ doc[i] = Begin(doc[i].name) /\ doc[j] = End(doc[i].name)
     /\ \A k \in i + 1 .. j - 1 : ~IsBoundary(k)}

Within(b) == b[1] + 1 .. b[2] - 1

\* Exactly these fields, once each.
Exactly(places, fields) ==
  /\ \A k \in places : doc[k].kind = "scalar"
  /\ {doc[k].name : k \in places} = fields
  /\ Cardinality(places) = Cardinality(fields)

Says(places, field, values) ==
  \E k \in places : doc[k].name = field /\ doc[k].value \in values

Detail(positive) == IF positive THEN "EVIDENCE" ELSE "GAP"
Word(truth) == IF truth THEN "true" ELSE "false"

\* A claim, and the evidence or the gap that goes with it.
Supported(places, claim, truth, others) ==
  /\ Exactly(places, {claim, Detail(truth)} \cup others)
  /\ Says(places, claim, {Word(truth)})
  /\ Says(places, Detail(truth), Texts)

\* The number of the inner block b.
Nth(inner, b) == Cardinality({c \in inner : c[1] <= b[1]})

SaysJudgment(own, inner, verified) ==
  /\ Cardinality(inner) = CriterionCount
  /\ Exactly(own, {"ALL_COMPLETED"})
  /\ Says(own, "ALL_COMPLETED", {Word(verified = 1 .. CriterionCount)})
  /\ \A b \in inner :
       /\ Supported(Within(b), "VERIFIED", Nth(inner, b) \in verified, {"NUMBER"})
       /\ Says(Within(b), "NUMBER", {Numeral[Nth(inner, b)]})

SaysStep(own, inner, accepted) ==
  /\ Exactly(own, {"ALL_COMPLETED"})
  /\ Says(own, "ALL_COMPLETED", {Word(accepted)})
  /\ Cardinality(inner) = IF accepted THEN 1 ELSE 0
  /\ \A b \in inner :
       /\ Exactly(Within(b), {"NUMBER", "EVIDENCE"})
       /\ Says(Within(b), "NUMBER", {"1"})
       /\ Says(Within(b), "EVIDENCE", Texts)

SaysDecision(own, status) ==
  /\ Exactly(own, DecisionFields[status])
  /\ Says(own, "STATUS", {status})
  /\ \A field \in DecisionFields[status] : Says(own, field, Texts)

StepFields == {"ID", "INTENT", "COMPLETION_CRITERION"}

SaysPlan(own, inner, ids) ==
  /\ Exactly(own, {"REVISION", "GOAL"})
  /\ Says(own, "REVISION", {ExpectedRevision}) /\ Says(own, "GOAL", Texts)
  /\ Cardinality(inner) = Len(ids) /\ ids # <<>>
  /\ IsInjective(ids)
  /\ \A b \in inner :
       /\ Exactly(Within(b), StepFields)
       /\ Says(Within(b), "ID", {ids[Nth(inner, b)]})
       /\ \A field \in StepFields : Says(Within(b), field, Texts)

\* What is asked for is one block of a type, with blocks of one type inside.
Form ==
  [judgment |-> <<"COMPLETION_PROGRESS", "CRITERION_VERDICT">>,
   step |-> <<"STEP_COMPLETION_PROGRESS", "COMPLETED_CRITERION">>,
   goal |-> <<"GOAL_JUDGMENT", "">>, decision |-> <<"REACT_DECISION", "">>,
   answer |-> <<"ANSWER", "">>, plan |-> <<"PLAN", "STEP">>]

Meanings ==
  LET inner == Inner
      own   == {k \in 2 .. Len(doc) - 1 : \A b \in inner : k \notin b[1] .. b[2]}
      ids   == {doc[k].value : k \in {k \in DOMAIN doc : doc[k].name = "ID"}} \cap Texts
      formed == /\ Len(doc) >= 2
                /\ doc[1] = Begin(Form[asked][1]) /\ doc[Len(doc)] = End(Form[asked][1])
                /\ \A k \in own : ~IsBoundary(k)
                /\ \A b \in inner : doc[b[1]].name = Form[asked][2]
  IN  CASE ~formed -> {}
        [] asked = "judgment" -> {v \in SUBSET (1 .. CriterionCount) : SaysJudgment(own, inner, v)}
        [] asked = "step" -> {accepted \in BOOLEAN : SaysStep(own, inner, accepted)}
        [] asked = "goal" ->
             {Word(truth) : truth \in {t \in BOOLEAN : Supported(own, "COMPLETED", t, {})}}
        [] asked = "decision" -> {status \in DOMAIN DecisionFields : SaysDecision(own, status)}
        [] asked = "answer" ->
             {text \in Texts : Exactly(own, {"TEXT"}) /\ Says(own, "TEXT", {text})}
        [] asked = "plan" -> {plan \in BoundedSeq(ids, 2) : SaysPlan(own, inner, plan)}

\* A reply is accepted exactly when it is one complete block that says one
\* thing, and is taken for what it says: a judgment gives each criterion one
\* verdict, in order and with its evidence or gap, and claims completion when
\* all of them are verified; a plan has the expected revision and steps with
\* distinct IDs; a decision has the fields of its status.
DecodedAsWritten == Decoded(asked, doc) = Meanings
=============================================================================
