---------------------------- MODULE DatasetDetection ----------------------------
(***************************************************************************)
(* dataset_adapters/: which schema a list of rows has, whether every row   *)
(* is valid for it, and the instruction/input/output examples it becomes.  *)
(* A row is [value |-> a function from its columns to a class of values,   *)
(* turns |-> the roles of its conversation].  Of the values only this is   *)
(* told apart: "good" is a string with more than blanks (in messages and   *)
(* conversations a list of messages, in text a ChatML string), "blank" an  *)
(* empty one, "other" anything else.  A turn without content has no role.  *)
(***************************************************************************)
EXTENDS Integers, Sequences

CONSTANTS
  SampleSize,   \* rows that detection looks at, 25 in the code
  Margin        \* AdapterRegistry.ambiguity_margin, in hundredths

ASSUME DetectionAssumption == SampleSize \in Nat \ {0} /\ Margin \in Nat

Columns(row) == DOMAIN row.value

AreRows(rows) ==
  /\ rows \in Seq({rows[i] : i \in DOMAIN rows})
  /\ \A i \in DOMAIN rows :
       /\ \A c \in Columns(rows[i]) : rows[i].value[c] \in {"good", "blank", "other"}
       /\ rows[i].turns \in Seq(STRING)

\* Adapters of class FieldMappingAdapter: a column for each field of an example
\* ("" is the default for input), required columns, confidence in hundredths.
FieldSchema ==
  [alpaca |-> [required |-> {"instruction", "output"}, confidence |-> 99,
               instruction |-> "instruction", input |-> "input", output |-> "output"],
   instruction_response |-> [required |-> {"instruction", "response"}, confidence |-> 98,
               instruction |-> "instruction", input |-> "input", output |-> "response"],
   prompt_completion |-> [required |-> {"prompt", "completion"}, confidence |-> 98,
               instruction |-> "prompt", input |-> "input", output |-> "completion"],
   rag_qa |-> [required |-> {"context", "question", "answer"}, confidence |-> 100,
               instruction |-> "question", input |-> "context", output |-> "answer"],
   dpo |-> [required |-> {"prompt", "chosen", "rejected"}, confidence |-> 100,
               instruction |-> "prompt", input |-> "chosen", output |-> "rejected"]]

\* Conversation adapters: the column, and how its roles are read.
ChatColumn == [openai_chat |-> "messages", sharegpt |-> "conversations", chatml |-> "text"]
RoleMap == [human |-> "user", gpt |-> "assistant", system |-> "system"]
RoleIn(s, role) == IF s = "sharegpt" /\ role \in DOMAIN RoleMap THEN RoleMap[role] ELSE role
Roles(s, row) == [t \in DOMAIN row.turns |-> RoleIn(s, row.turns[t])]

Schema == DOMAIN FieldSchema \cup {"qa_json"} \cup DOMAIN ChatColumn

\* qa_json: question and answer, or the older prompt and response.
IsVariant(row, v) == v \subseteq Columns(row)
QuestionAnswer(row) ==
  IF IsVariant(row, {"question", "answer"}) THEN <<"question", "answer">>
  ELSE <<"prompt", "response">>
HasVariant(row) ==
  IsVariant(row, {"question", "answer"}) \/ IsVariant(row, {"prompt", "response"})

-----------------------------------------------------------------------------
(* Detection: AdapterRegistry.select                                        *)

Sample(rows) == SubSeq(rows, 1, IF Len(rows) < SampleSize THEN Len(rows) ELSE SampleSize)

MatchesRow(s, row) ==
  CASE s \in DOMAIN FieldSchema -> FieldSchema[s].required \subseteq Columns(row)
    [] s = "qa_json" -> HasVariant(row)
    [] s \in DOMAIN ChatColumn -> /\ ChatColumn[s] \in Columns(row)
                                  /\ row.value[ChatColumn[s]] = "good"

Matches(rows) == {s \in Schema : \A i \in DOMAIN rows : MatchesRow(s, rows[i])}

Confidence(s, rows) ==
  CASE s \in DOMAIN FieldSchema -> FieldSchema[s].confidence
    [] s = "qa_json" -> IF \E i \in DOMAIN rows : "context" \in Columns(rows[i]) THEN 86 ELSE 98
    [] s \in DOMAIN ChatColumn -> 100

\* The candidate that every other is behind by more than the margin, if there is
\* one: the adapters are sorted, so their order of registration is of no account.
Clear(rows) ==
  {s \in Matches(rows) :
     \A o \in Matches(rows) \ {s} : Confidence(s, rows) - Confidence(o, rows) > Margin}

\* An explicit format is not weighed against others.
Select(rows, format) == IF format = "auto" THEN Clear(Sample(rows)) ELSE {format}

-----------------------------------------------------------------------------
(* Validation of every row                                                  *)

Good(row, columns) == columns \subseteq Columns(row) /\ \A c \in columns : row.value[c] = "good"
IsString(row, column) == column \in Columns(row) => row.value[column] # "other"

\* Each user turn is answered, a system message only comes before them.  The loop
\* over the turns carries whether a user was seen and whether one waits.
Alternates(roles) ==
  LET seen[t \in 0 .. Len(roles)] == t > 0 /\ (seen[t - 1] \/ roles[t] = "user")
      waiting[t \in 0 .. Len(roles)] ==
        t > 0 /\ (roles[t] = "user" \/ (roles[t] = "system" /\ waiting[t - 1]))
      Answers == {t \in DOMAIN roles : roles[t] = "assistant"}
  IN  /\ \A t \in DOMAIN roles :
           \/ roles[t] = "system" /\ ~seen[t - 1]
           \/ roles[t] = "user" /\ ~waiting[t - 1]
           \/ roles[t] = "assistant" /\ seen[t - 1] /\ waiting[t - 1]
      /\ Answers # {} /\ ~waiting[Len(roles)]

ValidRow(s, row) ==
  CASE s \in DOMAIN FieldSchema ->
         /\ Good(row, FieldSchema[s].required)
         /\ IsString(row, FieldSchema[s].input)
    [] s = "qa_json" ->
         /\ HasVariant(row)
         /\ Good(row, {QuestionAnswer(row)[1], QuestionAnswer(row)[2]})
         /\ IsString(row, "context")
    [] s \in DOMAIN ChatColumn ->
         MatchesRow(s, row) /\ Alternates(Roles(s, row))

\* Mutant: only the rows that detection looked at are validated.
ValidSample(s, rows) == \A i \in DOMAIN Sample(rows) : ValidRow(s, rows[i])
Valid(s, rows) == rows # <<>> /\ \A i \in DOMAIN rows : ValidRow(s, rows[i])

-----------------------------------------------------------------------------
(* Conversion.  An example names where its parts come from: a column each, or  *)
(* the user's turn, the number of turns before it, and the assistant's turn.   *)

FromColumns(row, instruction, input, output) ==
  [instruction |-> instruction, output |-> output,
   input |-> IF input \in Columns(row) THEN input ELSE ""]

\* messages_to_sft: each assistant turn with the user turn before it and the
\* history up to that.
NoTurns == [user |-> 0, examples |-> <<>>]
ReadTurn(before, role, t) ==
  CASE role = "user" -> [before EXCEPT !.user = t]
    [] role = "assistant" /\ before.user # 0 ->
         [user |-> 0,
          examples |-> Append(before.examples,
            [instruction |-> before.user, input |-> before.user - 1, output |-> t])]
    [] OTHER -> before

FromTurns(roles) ==
  LET state[t \in 0 .. Len(roles)] ==
        IF t = 0 THEN NoTurns ELSE ReadTurn(state[t - 1], roles[t], t)
  IN  state[Len(roles)].examples

\* The examples of one row.
Examples(s, row) ==
  CASE s \in DOMAIN FieldSchema ->
         <<FromColumns(row, FieldSchema[s].instruction, FieldSchema[s].input, FieldSchema[s].output)>>
    [] s = "qa_json" ->
         <<FromColumns(row, QuestionAnswer(row)[1], "context", QuestionAnswer(row)[2])>>
    [] s \in DOMAIN ChatColumn -> FromTurns(Roles(s, row))

Trainable(s) == s # "dpo"

\* dataset.columns: the target becomes a copy of the source, which stays.
Mapped(row, columns) ==
  [turns |-> row.turns,
   value |-> [c \in Columns(row) \cup DOMAIN columns |->
                row.value[IF c \in DOMAIN columns THEN columns[c] ELSE c]]]
CanMap(rows, columns) ==
  \A i \in DOMAIN rows : \A c \in DOMAIN columns : columns[c] \in Columns(rows[i])

=============================================================================
