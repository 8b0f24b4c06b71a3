----------------------------- MODULE MCTrainingJob -----------------------------
EXTENDS TrainingJob

Row(names, turns) == [value |-> [c \in names |-> "good"], turns |-> turns]
Bad(row, column, class) == [row EXCEPT !.value[column] = class]

Chat(column, a, b) ==
  {Row({column}, turns) : turns \in
     {<<a, b>>, <<"system", a, b, a, b>>, <<a, a, b>>, <<a, b, a>>, <<b>>, <<a, "tool">>}}

Plains ==
  {Row(c, <<>>) : c \in
     {{"instruction", "output"}, {"instruction", "response"}, {"prompt", "completion"},
      {"prompt", "response"}, {"question", "answer"}, {"context", "question", "answer"},
      {"prompt", "chosen", "rejected"}, {"instruction", "output", "context", "question", "answer"},
      {"instruction", "output", "context", "prompt", "response"}, {"other"}}}

Alpaca == Row({"instruction", "input", "output"}, <<>>)
Broken == {Bad(Alpaca, "input", "blank"), Bad(Alpaca, "input", "other"), Bad(Alpaca, "output", "blank"),
           Bad(Row({"context", "prompt", "response"}, <<>>), "context", "other")}

Uniform(S) == UNION {[1..n -> S] : n \in 1..3}
Chats == Chat("messages", "user", "assistant") \cup Chat("conversations", "human", "gpt")
           \cup {Row({"text"}, <<"user", "assistant">>), Row({"text", "messages"}, <<"user", "assistant">>),
                 Bad(Row({"messages"}, <<>>), "messages", "other")}
Datasets == Uniform(Plains \cup Broken) \cup UNION {[1..n -> Chats] : n \in 1..2}

\* An alpaca file under other names; its columns stay beside the mapped ones.
Mappings == {<<>>, [instruction |-> "question", output |-> "answer"]}

Total == 40
Steps == {<<1, Total>>, <<2, Total>>, <<Total, Total>>}
Text(w) == Whole([word |-> w, at |-> <<>>])
Bar(p) == Whole([word |-> "bar", at |-> p])

\* Up to three lines, ended alike, the last perhaps by nothing; and a phase of
\* training with bars and losses in it; and two lines with something to redact.
EndOf == {<<NL>>, <<CR>>, <<CR, NL>>}
Lines == {Text(w) : w \in {"header", "raised", "error", "warning", "plain", "training"}} \cup {<<>>}
InTraining == {Bar(p) : p \in Steps} \cup {Text(w) : w \in {"loss", "detail", "table", "completed", "training", "error"}}

\* What is redacted, whole or behind a key; a key alone hides what begins the next line.
Hidden == {Text("secret"), <<Key>> \o Text("secret"), <<Key>> \o Text("value"),
           <<Key>> \o Text("plain"), <<Key>>, Text("value")}
Outputs ==
  UNION {{a \o e \o b \o e \o c : a \in Lines, b \in Lines, c \in Lines} : e \in EndOf}
    \cup UNION {{Text("training") \o e \o a \o e \o b \o e \o c \o e :
                  a \in InTraining, b \in InTraining, c \in InTraining} : e \in {<<CR>>, <<NL>>}}
    \cup {Text(w) \o v \o e \o Text(u) : w \in {"header", "error", "training"}, v \in Hidden,
             e \in {<<NL>>, <<CR, NL>>}, u \in {"header", "error", "raised", "plain"}}

=============================================================================
