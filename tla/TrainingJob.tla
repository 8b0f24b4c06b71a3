------------------------------ MODULE TrainingJob ------------------------------
(***************************************************************************)
(* The way of one dataset through a training job: train_pipeline.py has    *)
(* it detected, validated and converted (module DatasetDetection), then    *)
(* runs the trainer and copies what it prints, chunk by chunk and each     *)
(* redacted on its own, to the log and through the filter to the console   *)
(* (trainer.py, security.py, ConsoleOutput).                               *)
(***************************************************************************)
EXTENDS DatasetDetection, ConsoleOutput

CONSTANTS
  Dataset,     \* sequences of rows that a source may hold
  Format,      \* values of dataset.format
  Mapping,     \* values of dataset.columns, an empty function if there is none
  Output,      \* what the trainer may print
  Verbosity,   \* values of observability.console_verbosity
  ChunkSize    \* tokens that one read returns at most

ASSUME JobAssumption ==
  /\ \A d \in Dataset : AreRows(d)
  /\ \A o \in Output : o \in Seq({o[i] : i \in DOMAIN o})
  /\ "auto" \in Format /\ Format \subseteq Schema \cup {"auto"}
  /\ Verbosity \subseteq {"quiet", "concise", "full"} /\ ChunkSize \in Nat \ {0}

VARIABLES
  stage,
  rows, format, columns, schema,   \* the dataset in hand, <<>> once it is written
  output,      \* all the trainer prints
  read,        \* how much of it has been read
  log,         \* training.log
  torn,        \* where a read has cut something to be redacted (for the properties)
  formatter    \* the filter, with what is on the console

dataset == <<rows, format, columns, schema>>
console == <<output, read, log, torn, formatter>>
vars == <<stage, dataset, console>>

Init ==
  /\ stage = "loaded"
  /\ rows \in Dataset /\ format \in Format /\ columns \in Mapping /\ schema = "none"
  /\ output = <<>> /\ read = 0 /\ log = <<>> /\ torn = {} /\ formatter = Formatter("quiet")

Step(from, to) == stage = from /\ stage' = to

-----------------------------------------------------------------------------
(* _prepare_training_run                                                    *)

MapColumns ==
  /\ Step("loaded", IF CanMap(rows, columns) THEN "mapped" ELSE "rejected")
  /\ rows' = IF CanMap(rows, columns) THEN [i \in DOMAIN rows |-> Mapped(rows[i], columns)] ELSE rows
  /\ UNCHANGED <<format, columns, schema, console>>

SelectSchema ==
  /\ \/ \E s \in Select(rows, format) : Step("mapped", "selected") /\ schema' = s
     \/ Select(rows, format) = {} /\ Step("mapped", "rejected") /\ UNCHANGED schema
  /\ UNCHANGED <<rows, format, columns, console>>

ValidateRows ==
  /\ Step("selected", IF Valid(schema, rows) THEN "valid" ELSE "rejected")
  /\ UNCHANGED <<dataset, console>>

\* The conversion, then the task of the schema.
ConvertRows ==
  /\ Step("valid", IF Trainable(schema) THEN "converted" ELSE "rejected")
  /\ UNCHANGED <<dataset, console>>

\* validate_unified_dataset: an example has instruction, input and output, and
\* is made of strings.
IsExample(row, e) ==
  \/ schema \in DOMAIN ChatColumn   \* of turns, which have content
  \/ /\ Good(row, {e.instruction, e.output})
     /\ e.input = "" \/ IsString(row, e.input)

ValidateExamples ==
  /\ Step("converted",
          IF \A i \in DOMAIN rows : \A k \in DOMAIN Examples(schema, rows[i]) :
               IsExample(rows[i], Examples(schema, rows[i])[k])
          THEN "prepared" ELSE "inconsistent")
  /\ UNCHANGED <<dataset, console>>

-----------------------------------------------------------------------------
(* run_training                                                             *)

StartTrainer ==
  /\ Step("prepared", "training")
  /\ rows' = <<>> /\ columns' = <<>> /\ schema' = "none" /\ format' = "auto"
  /\ output' \in Output
  /\ \E v \in Verbosity : formatter' = Formatter(v)
  /\ UNCHANGED <<read, log, torn>>

Ahead == SubSeq(output, read + 1, Len(output))

\* redact_text: a configured secret is hidden, and after a key (or a key, a colon
\* and the ends of lines) all up to the next space, which is in the middle of
\* every text that is not unbroken.  To hide token i of o takes the tokens from
\* first to last.  (Not two keys in a row.)
Secret == [word |-> "secret", at |-> <<>>]
Unbroken == {Secret, [word |-> "value", at |-> <<>>]}
HidesSecret(o, i, first, last) ==
  /\ last = first + 1 /\ i \in {first, last}
  /\ o[first] = Whole(Secret)[1] /\ o[last] = Whole(Secret)[2]
HidesValue(o, i, first, last) ==
  /\ o[first] = Key /\ first < i /\ i <= last
  /\ \E k \in {last - 1, last} :
       /\ first < k /\ k <= i /\ o[k].half = 1
       /\ \A j \in first + 1 .. k - 1 : o[j] \in Ends
       /\ k < last => o[k].text \in Unbroken /\ o[last] = Whole(o[k].text)[2]
Hides(o, i, first, last) == HidesSecret(o, i, first, last) \/ HidesValue(o, i, first, last)

Redact(chunk) ==
  [i \in DOMAIN chunk |->
     IF \E first, last \in DOMAIN chunk : Hides(chunk, i, first, last) THEN Mask ELSE chunk[i]]

Tears(cut) ==
  \E first \in 1 .. cut, last \in cut + 1 .. Len(output) :
    \E i \in first .. last : Hides(output, i, first, last)

ReadChunk ==
  /\ Step("training", "training")
  /\ \E n \in 1 .. ChunkSize :
       /\ n <= Len(Ahead) /\ read' = read + n
       /\ log' = log \o Redact(SubSeq(Ahead, 1, n))
       /\ formatter' = Feed(formatter, Redact(SubSeq(Ahead, 1, n)))
  /\ torn' = IF Tears(read') THEN torn \cup {read'} ELSE torn
  /\ UNCHANGED <<dataset, output>>

\* The output ends; or the trainer is killed and prints no more.
TrainerEnds ==
  /\ \/ Ahead = <<>> /\ stage' \in {"trained", "exited"}
     \/ Ahead # <<>> /\ stage' = "exited"
  /\ stage = "training"
  /\ output' = SubSeq(output, 1, read)
  /\ formatter' = Close(formatter)
  /\ UNCHANGED <<dataset, read, log, torn>>

\* A read of the source or a write fails, or the process is killed.
Interrupted ==
  /\ stage \in {"loaded", "mapped", "selected", "valid", "converted", "prepared", "training"}
  /\ stage' = "failed"
  /\ UNCHANGED <<dataset, console>>

Next ==
  \/ MapColumns \/ SelectSchema \/ ValidateRows \/ ConvertRows \/ ValidateExamples
  \/ StartTrainer \/ ReadChunk \/ TrainerEnds \/ Interrupted

Spec == Init /\ [][Next]_vars

-----------------------------------------------------------------------------
(* Properties                                                               *)

\* The types of the variables.
TypeOK ==
  /\ stage \in {"loaded", "mapped", "selected", "valid", "converted", "prepared", "training",
                "trained", "exited", "rejected", "inconsistent", "failed"}
  /\ format \in Format /\ schema \in Schema \cup {"none"}
  /\ AreRows(rows)
  /\ read \in 0 .. Len(output) /\ Len(log) = read /\ torn \subseteq 1 .. read
  /\ formatter.verbosity \in {"quiet", "concise", "full"}
  /\ \A i \in DOMAIN formatter.buffer : formatter.buffer[i] \notin Ends
  /\ formatter.steps \in Progress \cup {NoSteps}
  /\ formatter.table => ~formatter.training

\* Detection looks at the first rows only, and columns may have been mapped: a
\* dataset that is accepted nevertheless has, as a whole, one schema, and no other
\* that all its rows match comes within the margin.  No row of it is lost or torn: a row
\* with columns is one example, a conversation one for each answer, with the
\* question before it and all that precedes that; and what the adapters accept,
\* the loader's own check does not reject.
Answers(row) ==
  {t \in DOMAIN row.turns : RoleIn(schema, row.turns[t]) = "assistant"}
IsFaithful(row) ==
  IF schema \in DOMAIN ChatColumn
  THEN /\ {Examples(schema, row)[k].output : k \in DOMAIN Examples(schema, row)} = Answers(row)
       /\ \A k \in DOMAIN Examples(schema, row) :
            LET example == Examples(schema, row)[k]
            IN  /\ example.instruction = example.output - 1
                /\ example.input = example.output - 2
                /\ k > 1 => Examples(schema, row)[k - 1].output < example.output
  ELSE /\ Len(Examples(schema, row)) = 1
       /\ Examples(schema, row)[1].instruction # Examples(schema, row)[1].output

SchemaIsClear ==
  stage = "prepared" /\ format = "auto" =>
    /\ schema \in Matches(rows)
    /\ \A other \in Matches(rows) \ {schema} :
         Confidence(schema, rows) - Confidence(other, rows) > Margin
RowsAreFaithful ==
  stage = "prepared" => \A i \in DOMAIN rows : ValidRow(schema, rows[i]) /\ IsFaithful(rows[i])

DatasetIsUnderstood == SchemaIsClear /\ RowsAreFaithful /\ stage # "inconsistent"

\* The log is what the trainer printed, token by token, except that what is to be
\* redacted is masked, wherever one read returned all of it: redaction sees one
\* chunk at a time.  Nothing else is masked, lost or repeated.
IsMasked(i) ==
  \E first, last \in 1 .. read :
    Hides(output, i, first, last) /\ \A cut \in torn : ~(first <= cut /\ cut < last)
LogIsWhole ==
  Len(log) = read /\ \A i \in 1 .. read : log[i] = IF IsMasked(i) THEN Mask ELSE output[i]

\* However the log came in chunks, the console in the end is what the filter makes
\* of the whole log.
ConsoleIsWhole ==
  stage \in {"trained", "exited"} =>
    formatter.out = Close(Feed(Formatter(formatter.verbosity), log)).out

\* With every verbosity the log's errors and the first lines of its tracebacks are
\* on the console, in order, and if it is quiet nothing but errors and tracebacks.
\* The other lines of a traceback are there too, up to its last or a blank one, if
\* the log has no CR NL: the code takes the NL of one for a blank line.
UrgentIsShown ==
  stage \in {"trained", "exited"} =>
    IF formatter.verbosity = "full" THEN formatter.out = log
    ELSE \E stops \in SUBSET UrgentStops(log) :
           /\ \A s \in Stops(log) : Opens(log, s) \/ IsError(log, s) => s \in stops
           /\ HasCRNL(log) \/ stops = UrgentStops(log)
           /\ Lists(formatter.out, log, stops, formatter.verbosity = "quiet")

OutputIsWhole == LogIsWhole /\ ConsoleIsWhole /\ UrgentIsShown

=============================================================================
