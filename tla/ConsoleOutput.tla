------------------------------ MODULE ConsoleOutput ------------------------------
(***************************************************************************)
(* ConsoleOutputFormatter (console_output.py): the filter between the      *)
(* trainer's output, which arrives in chunks, and the console.  Output is  *)
(* a sequence of tokens: the two ends of a line, the first and second half *)
(* of a text, each a record of the text and the half, and what redaction   *)
(* looks for and writes (module TrainingJob).  A text opens its line, which*)
(* is recognised by it if both halves are there.                           *)
(***************************************************************************)
EXTENDS Integers, Sequences

CONSTANT Progress   \* the "current/total" of progress bars, as <<current, total>>

Token(word) == [text |-> [word |-> word, at |-> <<>>], half |-> 0]
CR == Token("carriage return")
NL == Token("newline")
Ends == {CR, NL}
Key == Token("key")          \* "token=" and the like, before a text
Mask == Token("<redacted>")

\* "header" opens a traceback, "raised" is its last line, "error" has the word
\* ERROR; "detail" is a line on examples, epochs or steps, "loss" a dictionary of
\* metrics; "plain" stands for the rest.
Words == {"header", "raised", "error", "warning", "training", "table", "completed",
          "loss", "detail", "plain"}
Texts == {[word |-> w, at |-> <<>>] : w \in Words} \cup {[word |-> "bar", at |-> p] : p \in Progress}

Plain == [word |-> "plain", at |-> <<>>]
Whole(text) == <<[text |-> text, half |-> 1], [text |-> text, half |-> 2]>>
Begins(record, text) == Len(record) >= 2 /\ SubSeq(record, 1, 2) = Whole(text)
TextOf(record) ==
  IF \E t \in Texts : Begins(record, t) THEN CHOOSE t \in Texts : Begins(record, t) ELSE Plain

\* The formatter's state, and what it has written to the console.
NoSteps == <<>>
Formatter(verbosity) ==
  [verbosity |-> verbosity, buffer |-> <<>>, traceback |-> FALSE, steps |-> NoSteps,
   lastStep |-> 0, lastBar |-> NoSteps, training |-> FALSE, table |-> FALSE, out |-> <<>>]

Emit(f, item) == [f EXCEPT !.out = Append(@, item)]
Shown(line, steps) == [line |-> line, steps |-> steps]
Line(record) == Shown(record, NoSteps)

Threshold(total) == IF total \div 20 > 1 THEN total \div 20 ELSE 1

\* A bar is written at the end and at every twentieth; not twice in a row.
HandleBar(f, text) ==
  LET current == text.at[1]
      total == text.at[2]
      seen == [f EXCEPT !.steps = text.at, !.lastBar = text.at]
  IN  IF text.at = f.lastBar THEN [f EXCEPT !.steps = text.at]
      ELSE IF current = total \/ current >= f.lastStep + Threshold(total)
      THEN [Emit(seen, Line(Whole(text))) EXCEPT !.lastStep = current]
      ELSE seen

\* Mutant: the phase is not left.
LeaveStepsOnly(f, table) == [f EXCEPT !.table = table, !.steps = NoSteps]
LeaveTraining(f, table) == [f EXCEPT !.training = FALSE, !.table = table, !.steps = NoSteps]

\* Outside tracebacks, and with verbosity concise.  Bars and losses are written
\* anew, other lines as they are.
HandleText(f, record) ==
  LET text == TextOf(record)
  IN  CASE text.word = "warning" -> Emit(f, Line(record))
        [] text.word = "training" ->
             Emit([f EXCEPT !.training = TRUE, !.table = FALSE, !.steps = NoSteps,
                            !.lastStep = 0, !.lastBar = NoSteps], Line(record))
        [] text.word = "table" -> LeaveTraining(f, TRUE)
        [] text.word = "completed" -> LeaveTraining(f, FALSE)
        [] text.word = "bar" /\ f.training /\ ~f.table -> HandleBar(f, text)
        [] text.word = "loss" /\ f.training /\ ~f.table -> Emit(f, Shown(Whole(text), f.steps))
        [] text.word = "detail" /\ f.training /\ ~f.table -> Emit(f, Line(record))
        [] OTHER -> f

\* A record with a text: tracebacks and errors come first, whatever the verbosity.
HandleLine(f, record) ==
  LET word == TextOf(record).word
      inside == f.traceback \/ word = "header"
  IN  IF inside \/ word = "error"
      THEN Emit([f EXCEPT !.traceback = inside /\ word # "raised"], Line(record))
      ELSE IF f.verbosity = "quiet" THEN f ELSE HandleText(f, record)

\* An empty record is dropped, unless a newline ends it: that ends a traceback.
HandleRecord(f, record, end) ==
  IF record = <<>>
  THEN IF end = NL THEN [f EXCEPT !.traceback = FALSE] ELSE f
  ELSE HandleLine(f, record)

\* feed(): complete records are handled, the rest of the chunk stays.
FeedToken(f, token) ==
  IF token \in Ends
  THEN [HandleRecord(f, f.buffer, token) EXCEPT !.buffer = <<>>]
  ELSE [f EXCEPT !.buffer = Append(@, token)]

FeedAll(f, chunk) ==
  LET state[i \in 0 .. Len(chunk)] ==
        IF i = 0 THEN f ELSE FeedToken(state[i - 1], chunk[i])
  IN  state[Len(chunk)]

\* Mutant: a chunk is taken to end where a line ends.
FeedWholeLines(f, chunk) ==
  IF f.verbosity = "full" THEN [f EXCEPT !.out = @ \o chunk]
  ELSE LET fed == FeedAll(f, chunk)
       IN  [HandleRecord(fed, fed.buffer, CR) EXCEPT !.buffer = <<>>]
Feed(f, chunk) ==
  IF f.verbosity = "full" THEN [f EXCEPT !.out = @ \o chunk]
  ELSE FeedAll(f, chunk)

Close(f) ==
  IF f.verbosity = "full" THEN f
  ELSE [HandleRecord(f, f.buffer, CR) EXCEPT !.buffer = <<>>, !.training = FALSE]

-----------------------------------------------------------------------------
(* What the console should show of a whole output, without a state: used by    *)
(* the properties only.                                                        *)

\* The lines of an output, by where they stop: at an end of a line, or at the end
\* of the output.
Cuts(output) == {i \in DOMAIN output : output[i] \in Ends}
Stops(output) == Cuts(output) \cup {Len(output) + 1}
Starts(output, from, stop) ==
  /\ \A i \in from .. stop - 1 : output[i] \notin Ends
  /\ from = 1 \/ output[from - 1] \in Ends
LineAt(output, stop) ==
  SubSeq(output, CHOOSE from \in 1 .. stop : Starts(output, from, stop), stop - 1)
TextAt(output, stop) == TextOf(LineAt(output, stop))

Opens(output, stop) == LineAt(output, stop) # <<>> /\ TextAt(output, stop).word = "header"

\* A blank line: not what is between the two halves of a CR NL.
IsBlank(output, stop) ==
  /\ LineAt(output, stop) = <<>> /\ stop \in DOMAIN output /\ output[stop] = NL
  /\ (stop > 1 /\ output[stop - 1] = CR) => LineAt(output, stop - 1) = <<>>
Shuts(output, stop) ==
  \/ IsBlank(output, stop)
  \/ LineAt(output, stop) # <<>> /\ TextAt(output, stop).word = "raised"

\* A line is part of a traceback: a header came, and nothing that ends one.
InTraceback(output, stop) ==
  \E header \in Stops(output) :
    /\ header <= stop /\ Opens(output, header)
    /\ \A s \in Stops(output) : header <= s /\ s < stop => ~Shuts(output, s)

IsError(output, stop) == LineAt(output, stop) # <<>> /\ TextAt(output, stop).word = "error"
UrgentStops(output) ==
  {s \in Stops(output) :
     LineAt(output, s) # <<>> /\ (InTraceback(output, s) \/ IsError(output, s))}
HasCRNL(output) == \E i \in DOMAIN output : i > 1 /\ output[i - 1] = CR /\ output[i] = NL

\* out has the lines of output that stop at stops, in order; of what else is there,
\* nothing if only is TRUE, and otherwise nothing that is printed outside training.
OutsideTraining(item) == TextOf(item.line).word \in {"header", "raised", "error", "plain"}
Lists(out, output, stops, only) ==
  \E at \in [stops -> DOMAIN out] :
    /\ \A s \in stops : out[at[s]] = Line(LineAt(output, s))
    /\ \A s, t \in stops : s < t => at[s] < at[t]
    /\ \A i \in DOMAIN out :
         (\E s \in stops : at[s] = i) \/ (~only /\ ~OutsideTraining(out[i]))

=============================================================================
