---------------------------- MODULE TrainingJobProofs ----------------------------
(***************************************************************************)
(* Proofs about TrainingJob, for any datasets, column mappings, outputs    *)
(* and chunks, any size of the sample and any margin.                      *)
(***************************************************************************)
EXTENDS TrainingJob, RecursionLemmas

-----------------------------------------------------------------------------
(* Conversations                                                            *)

\* The two loops of Alternates, as functions of the turns.
IsSeen(seen, roles) ==
  seen = [t \in 0 .. Len(roles) |-> t > 0 /\ (seen[t - 1] \/ roles[t] = "user")]
IsWaiting(waiting, roles) ==
  waiting = [t \in 0 .. Len(roles) |->
    t > 0 /\ (roles[t] = "user" \/ (roles[t] = "system" /\ waiting[t - 1]))]

LEMMA SeenExists ==
  ASSUME NEW roles, Len(roles) \in Nat
  PROVE  \E seen : IsSeen(seen, roles)
<1> DEFINE F == [t \in Nat |-> [b \in BOOLEAN |-> b \/ roles[t] = "user"]]
<1>1. F \in [Nat -> [BOOLEAN -> BOOLEAN]]
  BY Zenon
<1>2. \A t \in Nat, b \in BOOLEAN : F[t][b] = (b \/ roles[t] = "user")
  OBVIOUS
<1> HIDE DEF F
<1>3. PICK f \in [0 .. Len(roles) -> BOOLEAN] : Follows(f, Len(roles), FALSE, F)
  BY <1>1, RecursionIsDefined, Zenon
<1>4. \A t \in 0 .. Len(roles) : f[t] = (t > 0 /\ (f[t - 1] \/ roles[t] = "user"))
  <2> TAKE t \in 0 .. Len(roles)
  <2>1. CASE t = 0
    BY <2>1, <1>3 DEF Follows
  <2>2. CASE t # 0
    <3>1. t \in 1 .. Len(roles) /\ t - 1 \in 0 .. Len(roles) /\ t > 0 /\ t \in Nat
      BY <2>2
    <3>2. f[t] = F[t][f[t - 1]] /\ f[t - 1] \in BOOLEAN
      BY <3>1, <1>3 DEF Follows
    <3> QED
      BY <3>1, <3>2, <1>2
  <2> QED
    BY <2>1, <2>2
<1>5. IsSeen(f, roles)
  BY <1>4 DEF IsSeen
<1> QED
  BY <1>5

LEMMA WaitingExists ==
  ASSUME NEW roles, Len(roles) \in Nat
  PROVE  \E waiting : IsWaiting(waiting, roles)
<1> DEFINE F == [t \in Nat |-> [b \in BOOLEAN |-> roles[t] = "user" \/ (roles[t] = "system" /\ b)]]
<1>1. F \in [Nat -> [BOOLEAN -> BOOLEAN]]
  BY Zenon
<1>2. \A t \in Nat, b \in BOOLEAN : F[t][b] = (roles[t] = "user" \/ (roles[t] = "system" /\ b))
  OBVIOUS
<1> HIDE DEF F
<1>3. PICK f \in [0 .. Len(roles) -> BOOLEAN] : Follows(f, Len(roles), FALSE, F)
  BY <1>1, RecursionIsDefined, Zenon
<1>4. \A t \in 0 .. Len(roles) :
        f[t] = (t > 0 /\ (roles[t] = "user" \/ (roles[t] = "system" /\ f[t - 1])))
  <2> TAKE t \in 0 .. Len(roles)
  <2>1. CASE t = 0
    BY <2>1, <1>3 DEF Follows
  <2>2. CASE t # 0
    <3>1. t \in 1 .. Len(roles) /\ t - 1 \in 0 .. Len(roles) /\ t > 0 /\ t \in Nat
      BY <2>2
    <3>2. f[t] = F[t][f[t - 1]] /\ f[t - 1] \in BOOLEAN
      BY <3>1, <1>3 DEF Follows
    <3> QED
      BY <3>1, <3>2, <1>2
  <2> QED
    BY <2>1, <2>2
<1>5. IsWaiting(f, roles)
  BY <1>4 DEF IsWaiting
<1> QED
  BY <1>5

\* In turns that alternate, only users are followed by an assistant, every user is,
\* and a system message comes before all of them.
LEMMA AlternatingTurns ==
  ASSUME NEW roles, Len(roles) \in Nat, DOMAIN roles = 1 .. Len(roles), Alternates(roles)
  PROVE  \A t \in 1 .. Len(roles) :
           \/ /\ roles[t] = "system" /\ \A u \in 1 .. t : roles[u] = "system"
           \/ /\ roles[t] = "user" /\ (t = 1 \/ roles[t - 1] # "user")
           \/ /\ roles[t] = "assistant" /\ t > 1 /\ roles[t - 1] = "user"
<1> DEFINE seen[t \in 0 .. Len(roles)] == t > 0 /\ (seen[t - 1] \/ roles[t] = "user")
           waiting[t \in 0 .. Len(roles)] ==
             t > 0 /\ (roles[t] = "user" \/ (roles[t] = "system" /\ waiting[t - 1]))
<1>1. \A t \in DOMAIN roles :
           \/ roles[t] = "system" /\ ~seen[t - 1]
           \/ roles[t] = "user" /\ ~waiting[t - 1]
           \/ roles[t] = "assistant" /\ seen[t - 1] /\ waiting[t - 1]
  BY Zenon DEF Alternates
<1>2. IsSeen(seen, roles)
  BY SeenExists, Zenon DEF IsSeen
<1>3. IsWaiting(waiting, roles)
  BY WaitingExists, Zenon DEF IsWaiting
<1> HIDE DEF seen, waiting
<1>4. \A t \in 1 .. Len(roles) :
        /\ t - 1 \in 0 .. Len(roles) /\ t \in 0 .. Len(roles) /\ t > 0
        /\ seen[t] = (seen[t - 1] \/ roles[t] = "user")
        /\ waiting[t] = (roles[t] = "user" \/ (roles[t] = "system" /\ waiting[t - 1]))
  <2> TAKE t \in 1 .. Len(roles)
  <2>1. t - 1 \in 0 .. Len(roles) /\ t \in 0 .. Len(roles) /\ t > 0
    OBVIOUS
  <2>2. seen[t] = (seen[t - 1] \/ roles[t] = "user")
    BY <2>1, <1>2 DEF IsSeen
  <2>3. waiting[t] = (roles[t] = "user" \/ (roles[t] = "system" /\ waiting[t - 1]))
    BY <2>1, <1>3 DEF IsWaiting
  <2> QED
    BY <2>1, <2>2, <2>3
<1>5. \A t \in 0 .. Len(roles) : ~seen[t] => \A u \in 1 .. t : roles[u] = "system"
  <2> DEFINE S == {t \in 0 .. Len(roles) : ~seen[t] => \A u \in 1 .. t : roles[u] = "system"}
  <2>1. 0 \in S
    OBVIOUS
  <2>2. \A t \in 1 .. Len(roles) : t - 1 \in S => t \in S
    <3> SUFFICES ASSUME NEW t \in 1 .. Len(roles), t - 1 \in S, ~seen[t], NEW u \in 1 .. t
                 PROVE  roles[u] = "system"
      OBVIOUS
    <3>1. ~seen[t - 1] /\ roles[t] # "user"
      BY <1>4
    <3>2. roles[t] = "system"
      BY <3>1, <1>1
    <3>3. u \in 1 .. t - 1 \/ u = t
      OBVIOUS
    <3> QED
      BY <3>1, <3>2, <3>3
  <2>3. \A t \in S : ~seen[t] => \A u \in 1 .. t : roles[u] = "system"
    OBVIOUS
  <2> HIDE DEF S
  <2> QED
    BY <2>1, <2>2, <2>3, InductionUpTo
<1>6. \A t \in 1 .. Len(roles) : roles[t] = "system" => \A u \in 1 .. t : roles[u] = "system"
  <2> SUFFICES ASSUME NEW t \in 1 .. Len(roles), roles[t] = "system", NEW u \in 1 .. t
               PROVE  roles[u] = "system"
    OBVIOUS
  <2>1. ~seen[t - 1]
    BY <1>1
  <2>2. u \in 1 .. t - 1 \/ u = t
    OBVIOUS
  <2> QED
    BY <1>4, <1>5, <2>1, <2>2
<1>7. \A t \in 0 .. Len(roles) : waiting[t] => t > 0 /\ roles[t] = "user"
  <2> DEFINE S == {t \in 0 .. Len(roles) : waiting[t] => t > 0 /\ roles[t] = "user"}
  <2>1. 0 \in S
    <3>1. 0 \in 0 .. Len(roles) /\ ~(0 > 0)
      OBVIOUS
    <3>2. ~waiting[0]
      BY <3>1, <1>3 DEF IsWaiting
    <3> QED
      BY <3>1, <3>2
  <2>2. \A t \in 1 .. Len(roles) : t - 1 \in S => t \in S
    <3> SUFFICES ASSUME NEW t \in 1 .. Len(roles), t - 1 \in S, waiting[t], roles[t] # "user"
                 PROVE  FALSE
      BY <1>4
    <3>1. roles[t] = "system" /\ waiting[t - 1]
      BY <1>4
    <3>2. t - 1 \in 1 .. t /\ roles[t - 1] = "user"
      BY <3>1, <1>4
    <3> QED
      BY <3>1, <3>2, <1>6
  <2>3. \A t \in S : waiting[t] => t > 0 /\ roles[t] = "user"
    OBVIOUS
  <2> HIDE DEF S
  <2> QED
    BY <2>1, <2>2, <2>3, InductionUpTo
<1>8. \A t \in 1 .. Len(roles) : t # 1 => t - 1 \in 1 .. Len(roles)
  OBVIOUS
<1> QED
  <2> TAKE t \in 1 .. Len(roles)
  <2>1. CASE roles[t] = "system"
    BY <2>1, <1>6
  <2>2. CASE roles[t] = "user" /\ ~waiting[t - 1]
    BY <2>2, <1>4, <1>8
  <2>3. CASE roles[t] = "assistant" /\ waiting[t - 1]
    BY <2>3, <1>4, <1>7
  <2> QED
    BY <2>1, <2>2, <2>3, <1>1

\* What the loop of messages_to_sft carries.
Part == [instruction : Nat, input : Int, output : Nat]
Reading == [user : Nat, examples : Seq(Part)]

LEMMA ReadTurnType ==
  ASSUME NEW before \in Reading, NEW role, NEW t \in Nat
  PROVE  ReadTurn(before, role, t) \in Reading
<1>1. CASE role = "user"
  BY <1>1 DEF ReadTurn, Reading
<1>2. CASE role = "assistant" /\ before.user # 0
  <2> DEFINE part == [instruction |-> before.user, input |-> before.user - 1, output |-> t]
  <2>1. part \in Part
    BY DEF Part, Reading
  <2>2. Append(before.examples, part) \in Seq(Part)
    BY <2>1 DEF Reading
  <2>3. ReadTurn(before, role, t) = [user |-> 0, examples |-> Append(before.examples, part)]
    BY <1>2 DEF ReadTurn
  <2> QED
    BY <2>2, <2>3 DEF Reading
<1>3. CASE role # "user" /\ ~(role = "assistant" /\ before.user # 0)
  BY <1>3 DEF ReadTurn
<1> QED
  BY <1>1, <1>2, <1>3

IsState(state, roles) ==
  state = [t \in 0 .. Len(roles) |->
             IF t = 0 THEN NoTurns ELSE ReadTurn(state[t - 1], roles[t], t)]

LEMMA StateExists ==
  ASSUME NEW roles, Len(roles) \in Nat
  PROVE  /\ \E state : IsState(state, roles)
         /\ \A state : IsState(state, roles) =>
              /\ state[0] = NoTurns
              /\ \A t \in 1 .. Len(roles) : state[t] = ReadTurn(state[t - 1], roles[t], t)
              /\ \A t \in 0 .. Len(roles) : state[t] \in Reading
<1> DEFINE F == [t \in Nat |-> [b \in Reading |-> ReadTurn(b, roles[t], t)]]
<1>1. F \in [Nat -> [Reading -> Reading]]
  BY ReadTurnType
<1>2. \A t \in Nat, b \in Reading : F[t][b] = ReadTurn(b, roles[t], t)
  OBVIOUS
<1>3. NoTurns \in Reading
  BY DEF NoTurns, Reading
<1> HIDE DEF F
<1>4. \A t \in 1 .. Len(roles) :
        t \in 0 .. Len(roles) /\ t - 1 \in 0 .. Len(roles) /\ t # 0 /\ t \in Nat
  OBVIOUS
<1>5. \E state : IsState(state, roles)
  <2>1. PICK f \in [0 .. Len(roles) -> Reading] : Follows(f, Len(roles), NoTurns, F)
    BY <1>1, <1>3, RecursionIsDefined, Zenon
  <2>2. \A t \in 0 .. Len(roles) :
          f[t] = IF t = 0 THEN NoTurns ELSE ReadTurn(f[t - 1], roles[t], t)
    <3> TAKE t \in 0 .. Len(roles)
    <3>1. CASE t = 0
      BY <3>1, <2>1 DEF Follows
    <3>2. CASE t # 0
      <4>1. t \in 1 .. Len(roles)
        BY <3>2
      <4>2. f[t] = F[t][f[t - 1]] /\ f[t - 1] \in Reading
        BY <4>1, <2>1, <1>4 DEF Follows
      <4> QED
        BY <4>1, <4>2, <1>2, <1>4
    <3> QED
      BY <3>1, <3>2
  <2>3. IsState(f, roles)
    BY <2>2 DEF IsState
  <2> QED
    BY <2>3
<1>6. ASSUME NEW state, IsState(state, roles)
      PROVE  /\ state[0] = NoTurns
             /\ \A t \in 1 .. Len(roles) : state[t] = ReadTurn(state[t - 1], roles[t], t)
             /\ \A t \in 0 .. Len(roles) : state[t] \in Reading
  <2>1. state[0] = NoTurns
    BY <1>6 DEF IsState
  <2>2. \A t \in 1 .. Len(roles) : state[t] = ReadTurn(state[t - 1], roles[t], t)
    BY <1>4, <1>6 DEF IsState
  <2>3. Obeys(state, Len(roles), NoTurns, F, Reading)
    BY <2>1, <2>2, <1>2, <1>4 DEF Obeys
  <2>4. \A t \in 0 .. Len(roles) : state[t] \in Reading
    BY <2>3, <1>1, <1>3, RecursionStaysIn, Zenon
  <2> QED
    BY <2>1, <2>2, <2>4
<1> QED
  BY <1>5, <1>6

\* The examples of the first t turns.
AreExamples(examples, roles, t) ==
  /\ examples \in Seq(Part)
  /\ \A k \in DOMAIN examples :
       /\ examples[k].output \in 1 .. t /\ roles[examples[k].output] = "assistant"
       /\ examples[k].instruction = examples[k].output - 1
       /\ examples[k].input = examples[k].output - 2
       /\ k > 1 => examples[k - 1].output < examples[k].output
  /\ \A u \in 1 .. t : roles[u] = "assistant" => \E k \in DOMAIN examples : examples[k].output = u

LEMMA OneMoreExample ==
  ASSUME NEW roles, NEW t \in Nat, t > 1, roles[t] = "assistant",
         NEW examples, AreExamples(examples, roles, t - 1),
         NEW part, part = [instruction |-> t - 1, input |-> t - 2, output |-> t]
  PROVE  AreExamples(Append(examples, part), roles, t)
<1> DEFINE more == Append(examples, part)
<1>1. examples \in Seq(Part) /\ part \in Part
  BY DEF AreExamples, Part
<1>2. /\ more \in Seq(Part) /\ Len(more) = Len(examples) + 1 /\ Len(examples) \in Nat
      /\ more[Len(examples) + 1] = part
      /\ \A k \in 1 .. Len(examples) : more[k] = examples[k]
      /\ DOMAIN examples = 1 .. Len(examples) /\ DOMAIN more = 1 .. Len(examples) + 1
  BY <1>1
<1> HIDE DEF more
<1>3. ASSUME NEW k \in DOMAIN more
      PROVE  /\ more[k].output \in 1 .. t /\ roles[more[k].output] = "assistant"
             /\ more[k].instruction = more[k].output - 1
             /\ more[k].input = more[k].output - 2
             /\ k > 1 => more[k - 1].output < more[k].output
  <2>1. CASE k = Len(examples) + 1
    <3>1. more[k] = part
      BY <2>1, <1>2
    <3>2. k > 1 => k - 1 \in DOMAIN examples /\ more[k - 1] = examples[k - 1]
      BY <2>1, <1>2
    <3>3. k > 1 => examples[k - 1].output \in 1 .. t - 1
      BY <3>2 DEF AreExamples
    <3> QED
      BY <3>1, <3>2, <3>3
  <2>2. CASE k # Len(examples) + 1
    <3>1. k \in DOMAIN examples /\ more[k] = examples[k] /\ (k > 1 => more[k - 1] = examples[k - 1])
      BY <2>2, <1>2, <1>3
    <3> QED
      BY <3>1 DEF AreExamples
  <2> QED
    BY <2>1, <2>2
<1>4. ASSUME NEW u \in 1 .. t, roles[u] = "assistant"
      PROVE  \E k \in DOMAIN more : more[k].output = u
  <2>1. CASE u = t
    <3>1. Len(examples) + 1 \in DOMAIN more
      BY <1>2
    <3> QED
      BY <2>1, <3>1, <1>2
  <2>2. CASE u # t
    <3>1. u \in 1 .. t - 1
      BY <2>2
    <3>2. PICK k \in DOMAIN examples : examples[k].output = u
      BY <3>1, <1>4 DEF AreExamples
    <3> QED
      BY <3>2, <1>2
  <2> QED
    BY <2>1, <2>2
<1> QED
  BY <1>2, <1>3, <1>4 DEF AreExamples, more

\* From turns that alternate each answer becomes an example, in order, with the
\* question before it.
LEMMA EachAnswerIsAnExample ==
  ASSUME NEW roles, Len(roles) \in Nat, DOMAIN roles = 1 .. Len(roles), Alternates(roles)
  PROVE  AreExamples(FromTurns(roles), roles, Len(roles))
<1> DEFINE state[t \in 0 .. Len(roles)] ==
             IF t = 0 THEN NoTurns ELSE ReadTurn(state[t - 1], roles[t], t)
<1>1. FromTurns(roles) = state[Len(roles)].examples
  BY Zenon DEF FromTurns
<1>2. IsState(state, roles)
  BY StateExists, Zenon DEF IsState
<1> HIDE DEF state
<1>3. /\ state[0] = NoTurns
      /\ \A t \in 1 .. Len(roles) : state[t] = ReadTurn(state[t - 1], roles[t], t)
      /\ \A t \in 0 .. Len(roles) : state[t] \in Reading
  BY <1>2, StateExists, Zenon
<1> DEFINE Reads(t) == /\ state[t].user = (IF t > 0 /\ roles[t] = "user" THEN t ELSE 0)
                       /\ AreExamples(state[t].examples, roles, t)
           S == {t \in 0 .. Len(roles) : Reads(t)}
<1>4. 0 \in S
  <2>1. state[0].user = 0 /\ state[0].examples = <<>>
    BY <1>3 DEF NoTurns
  <2>2. AreExamples(<<>>, roles, 0)
    BY DEF AreExamples
  <2> QED
    BY <2>1, <2>2
<1>5. ASSUME NEW t \in 1 .. Len(roles), Reads(t - 1)
      PROVE  Reads(t)
  <2>1. /\ t - 1 \in 0 .. Len(roles) /\ t \in Nat /\ t - 1 \in Nat
        /\ state[t - 1] \in Reading /\ state[t] = ReadTurn(state[t - 1], roles[t], t)
    BY <1>3
  <2>2. CASE roles[t] = "assistant"
    <3>1. t > 1 /\ roles[t - 1] = "user"
      BY <2>2, AlternatingTurns
    <3>2. state[t - 1].user = t - 1 /\ t - 1 # 0
      BY <3>1, <1>5, <2>1
    <3> DEFINE part == [instruction |-> t - 1, input |-> t - 2, output |-> t]
    <3>3. state[t] = [user |-> 0, examples |-> Append(state[t - 1].examples, part)]
      <4>1. (t - 1) - 1 = t - 2
        BY <2>1
      <4> QED
        BY <2>1, <2>2, <3>2, <4>1 DEF ReadTurn
    <3>4. AreExamples(Append(state[t - 1].examples, part), roles, t)
      BY <1>5, <2>1, <2>2, <3>1, OneMoreExample
    <3> QED
      BY <2>2, <3>3, <3>4
  <2>3. CASE roles[t] # "assistant"
    <3>1. AreExamples(state[t - 1].examples, roles, t)
      <4>1. \A u \in 1 .. t : u \in 1 .. t - 1 \/ u = t
        BY <2>1
      <4>2. \A u \in 1 .. t - 1 : u \in 1 .. t
        BY <2>1
      <4> QED
        BY <1>5, <2>3, <4>1, <4>2 DEF AreExamples
    <3>2. CASE roles[t] = "user"
      <4>1. state[t] = [state[t - 1] EXCEPT !.user = t]
        BY <2>1, <3>2 DEF ReadTurn
      <4>2. state[t].user = t /\ state[t].examples = state[t - 1].examples
        BY <4>1, <2>1 DEF Reading
      <4> QED
        BY <4>2, <3>1, <3>2, <2>1
    <3>3. CASE roles[t] # "user"
      <4>1. roles[t] = "system" /\ \A u \in 1 .. t : roles[u] = "system"
        BY <2>3, <3>3, AlternatingTurns
      <4>2. state[t] = state[t - 1]
        BY <2>1, <2>3, <3>3 DEF ReadTurn
      <4>3. t - 1 > 0 => t - 1 \in 1 .. t
        BY <2>1
      <4>4. state[t - 1].user = 0
        BY <1>5, <4>1, <4>3
      <4> QED
        BY <4>2, <4>4, <3>1, <3>3
    <3> QED
      BY <3>2, <3>3
  <2> QED
    BY <2>2, <2>3
<1>6. \A t \in 1 .. Len(roles) : t - 1 \in S => t \in S
  <2> SUFFICES ASSUME NEW t \in 1 .. Len(roles), t - 1 \in S
               PROVE  t \in S
    OBVIOUS
  <2>1. Reads(t - 1) /\ t \in 0 .. Len(roles)
    OBVIOUS
  <2> QED
    BY <2>1, <1>5
<1>7. \A t \in S : Reads(t)
  OBVIOUS
<1> HIDE DEF S
<1>8. Reads(Len(roles))
  <2>1. \A t \in 0 .. Len(roles) : t \in S
    BY <1>4, <1>6, InductionUpTo, Zenon
  <2>2. Len(roles) \in 0 .. Len(roles)
    OBVIOUS
  <2> QED
    BY <2>1, <2>2, <1>7, Zenon
<1> QED
  BY <1>1, <1>8

-----------------------------------------------------------------------------
(* Rows                                                                     *)

Fields == {"alpaca", "instruction_response", "prompt_completion", "rag_qa", "dpo"}
Chats == {"openai_chat", "sharegpt", "chatml"}

LEMMA Schemas ==
  /\ DOMAIN FieldSchema = Fields /\ DOMAIN ChatColumn = Chats
  /\ Schema = Fields \cup {"qa_json"} \cup Chats
BY DEF FieldSchema, ChatColumn, Schema, Fields, Chats

\* The parts of an example come from columns that validation requires.
LEMMA FieldParts ==
  ASSUME NEW s \in Fields
  PROVE  /\ {FieldSchema[s].instruction, FieldSchema[s].output} \subseteq FieldSchema[s].required
         /\ FieldSchema[s].instruction # FieldSchema[s].output
         /\ FieldSchema[s].confidence \in 98 .. 100
BY DEF FieldSchema, Fields

LEMMA ValidRowMatches ==
  ASSUME NEW s \in Schema, NEW row, ValidRow(s, row)
  PROVE  MatchesRow(s, row)
<1>1. CASE s \in Fields
  BY <1>1, Schemas DEF ValidRow, MatchesRow, Good, Fields, Chats
<1>2. CASE s = "qa_json"
  BY <1>2, Schemas DEF ValidRow, MatchesRow, Fields, Chats
<1>3. CASE s \in Chats
  BY <1>3, Schemas DEF ValidRow, Fields, Chats
<1> QED
  BY <1>1, <1>2, <1>3, Schemas

\* A valid row becomes faithful examples, which the loader's own check accepts.
LEMMA ValidRowIsFaithful ==
  ASSUME schema \in Schema, NEW row, row.turns \in Seq(STRING), ValidRow(schema, row)
  PROVE  /\ IsFaithful(row)
         /\ \A k \in DOMAIN Examples(schema, row) : IsExample(row, Examples(schema, row)[k])
<1>1. CASE schema \in Fields
  <2> DEFINE f == FieldSchema[schema]
             e == FromColumns(row, f.instruction, f.input, f.output)
  <2>1. Examples(schema, row) = <<e>>
    BY <1>1, Schemas DEF Examples, Fields, Chats
  <2>2. schema \notin DOMAIN ChatColumn
    BY <1>1, Schemas DEF Fields, Chats
  <2>3. Good(row, f.required) /\ IsString(row, f.input)
    BY <1>1, Schemas DEF ValidRow, Fields, Chats
  <2>4. {f.instruction, f.output} \subseteq f.required /\ f.instruction # f.output
    BY <1>1, FieldParts
  <2> HIDE DEF f
  <2>5. e.instruction = f.instruction /\ e.output = f.output /\ e.input \in {f.input, ""}
    BY DEF FromColumns
  <2> HIDE DEF e
  <2>6. IsFaithful(row)
    <3>1. Len(Examples(schema, row)) = 1 /\ Examples(schema, row)[1] = e
      BY <2>1
    <3> QED
      BY <3>1, <2>2, <2>4, <2>5 DEF IsFaithful
  <2>7. IsExample(row, e)
    BY <2>3, <2>4, <2>5 DEF IsExample, Good
  <2> QED
    BY <2>1, <2>6, <2>7
<1>2. CASE schema = "qa_json"
  <2> DEFINE qa == QuestionAnswer(row)
             e == FromColumns(row, qa[1], "context", qa[2])
  <2>1. Examples(schema, row) = <<e>>
    BY <1>2, Schemas DEF Examples, Fields, Chats
  <2>2. schema \notin DOMAIN ChatColumn
    BY <1>2, Schemas DEF Fields, Chats
  <2>3. Good(row, {qa[1], qa[2]}) /\ IsString(row, "context")
    BY <1>2, Schemas DEF ValidRow, Fields, Chats
  <2>4. qa[1] # qa[2]
    BY DEF QuestionAnswer
  <2> HIDE DEF qa
  <2>5. e.instruction = qa[1] /\ e.output = qa[2] /\ e.input \in {"context", ""}
    BY DEF FromColumns
  <2> HIDE DEF e
  <2>6. IsFaithful(row)
    <3>1. Len(Examples(schema, row)) = 1 /\ Examples(schema, row)[1] = e
      BY <2>1
    <3> QED
      BY <3>1, <2>2, <2>4, <2>5 DEF IsFaithful
  <2>7. IsExample(row, e)
    BY <2>3, <2>5 DEF IsExample, Good
  <2> QED
    BY <2>1, <2>6, <2>7
<1>3. CASE schema \in Chats
  <2> DEFINE roles == Roles(schema, row)
  <2>1. Examples(schema, row) = FromTurns(roles) /\ schema \in DOMAIN ChatColumn
    BY <1>3, Schemas DEF Examples, Fields, Chats
  <2>2. Alternates(roles)
    BY <1>3, Schemas DEF ValidRow, Fields, Chats
  <2>3. DOMAIN row.turns = 1 .. Len(row.turns) /\ Len(row.turns) \in Nat
    OBVIOUS
  <2>4. /\ DOMAIN roles = 1 .. Len(row.turns) /\ Len(roles) = Len(row.turns)
        /\ \A t \in DOMAIN roles : roles[t] = RoleIn(schema, row.turns[t])
    BY <2>3 DEF Roles
  <2> HIDE DEF roles
  <2>5. AreExamples(FromTurns(roles), roles, Len(roles))
    BY <2>2, <2>3, <2>4, EachAnswerIsAnExample
  <2>6. Answers(row) = {t \in 1 .. Len(roles) : roles[t] = "assistant"}
    BY <2>3, <2>4 DEF Answers
  <2>7. {FromTurns(roles)[k].output : k \in DOMAIN FromTurns(roles)} = Answers(row)
    <3> DEFINE outputs == {FromTurns(roles)[k].output : k \in DOMAIN FromTurns(roles)}
    <3>1. \A u \in outputs : u \in 1 .. Len(roles) /\ roles[u] = "assistant"
      BY <2>5 DEF AreExamples
    <3>2. \A u \in 1 .. Len(roles) : roles[u] = "assistant" => u \in outputs
      BY <2>5 DEF AreExamples
    <3> HIDE DEF outputs
    <3>3. outputs = Answers(row)
      BY <3>1, <3>2, <2>6
    <3> QED
      BY <3>3 DEF outputs
  <2>8. \A k \in DOMAIN FromTurns(roles) :
          /\ FromTurns(roles)[k].instruction = FromTurns(roles)[k].output - 1
          /\ FromTurns(roles)[k].input = FromTurns(roles)[k].output - 2
          /\ k > 1 => FromTurns(roles)[k - 1].output < FromTurns(roles)[k].output
    BY <2>5 DEF AreExamples
  <2>9. IsFaithful(row)
    BY <2>1, <2>7, <2>8 DEF IsFaithful
  <2> QED
    BY <2>1, <2>9 DEF IsExample
<1> QED
  BY <1>1, <1>2, <1>3, Schemas

-----------------------------------------------------------------------------
(* Detection                                                                *)

\* Only the confidence in qa_json depends on the rows, and is the lowest.
LEMMA Confidences ==
  ASSUME NEW s \in Schema, NEW d
  PROVE  /\ s # "qa_json" => /\ Confidence(s, d) \in 98 .. 100
                             /\ \A c : Confidence(s, c) = Confidence(s, d)
         /\ s = "qa_json" => Confidence(s, d) \in {86, 98}
<1>1. CASE s \in Fields
  BY <1>1, Schemas, FieldParts DEF Confidence, Fields, Chats
<1>2. CASE s = "qa_json"
  BY <1>2, Schemas DEF Confidence, Fields, Chats
<1>3. CASE s \in Chats
  BY <1>3, Schemas DEF Confidence, Fields, Chats
<1> QED
  BY <1>1, <1>2, <1>3, Schemas

LEMMA SampleIsPart ==
  ASSUME NEW d, AreRows(d)
  PROVE  \A i \in DOMAIN Sample(d) : i \in DOMAIN d /\ Sample(d)[i] = d[i]
<1> DEFINE R == {d[i] : i \in DOMAIN d}
           n == IF Len(d) < SampleSize THEN Len(d) ELSE SampleSize
<1>1. d \in Seq(R)
  BY DEF AreRows
<1> HIDE DEF R
<1>2. n \in 0 .. Len(d)
  BY <1>1, DetectionAssumption
<1> HIDE DEF n
<1>3. DOMAIN SubSeq(d, 1, n) = 1 .. n /\ \A i \in 1 .. n : SubSeq(d, 1, n)[i] = d[i]
  BY <1>1, <1>2
<1>4. Sample(d) = SubSeq(d, 1, n)
  BY DEF Sample, n
<1>5. \A i \in 1 .. n : i \in DOMAIN d
  BY <1>1, <1>2
<1> QED
  BY <1>3, <1>4, <1>5

\* The schema that was clear on the sample is clear on all rows, if they are valid.
LEMMA ClearOnAllRows ==
  ASSUME NEW d, AreRows(d), NEW s \in Clear(Sample(d)), Valid(s, d)
  PROVE  Clear(d) = {s}
<1>1. s \in Schema /\ s \in Matches(Sample(d))
  BY DEF Clear, Matches
<1>2. s \in Matches(d)
  BY <1>1, ValidRowMatches DEF Matches, Valid
<1>3. Matches(d) \subseteq Matches(Sample(d)) /\ Matches(d) \subseteq Schema
  BY SampleIsPart DEF Matches
<1>4. ASSUME NEW o \in Matches(d) \ {s}
      PROVE  Confidence(s, d) - Confidence(o, d) > Margin
  <2>1. Confidence(s, Sample(d)) - Confidence(o, Sample(d)) > Margin
    BY <1>3 DEF Clear
  <2>2. o \in Schema
    BY <1>3
  <2>3. Margin \in Nat
    BY DetectionAssumption
  <2>4. s # "qa_json"
    <3> SUFFICES ASSUME s = "qa_json"
                 PROVE  FALSE
      OBVIOUS
    <3>1. Confidence(s, Sample(d)) \in {86, 98} /\ Confidence(o, Sample(d)) \in 98 .. 100
      BY <1>1, <2>2, Confidences
    <3> QED
      BY <3>1, <2>1, <2>3
  <2>5. Confidence(s, d) = Confidence(s, Sample(d)) /\ Confidence(s, d) \in 98 .. 100
    BY <1>1, <2>4, Confidences
  <2>6. CASE o # "qa_json"
    <3>1. Confidence(o, d) = Confidence(o, Sample(d))
      BY <2>2, <2>6, Confidences
    <3> QED
      BY <3>1, <2>1, <2>5
  <2>7. CASE o = "qa_json"
    \* The sample may have a context that no other row has, but it is part of them.
    <3>1. Confidence(o, d) <= Confidence(o, Sample(d))
      BY <2>7, Schemas, SampleIsPart DEF Confidence, Fields, Chats
    <3>2. Confidence(o, d) \in {86, 98} /\ Confidence(o, Sample(d)) \in {86, 98}
      BY <2>2, <2>7, Confidences
    <3> QED
      BY <3>1, <3>2, <2>1, <2>3, <2>5
  <2> QED
    BY <2>6, <2>7
<1>5. s \in Clear(d)
  BY <1>2, <1>4 DEF Clear
<1>6. ASSUME NEW t \in Clear(d), t # s
      PROVE  FALSE
  <2>1. t \in Matches(d) \ {s} /\ t \in Schema
    BY <1>6, <1>3 DEF Clear
  <2>2. Confidence(t, d) - Confidence(s, d) > Margin
    BY <1>2, <1>6 DEF Clear
  <2>3. Confidence(s, d) - Confidence(t, d) > Margin
    BY <2>1, <1>4
  <2>4. Confidence(s, d) \in Int /\ Confidence(t, d) \in Int
    BY <1>1, <2>1, Confidences
  <2> QED
    BY <2>2, <2>3, <2>4, DetectionAssumption
<1> QED
  BY <1>5, <1>6

-----------------------------------------------------------------------------
(* The dataset on its way                                                   *)

Selected == {"selected", "valid", "converted", "prepared"}

DatasetInv ==
  /\ AreRows(rows) /\ format \in Format
  /\ stage \in Selected =>
       schema \in Schema /\ (format = "auto" => schema \in Clear(Sample(rows)))
  /\ stage \in Selected \ {"selected"} => Valid(schema, rows)
  /\ stage # "inconsistent"

LEMMA MappedAreRows ==
  ASSUME AreRows(rows), CanMap(rows, columns)
  PROVE  AreRows([i \in DOMAIN rows |-> Mapped(rows[i], columns)])
<1> DEFINE m == [i \in DOMAIN rows |-> Mapped(rows[i], columns)]
<1>1. DOMAIN rows = 1 .. Len(rows) /\ Len(rows) \in Nat
  BY DEF AreRows
<1>2. DOMAIN m = 1 .. Len(rows) /\ \A i \in DOMAIN m : m[i] = Mapped(rows[i], columns)
  BY <1>1
<1>3. m \in Seq({m[i] : i \in DOMAIN m})
  BY <1>1
<1> HIDE DEF m
<1>4. ASSUME NEW i \in DOMAIN m
      PROVE  /\ \A c \in Columns(m[i]) : m[i].value[c] \in {"good", "blank", "other"}
             /\ m[i].turns \in Seq(STRING)
  <2> DEFINE value == [c \in Columns(rows[i]) \cup DOMAIN columns |->
                         rows[i].value[IF c \in DOMAIN columns THEN columns[c] ELSE c]]
  <2>0. m[i] = [turns |-> rows[i].turns, value |-> value]
    BY <1>2, <1>4 DEF Mapped
  <2>1. m[i].turns = rows[i].turns /\ rows[i].turns \in Seq(STRING)
    BY <2>0, <1>1, <1>2, <1>4 DEF AreRows
  <2> HIDE DEF value
  <2>2. m[i].value = value
    BY <2>0
  <2>3. \A c \in Columns(rows[i]) : rows[i].value[c] \in {"good", "blank", "other"}
    BY <1>1, <1>2, <1>4 DEF AreRows
  <2>4. \A c \in DOMAIN columns : columns[c] \in Columns(rows[i])
    BY <1>1, <1>2, <1>4 DEF CanMap
  <2>5. \A c \in Columns(m[i]) : m[i].value[c] \in {"good", "blank", "other"}
    BY <2>2, <2>3, <2>4 DEF Columns, value
  <2> QED
    BY <2>1, <2>5
<1> QED
  BY <1>3, <1>4 DEF AreRows, m

LEMMA DatasetInit == Init => DatasetInv
BY JobAssumption DEF Init, DatasetInv, Selected

LEMMA DatasetNext == DatasetInv /\ [Next]_vars => DatasetInv'
<1> SUFFICES ASSUME DatasetInv, [Next]_vars
             PROVE  DatasetInv'
  OBVIOUS
<1> USE DEF Step
<1>1. CASE MapColumns
  <2>1. format' \in Format /\ stage' \notin Selected /\ stage' # "inconsistent"
    BY <1>1 DEF MapColumns, DatasetInv, Selected
  <2>2. AreRows(rows')
    BY <1>1, MappedAreRows DEF MapColumns, DatasetInv
  <2> QED
    BY <2>1, <2>2 DEF DatasetInv
<1>2. CASE SelectSchema
  <2>1. CASE \E s \in Select(rows, format) : Step("mapped", "selected") /\ schema' = s
    <3>1. schema' \in Select(rows, format) /\ stage' = "selected"
      BY <2>1
    <3>2. format = "auto" => schema' \in Clear(Sample(rows)) /\ schema' \in Schema
      BY <3>1 DEF Select, Clear, Matches
    <3>3. format # "auto" => schema' \in Schema
      BY <3>1, JobAssumption DEF Select, DatasetInv
    <3> QED
      BY <1>2, <3>1, <3>2, <3>3 DEF SelectSchema, DatasetInv, Selected
  <2>2. CASE Step("mapped", "rejected")
    BY <1>2, <2>2 DEF SelectSchema, DatasetInv, Selected
  <2> QED
    BY <1>2, <2>1, <2>2 DEF SelectSchema
<1>3. CASE ValidateRows
  BY <1>3 DEF ValidateRows, dataset, DatasetInv, Selected
<1>4. CASE ConvertRows
  BY <1>4 DEF ConvertRows, dataset, DatasetInv, Selected
<1>5. CASE ValidateExamples
  <2>1. stage = "converted" /\ UNCHANGED dataset /\ Valid(schema, rows) /\ schema \in Schema
    BY <1>5 DEF ValidateExamples, DatasetInv, Selected
  <2>2. \A i \in DOMAIN rows : ValidRow(schema, rows[i]) /\ rows[i].turns \in Seq(STRING)
    BY <2>1 DEF Valid, DatasetInv, AreRows
  <2>3. \A i \in DOMAIN rows : \A k \in DOMAIN Examples(schema, rows[i]) :
          IsExample(rows[i], Examples(schema, rows[i])[k])
    BY <2>1, <2>2, ValidRowIsFaithful
  <2>4. stage' = "prepared"
    BY <1>5, <2>3 DEF ValidateExamples
  <2> QED
    BY <2>1, <2>4 DEF dataset, DatasetInv, Selected
<1>6. CASE StartTrainer
  <2>1. AreRows(<<>>)
    BY DEF AreRows
  <2> QED
    BY <1>6, <2>1, JobAssumption DEF StartTrainer, DatasetInv, Selected
<1>7. CASE ReadChunk
  BY <1>7 DEF ReadChunk, dataset, DatasetInv, Selected
<1>8. CASE TrainerEnds
  BY <1>8 DEF TrainerEnds, dataset, DatasetInv, Selected
<1>9. CASE Interrupted
  BY <1>9 DEF Interrupted, dataset, DatasetInv, Selected
<1>10. CASE UNCHANGED vars
  BY <1>10 DEF vars, dataset, DatasetInv, Selected
<1> QED
  BY <1>1, <1>2, <1>3, <1>4, <1>5, <1>6, <1>7, <1>8, <1>9, <1>10 DEF Next

LEMMA DatasetInvariance == Spec => []DatasetInv
<1>1. DatasetInv /\ [Next]_vars => DatasetInv'
  BY DatasetNext
<1> QED
  BY <1>1, DatasetInit, PTL DEF Spec

LEMMA Understanding == DatasetInv => DatasetIsUnderstood
<1> SUFFICES ASSUME DatasetInv
             PROVE  DatasetIsUnderstood
  OBVIOUS
<1>1. SchemaIsClear
  <2>1. stage = "prepared" /\ format = "auto" => Clear(rows) = {schema}
    BY ClearOnAllRows DEF DatasetInv, Selected
  <2>2. Clear(rows) = {schema} =>
          /\ schema \in Matches(rows)
          /\ \A other \in Matches(rows) \ {schema} :
               Confidence(schema, rows) - Confidence(other, rows) > Margin
    BY DEF Clear
  <2> QED
    BY <2>1, <2>2 DEF SchemaIsClear
<1>2. ASSUME stage = "prepared", NEW i \in DOMAIN rows
      PROVE  ValidRow(schema, rows[i]) /\ IsFaithful(rows[i])
  <2>1. schema \in Schema /\ ValidRow(schema, rows[i]) /\ rows[i].turns \in Seq(STRING)
    BY <1>2 DEF DatasetInv, Selected, Valid, AreRows
  <2> QED
    BY <2>1, ValidRowIsFaithful
<1> QED
  BY <1>1, <1>2 DEF DatasetIsUnderstood, RowsAreFaithful, DatasetInv

\* A dataset that is accepted has as a whole the one schema detection finds
\* (AdapterRegistry.select), and no example of it is lost or torn
\* (messages_to_sft and the field adapters).
THEOREM AcceptedDatasetIsUnderstood == Spec => []DatasetIsUnderstood
BY DatasetInvariance, Understanding, PTL

-----------------------------------------------------------------------------
(* The filter                                                               *)

Feeds(state, f, c, n) ==
  state = [i \in 0 .. n |-> IF i = 0 THEN f ELSE FeedToken(state[i - 1], c[i])]

LEMMA FeedingExists ==
  ASSUME NEW f, NEW c, NEW n \in Nat
  PROVE  \E state : Feeds(state, f, c, n)
<1> DEFINE S == {m \in 0 .. n : \E state : Feeds(state, f, c, m)}
<1>1. 0 \in S
  <2>1. Feeds([i \in 0 .. 0 |-> f], f, c, 0)
    BY DEF Feeds
  <2> QED
    BY <2>1
<1>2. ASSUME NEW m \in 1 .. n, NEW state, Feeds(state, f, c, m - 1)
      PROVE  \E more : Feeds(more, f, c, m)
  <2> DEFINE last == FeedToken(state[m - 1], c[m])
             more == [i \in 0 .. m |-> IF i = m THEN last ELSE state[i]]
  <2>1. \A i \in 0 .. m : i = m \/ i \in 0 .. m - 1
    OBVIOUS
  <2>2. \A i \in 0 .. m - 1 : i # m /\ i \in 0 .. m
    OBVIOUS
  <2>3. \A i \in 1 .. m : i - 1 \in 0 .. m - 1
    OBVIOUS
  <2>4. \A i \in 0 .. m - 1 : state[i] = IF i = 0 THEN f ELSE FeedToken(state[i - 1], c[i])
    BY <1>2 DEF Feeds
  <2> HIDE DEF last
  <2>5. /\ more[m] = last /\ \A i \in 0 .. m - 1 : more[i] = state[i]
        /\ more = [i \in 0 .. m |-> more[i]]
    BY <2>2
  <2> HIDE DEF more
  <2>6. \A i \in 0 .. m : more[i] = IF i = 0 THEN f ELSE FeedToken(more[i - 1], c[i])
    <3> TAKE i \in 0 .. m
    <3>1. CASE i = m
      <4>1. m # 0 /\ m - 1 \in 0 .. m - 1
        OBVIOUS
      <4>2. more[m] = FeedToken(more[m - 1], c[m])
        BY <4>1, <2>5 DEF last
      <4> QED
        BY <4>1, <4>2, <3>1
    <3>2. CASE i \in 0 .. m - 1
      <4>1. i # 0 => i - 1 \in 0 .. m - 1
        BY <3>2
      <4> QED
        BY <4>1, <3>2, <2>4, <2>5
    <3> QED
      BY <3>1, <3>2, <2>1
  <2>7. Feeds(more, f, c, m)
    BY <2>5, <2>6 DEF Feeds
  <2> QED
    BY <2>7
<1>3. \A m \in 1 .. n : m - 1 \in S => m \in S
  BY <1>2
<1>4. \A m \in S : \E state : Feeds(state, f, c, m)
  OBVIOUS
<1> HIDE DEF S
<1>5. n \in 0 .. n
  OBVIOUS
<1> QED
  BY <1>1, <1>3, <1>4, <1>5, InductionUpTo

\* State by state, the filter goes on by the tokens of c.
Steps(state, c, n) == \A i \in 1 .. n : state[i] = FeedToken(state[i - 1], c[i])

LEMMA FeedingIsUnique ==
  ASSUME NEW n \in Nat, NEW c, NEW g, NEW h, g[0] = h[0], Steps(g, c, n), Steps(h, c, n)
  PROVE  g[n] = h[n]
<1> DEFINE S == {i \in 0 .. n : g[i] = h[i]}
<1>1. 0 \in S
  OBVIOUS
<1>2. \A i \in 1 .. n : i - 1 \in S => i \in S
  BY DEF Steps
<1>3. \A i \in S : g[i] = h[i]
  OBVIOUS
<1> HIDE DEF S
<1>4. n \in 0 .. n
  OBVIOUS
<1> QED
  BY <1>1, <1>2, <1>3, <1>4, InductionUpTo

\* FeedAll takes token after token.
LEMMA FeedAllFeeds ==
  ASSUME NEW f, NEW c, NEW n \in Nat, n = Len(c)
  PROVE  \E state : state[0] = f /\ FeedAll(f, c) = state[n] /\ Steps(state, c, n)
<1> DEFINE state[i \in 0 .. Len(c)] == IF i = 0 THEN f ELSE FeedToken(state[i - 1], c[i])
<1>1. FeedAll(f, c) = state[Len(c)]
  BY Zenon DEF FeedAll
<1>2. \E x : Feeds(x, f, c, Len(c))
  BY FeedingExists
<1>3. Feeds(state, f, c, Len(c))
  BY <1>2, Zenon DEF Feeds
<1> HIDE DEF state
<1>4. state[0] = f
  BY <1>3 DEF Feeds
<1>5. \A i \in 1 .. n : i \in 0 .. Len(c) /\ i # 0
  OBVIOUS
<1>6. Steps(state, c, n)
  BY <1>3, <1>5 DEF Feeds, Steps
<1> QED
  BY <1>1, <1>4, <1>6

\* Two chunks, or their concatenation: the same.
LEMMA FeedAllInTwo ==
  ASSUME NEW f, NEW T, NEW c \in Seq(T), NEW d \in Seq(T)
  PROVE  FeedAll(f, c \o d) = FeedAll(FeedAll(f, c), d)
<1> DEFINE m == Len(c)
           n == Len(d)
           e == c \o d
<1>1. /\ m \in Nat /\ n \in Nat /\ m + n \in Nat /\ Len(e) = m + n
      /\ \A i \in 1 .. m : e[i] = c[i]
  OBVIOUS
<1>2. \A j \in 1 .. n : e[m + j] = d[j]
  OBVIOUS
<1>3. m = Len(c) /\ n = Len(d)
  OBVIOUS
<1> HIDE DEF m, n, e
<1>4. PICK s : s[0] = f /\ FeedAll(f, e) = s[m + n] /\ Steps(s, e, m + n)
  BY <1>1, FeedAllFeeds, Zenon
<1>5. PICK g : g[0] = f /\ FeedAll(f, c) = g[m] /\ Steps(g, c, m)
  BY <1>1, <1>3, FeedAllFeeds, Zenon
<1>6. PICK h : h[0] = g[m] /\ FeedAll(g[m], d) = h[n] /\ Steps(h, d, n)
  BY <1>1, <1>3, FeedAllFeeds, Zenon
<1>7. s[m] = g[m]
  <2>1. \A i \in 1 .. m : i \in 1 .. m + n /\ e[i] = c[i]
    BY <1>1
  <2>2. Steps(s, c, m)
    BY <2>1, <1>4 DEF Steps
  <2> QED
    BY <2>2, <1>1, <1>4, <1>5, FeedingIsUnique
<1> DEFINE k == [j \in 0 .. n |-> s[m + j]]
<1>8. k[0] = s[m] /\ k[n] = s[m + n]
  BY <1>1
<1>9. Steps(k, d, n)
  <2>1. \A j \in 1 .. n : k[j] = FeedToken(k[j - 1], d[j])
    <3> TAKE j \in 1 .. n
    <3>1. m + j \in 1 .. m + n /\ (m + j) - 1 = m + (j - 1)
      BY <1>1
    <3>2. s[m + j] = FeedToken(s[m + (j - 1)], d[j])
      BY <3>1, <1>2, <1>4 DEF Steps
    <3>3. j \in 0 .. n /\ j - 1 \in 0 .. n
      BY <1>1
    <3> QED
      BY <3>2, <3>3
  <2> HIDE DEF k
  <2> QED
    BY <2>1 DEF Steps
<1> HIDE DEF k
<1>10. k[0] = h[0]
  BY <1>6, <1>7, <1>8
<1>11. k[n] = h[n]
  BY <1>1, <1>6, <1>9, <1>10, FeedingIsUnique
<1> QED
  BY <1>4, <1>5, <1>6, <1>8, <1>11 DEF e

\* What is fed to the filter does not change its verbosity.
Keeps(f, g) == DOMAIN g = DOMAIN f /\ g.verbosity = f.verbosity

LEMMA KeepsIsTransitive ==
  ASSUME NEW f, NEW g, NEW h, Keeps(f, g), Keeps(g, h)
  PROVE  Keeps(f, h)
BY DEF Keeps

LEMMA EmitKeeps ==
  ASSUME NEW f, "verbosity" \in DOMAIN f, NEW item
  PROVE  Keeps(f, Emit(f, item))
BY DEF Keeps, Emit

LEMMA HandleBarKeeps ==
  ASSUME NEW f, "verbosity" \in DOMAIN f, NEW text
  PROVE  Keeps(f, HandleBar(f, text))
<1> DEFINE seen == [f EXCEPT !.steps = text.at, !.lastBar = text.at]
           shown == Emit(seen, Line(Whole(text)))
<1>1. Keeps(f, [f EXCEPT !.steps = text.at])
  BY DEF Keeps
<1>2. Keeps(f, seen)
  BY DEF Keeps
<1>3. "verbosity" \in DOMAIN seen
  BY <1>2 DEF Keeps
<1>4. HandleBar(f, text) \in {[f EXCEPT !.steps = text.at], seen, [shown EXCEPT !.lastStep = text.at[1]]}
  BY DEF HandleBar
<1> HIDE DEF seen
<1>5. Keeps(seen, shown) /\ "verbosity" \in DOMAIN shown
  BY <1>3, EmitKeeps DEF Keeps
<1> HIDE DEF shown
<1>6. Keeps(shown, [shown EXCEPT !.lastStep = text.at[1]])
  BY <1>5 DEF Keeps
<1> QED
  BY <1>1, <1>2, <1>4, <1>5, <1>6, KeepsIsTransitive

LEMMA HandleTextKeeps ==
  ASSUME NEW f, "verbosity" \in DOMAIN f, NEW record
  PROVE  Keeps(f, HandleText(f, record))
<1> DEFINE text == TextOf(record)
           started == [f EXCEPT !.training = TRUE, !.table = FALSE, !.steps = NoSteps,
                                !.lastStep = 0, !.lastBar = NoSteps]
<1>1. Keeps(f, started) /\ "verbosity" \in DOMAIN started
  BY DEF Keeps
<1>2. HandleText(f, record) \in
        {Emit(f, Line(record)), Emit(started, Line(record)), LeaveTraining(f, TRUE),
         LeaveTraining(f, FALSE), HandleBar(f, text), Emit(f, Shown(Whole(text), f.steps)), f}
  BY DEF HandleText
<1> HIDE DEF started
<1>3. Keeps(f, LeaveTraining(f, TRUE)) /\ Keeps(f, LeaveTraining(f, FALSE)) /\ Keeps(f, f)
  BY DEF Keeps, LeaveTraining
<1>4. Keeps(f, Emit(started, Line(record)))
  BY <1>1, EmitKeeps, KeepsIsTransitive
<1> QED
  BY <1>2, <1>3, <1>4, EmitKeeps, HandleBarKeeps

LEMMA HandleRecordKeeps ==
  ASSUME NEW f, "verbosity" \in DOMAIN f, NEW record, NEW end
  PROVE  Keeps(f, HandleRecord(f, record, end))
<1>1. Keeps(f, [f EXCEPT !.traceback = FALSE]) /\ Keeps(f, f)
  BY DEF Keeps
<1>2. Keeps(f, HandleLine(f, record))
  <2> DEFINE text == TextOf(record)
             inside == f.traceback \/ text.word = "header"
             noted == [f EXCEPT !.traceback = inside /\ text.word # "raised"]
  <2>1. Keeps(f, noted) /\ "verbosity" \in DOMAIN noted
    BY DEF Keeps
  <2>2. HandleLine(f, record) \in {Emit(noted, Line(record)), f, HandleText(f, record)}
    BY DEF HandleLine
  <2> HIDE DEF noted
  <2>3. Keeps(f, Emit(noted, Line(record)))
    BY <2>1, EmitKeeps, KeepsIsTransitive
  <2> QED
    BY <2>2, <2>3, <1>1, HandleTextKeeps
<1> QED
  BY <1>1, <1>2 DEF HandleRecord

LEMMA FeedTokenKeeps ==
  ASSUME NEW f, "verbosity" \in DOMAIN f, NEW token
  PROVE  Keeps(f, FeedToken(f, token))
<1> DEFINE handled == HandleRecord(f, f.buffer, token)
<1>1. Keeps(f, handled) /\ "verbosity" \in DOMAIN handled
  BY HandleRecordKeeps DEF Keeps
<1>2. FeedToken(f, token) \in {[handled EXCEPT !.buffer = <<>>],
                               [f EXCEPT !.buffer = Append(f.buffer, token)]}
  BY DEF FeedToken
<1> HIDE DEF handled
<1>3. Keeps(handled, [handled EXCEPT !.buffer = <<>>])
  BY <1>1 DEF Keeps
<1>4. Keeps(f, [f EXCEPT !.buffer = Append(f.buffer, token)])
  BY DEF Keeps
<1> QED
  BY <1>1, <1>2, <1>3, <1>4, KeepsIsTransitive

LEMMA FeedKeeps ==
  ASSUME NEW f, "verbosity" \in DOMAIN f, NEW c, Len(c) \in Nat
  PROVE  Keeps(f, Feed(f, c))
<1>1. Keeps(f, FeedAll(f, c))
  <2> DEFINE n == Len(c)
  <2>1. n = Len(c) /\ n \in Nat /\ n \in 0 .. n
    OBVIOUS
  <2> HIDE DEF n
  <2>2. PICK state : state[0] = f /\ FeedAll(f, c) = state[n] /\ Steps(state, c, n)
    BY <2>1, FeedAllFeeds, Zenon
  <2> DEFINE S == {i \in 0 .. n : Keeps(f, state[i])}
  <2>3. 0 \in S
    BY <2>1, <2>2 DEF Keeps
  <2>4. ASSUME NEW i \in 1 .. n, Keeps(f, state[i - 1])
        PROVE  Keeps(f, state[i])
    <3>1. "verbosity" \in DOMAIN state[i - 1]
      BY <2>4 DEF Keeps
    <3>2. state[i] = FeedToken(state[i - 1], c[i])
      BY <2>2 DEF Steps
    <3> QED
      BY <2>4, <3>1, <3>2, FeedTokenKeeps, KeepsIsTransitive
  <2>5. \A i \in 1 .. n : i - 1 \in S => i \in S
    BY <2>4
  <2>6. \A i \in S : Keeps(f, state[i])
    OBVIOUS
  <2> HIDE DEF S
  <2> QED
    BY <2>1, <2>2, <2>3, <2>5, <2>6, InductionUpTo
<1>2. Keeps(f, [f EXCEPT !.out = f.out \o c])
  BY DEF Keeps
<1> QED
  BY <1>1, <1>2 DEF Feed

LEMMA CloseKeeps ==
  ASSUME NEW f, "verbosity" \in DOMAIN f
  PROVE  Keeps(f, Close(f))
<1> DEFINE handled == HandleRecord(f, f.buffer, CR)
<1>1. Keeps(f, handled) /\ "verbosity" \in DOMAIN handled
  BY HandleRecordKeeps DEF Keeps
<1>2. Close(f) \in {f, [handled EXCEPT !.buffer = <<>>, !.training = FALSE]}
  BY DEF Close
<1> HIDE DEF handled
<1>3. Keeps(handled, [handled EXCEPT !.buffer = <<>>, !.training = FALSE])
  BY <1>1 DEF Keeps
<1>4. Keeps(f, f)
  BY DEF Keeps
<1> QED
  BY <1>1, <1>2, <1>3, <1>4, KeepsIsTransitive

\* What the filter has made of an output that came in any chunks.
Fed(v, o) == Feed(Formatter(v), o)

LEMMA FedType ==
  ASSUME NEW v, NEW o, Len(o) \in Nat
  PROVE  /\ "verbosity" \in DOMAIN Fed(v, o) /\ Fed(v, o).verbosity = v
         /\ Close(Fed(v, o)).verbosity = v
<1>1. "verbosity" \in DOMAIN Formatter(v) /\ Formatter(v).verbosity = v
  BY DEF Formatter
<1>2. "verbosity" \in DOMAIN Fed(v, o) /\ Fed(v, o).verbosity = v
  BY <1>1, FeedKeeps DEF Keeps, Fed
<1> QED
  BY <1>2, CloseKeeps DEF Keeps

LEMMA FedInTwo ==
  ASSUME NEW v, NEW T, NEW c \in Seq(T), NEW d \in Seq(T)
  PROVE  Fed(v, c \o d) = Feed(Fed(v, c), d)
<1>1. Fed(v, c).verbosity = v /\ Formatter(v).verbosity = v
  BY FedType DEF Formatter
<1>2. CASE v = "full"
  <2> DEFINE f == Formatter(v)
             g == [f EXCEPT !.out = c]
  <2>1. f.out = <<>> /\ "out" \in DOMAIN f
    BY DEF Formatter
  <2>2. <<>> \o c = c /\ <<>> \o (c \o d) = c \o d
    OBVIOUS
  <2> HIDE DEF f
  <2>3. Fed(v, c) = g
    BY <1>1, <1>2, <2>1, <2>2 DEF Fed, Feed, f
  <2>4. Fed(v, c \o d) = [f EXCEPT !.out = c \o d]
    BY <1>1, <1>2, <2>1, <2>2 DEF Fed, Feed, f
  <2>5. Feed(g, d) = [g EXCEPT !.out = g.out \o d]
    BY <1>1, <1>2, <2>3 DEF Feed
  <2>6. g.out = c /\ [g EXCEPT !.out = c \o d] = [f EXCEPT !.out = c \o d]
    BY <2>1
  <2> QED
    BY <2>3, <2>4, <2>5, <2>6
<1>3. CASE v # "full"
  BY <1>1, <1>3, FeedAllInTwo DEF Fed, Feed
<1> QED
  BY <1>2, <1>3

LEMMA FedNothing ==
  ASSUME NEW v
  PROVE  Fed(v, <<>>) = Formatter(v)
<1> DEFINE f == Formatter(v)
<1>1. f.verbosity = v /\ f.out = <<>> /\ "out" \in DOMAIN f /\ f = [x \in DOMAIN f |-> f[x]]
  BY DEF Formatter
<1> HIDE DEF f
<1>2. f.out \o <<>> = f.out
  BY <1>1
<1>3. [f EXCEPT !.out = f.out \o <<>>] = f
  BY <1>1, <1>2
<1>4. FeedAll(f, <<>>) = f
  BY 0 \in Nat, Len(<<>>) = 0, FeedAllFeeds
<1> QED
  BY <1>3, <1>4 DEF Fed, Feed, f

-----------------------------------------------------------------------------
(* Log and console                                                          *)

IsSequence(o) == o \in Seq({o[i] : i \in DOMAIN o})

LEMMA StartOfOutput ==
  ASSUME NEW T, NEW o \in Seq(T), NEW m \in 0 .. Len(o)
  PROVE  /\ SubSeq(o, 1, m) \in Seq(T) /\ IsSequence(SubSeq(o, 1, m))
         /\ Len(SubSeq(o, 1, m)) = m
         /\ SubSeq(SubSeq(o, 1, m), 1, m) = SubSeq(o, 1, m)
<1> DEFINE p == SubSeq(o, 1, m)
<1>1. p \in Seq(T) /\ Len(p) = m /\ DOMAIN p = 1 .. m
  OBVIOUS
<1> HIDE DEF p
<1>2. IsSequence(p)
  BY <1>1 DEF IsSequence
<1>3. SubSeq(p, 1, m) = p
  BY <1>1
<1> QED
  BY <1>1, <1>2, <1>3 DEF p

Chunk(o, r, n) == SubSeq(SubSeq(o, r + 1, Len(o)), 1, n)

LEMMA ChunkOfOutput ==
  ASSUME NEW T, NEW o \in Seq(T), NEW r \in 0 .. Len(o), NEW n \in Nat,
         n <= Len(SubSeq(o, r + 1, Len(o)))
  PROVE  /\ r + n \in 0 .. Len(o)
         /\ Chunk(o, r, n) \in Seq(T) /\ Len(Chunk(o, r, n)) = n
         /\ \A j \in 1 .. n : Chunk(o, r, n)[j] = o[r + j]
<1> DEFINE a == SubSeq(o, r + 1, Len(o))
           c == SubSeq(a, 1, n)
<1>1. a \in Seq(T) /\ Len(a) = Len(o) - r /\ \A i \in 1 .. Len(a) : a[i] = o[r + i]
  OBVIOUS
<1> HIDE DEF a
<1>2. c \in Seq(T) /\ Len(c) = n /\ \A i \in 1 .. n : c[i] = a[i]
  BY <1>1 DEF a
<1> HIDE DEF c
<1>3. r + n \in 0 .. Len(o) /\ \A i \in 1 .. n : i \in 1 .. Len(a)
  BY <1>1 DEF a
<1> QED
  BY <1>1, <1>2, <1>3 DEF Chunk, a, c

\* To hide a token takes it and those around it, wherever in the output they are.
LEMMA HidesAround ==
  ASSUME NEW o, NEW i \in Int, NEW first \in Int, NEW last \in Int, Hides(o, i, first, last)
  PROVE  first <= i /\ i <= last
BY DEF Hides, HidesSecret, HidesValue

LEMMA HidesFurther ==
  ASSUME NEW o, NEW c, NEW r \in Nat, NEW n \in Nat, \A j \in 1 .. n : c[j] = o[r + j],
         NEW i \in 1 .. n, NEW first \in 1 .. n, NEW last \in 1 .. n
  PROVE  Hides(c, i, first, last) <=> Hides(o, r + i, r + first, r + last)
<1>1. HidesSecret(c, i, first, last) <=> HidesSecret(o, r + i, r + first, r + last)
  BY DEF HidesSecret
<1>2. ASSUME HidesValue(c, i, first, last)
      PROVE  HidesValue(o, r + i, r + first, r + last)
  <2>1. c[first] = Key /\ first < i /\ i <= last
    BY <1>2 DEF HidesValue
  <2>2. PICK k \in {last - 1, last} :
          /\ first < k /\ k <= i /\ c[k].half = 1
          /\ \A j \in first + 1 .. k - 1 : c[j] \in Ends
          /\ k < last => c[k].text \in Unbroken /\ c[last] = Whole(c[k].text)[2]
    BY <1>2 DEF HidesValue
  <2>3. k \in 1 .. n /\ r + k \in {(r + last) - 1, r + last}
    BY <2>2
  <2>4. o[r + first] = Key /\ r + first < r + i /\ r + i <= r + last
    BY <2>1
  <2>5. o[r + k] = c[k] /\ o[r + last] = c[last]
    BY <2>3
  <2>6. r + first < r + k /\ r + k <= r + i /\ (r + k < r + last <=> k < last)
    BY <2>2, <2>3
  <2>7. ASSUME NEW j \in (r + first) + 1 .. (r + k) - 1
        PROVE  o[j] \in Ends
    <3>1. j - r \in first + 1 .. k - 1 /\ j - r \in 1 .. n /\ r + (j - r) = j
      BY <2>3
    <3>2. c[j - r] \in Ends /\ c[j - r] = o[r + (j - r)]
      BY <2>2, <3>1
    <3> QED
      BY <3>1, <3>2
  <2> QED
    BY <2>2, <2>3, <2>4, <2>5, <2>6, <2>7 DEF HidesValue
<1>3. ASSUME HidesValue(o, r + i, r + first, r + last)
      PROVE  HidesValue(c, i, first, last)
  <2>1. o[r + first] = Key /\ r + first < r + i /\ r + i <= r + last
    BY <1>3 DEF HidesValue
  <2>2. PICK m \in {(r + last) - 1, r + last} :
          /\ r + first < m /\ m <= r + i /\ o[m].half = 1
          /\ \A j \in (r + first) + 1 .. m - 1 : o[j] \in Ends
          /\ m < r + last => o[m].text \in Unbroken /\ o[r + last] = Whole(o[m].text)[2]
    BY <1>3 DEF HidesValue
  <2> DEFINE k == m - r
  <2>3. k \in {last - 1, last} /\ k \in 1 .. n /\ r + k = m
    BY <2>2
  <2> HIDE DEF k
  <2>4. c[first] = Key /\ first < i /\ i <= last
    BY <2>1
  <2>5. c[k] = o[m] /\ c[last] = o[r + last]
    BY <2>3
  <2>6. first < k /\ k <= i /\ (k < last <=> m < r + last)
    BY <2>2, <2>3
  <2>7. ASSUME NEW j \in first + 1 .. k - 1
        PROVE  c[j] \in Ends
    <3>1. r + j \in (r + first) + 1 .. m - 1 /\ j \in 1 .. n
      BY <2>3
    <3> QED
      BY <2>2, <3>1
  <2> QED
    BY <2>2, <2>3, <2>4, <2>5, <2>6, <2>7 DEF HidesValue
<1> QED
  BY <1>1, <1>2, <1>3 DEF Hides

\* What is hidden in a chunk.
HiddenIn(c, n, i) == \E first, last \in 1 .. n : Hides(c, i, first, last)

LEMMA RedactIsMask ==
  ASSUME NEW T, NEW c \in Seq(T), NEW n \in Nat, Len(c) = n
  PROVE  /\ Redact(c) \in Seq(T \cup {Mask}) /\ Len(Redact(c)) = n
         /\ \A i \in 1 .. n : Redact(c)[i] = IF HiddenIn(c, n, i) THEN Mask ELSE c[i]
<1> DEFINE d == [i \in 1 .. n |-> IF HiddenIn(c, n, i) THEN Mask ELSE c[i]]
<1>1. DOMAIN c = 1 .. n /\ \A i \in 1 .. n : c[i] \in T
  OBVIOUS
<1>2. Redact(c) = d
  BY <1>1 DEF Redact, HiddenIn
<1>3. d \in [1 .. n -> T \cup {Mask}]
  BY <1>1
<1>4. \A i \in 1 .. n : d[i] = IF HiddenIn(c, n, i) THEN Mask ELSE c[i]
  OBVIOUS
<1> HIDE DEF d
<1>5. d \in Seq(T \cup {Mask}) /\ Len(d) = n
  BY <1>3
<1> QED
  BY <1>2, <1>4, <1>5

\* What is hidden in an output of which r tokens have been read, in chunks that
\* were cut at cuts.
Uncut(first, last, cuts) == \A cut \in cuts : ~(first <= cut /\ cut < last)
Masked(o, r, cuts, i) ==
  \E first, last \in 1 .. r : Hides(o, i, first, last) /\ Uncut(first, last, cuts)
TearsAt(o, cut) ==
  \E first \in 1 .. cut, last \in cut + 1 .. Len(o) :
    \E i \in first .. last : Hides(o, i, first, last)

\* One chunk more: what was masked is masked, and what the chunk hides.
LEMMA OneMoreMasked ==
  ASSUME NEW T, NEW o \in Seq(T), NEW r \in 0 .. Len(o), NEW n \in Nat, r + n <= Len(o),
         NEW cuts, cuts \subseteq 1 .. r, TearsAt(o, r) => r \in cuts,
         NEW more, more = cuts \/ more = cuts \cup {r + n},
         NEW c, \A j \in 1 .. n : c[j] = o[r + j]
  PROVE  /\ \A i \in 1 .. r : Masked(o, r + n, more, i) <=> Masked(o, r, cuts, i)
         /\ \A j \in 1 .. n : Masked(o, r + n, more, r + j) <=> HiddenIn(c, n, j)
<1>1. r \in Nat /\ r + n \in Nat /\ Len(o) \in Nat
  OBVIOUS
<1>2. ASSUME NEW i \in 1 .. r + n, NEW first \in 1 .. r, NEW last \in r + 1 .. r + n,
             Hides(o, i, first, last), Uncut(first, last, more)
      PROVE  FALSE
  <2>1. i \in first .. last /\ last \in r + 1 .. Len(o)
    BY <1>1, <1>2, HidesAround
  <2>2. TearsAt(o, r)
    BY <1>2, <2>1 DEF TearsAt
  <2>3. r \in more /\ first <= r /\ r < last
    BY <2>2
  <2> QED
    BY <1>2, <2>3 DEF Uncut
<1>3. ASSUME NEW i \in 1 .. r, Masked(o, r + n, more, i)
      PROVE  Masked(o, r, cuts, i)
  <2>1. PICK first \in 1 .. r + n, last \in 1 .. r + n :
          Hides(o, i, first, last) /\ Uncut(first, last, more)
    BY <1>3 DEF Masked
  <2>2. first \in 1 .. r
    BY <1>1, <2>1, HidesAround
  <2>3. last \in 1 .. r
    <3>1. last \notin r + 1 .. r + n
      BY <1>1, <1>2, <2>1, <2>2
    <3> QED
      BY <3>1, <1>1
  <2>4. Uncut(first, last, cuts)
    BY <2>1 DEF Uncut
  <2> QED
    BY <2>1, <2>2, <2>3, <2>4 DEF Masked
<1>4. ASSUME NEW i \in 1 .. r, Masked(o, r, cuts, i)
      PROVE  Masked(o, r + n, more, i)
  <2>1. PICK first \in 1 .. r, last \in 1 .. r : Hides(o, i, first, last) /\ Uncut(first, last, cuts)
    BY <1>4 DEF Masked
  <2>2. ~(first <= r + n /\ r + n < last)
    BY <1>1
  <2>3. Uncut(first, last, more)
    BY <2>1, <2>2 DEF Uncut
  <2>4. first \in 1 .. r + n /\ last \in 1 .. r + n
    BY <1>1
  <2> QED
    BY <2>1, <2>3, <2>4 DEF Masked
<1>5. ASSUME NEW j \in 1 .. n, Masked(o, r + n, more, r + j)
      PROVE  HiddenIn(c, n, j)
  <2>1. PICK first \in 1 .. r + n, last \in 1 .. r + n :
          Hides(o, r + j, first, last) /\ Uncut(first, last, more)
    BY <1>5 DEF Masked
  <2>2. r + j <= last /\ first <= r + j /\ r + j \in 1 .. r + n
    BY <1>1, <2>1, HidesAround
  <2>3. last \in r + 1 .. r + n
    BY <1>1, <2>2
  <2>4. first \notin 1 .. r
    BY <1>2, <2>1, <2>2, <2>3
  <2>5. PICK a \in 1 .. n, b \in 1 .. n : r + a = first /\ r + b = last
    <3>1. first - r \in 1 .. n /\ r + (first - r) = first
      BY <1>1, <2>2, <2>4
    <3>2. last - r \in 1 .. n /\ r + (last - r) = last
      BY <1>1, <2>3
    <3> QED
      BY <3>1, <3>2
  <2>6. Hides(o, r + j, r + a, r + b)
    BY <2>1, <2>5, Zenon
  <2>7. Hides(c, j, a, b)
    BY <1>1, <2>6, HidesFurther
  <2> QED
    BY <2>7 DEF HiddenIn
<1>6. ASSUME NEW j \in 1 .. n, HiddenIn(c, n, j)
      PROVE  Masked(o, r + n, more, r + j)
  <2>1. PICK first \in 1 .. n, last \in 1 .. n : Hides(c, j, first, last)
    BY <1>6 DEF HiddenIn
  <2>2. Hides(o, r + j, r + first, r + last)
    BY <1>1, <2>1, HidesFurther
  <2>3. r + first \in 1 .. r + n /\ r + last \in 1 .. r + n
    BY <1>1
  <2>4. Uncut(r + first, r + last, more)
    <3>1. \A cut \in cuts : ~(r + first <= cut)
      BY <1>1
    <3>2. ~(r + n < r + last)
      BY <1>1
    <3> QED
      BY <3>1, <3>2 DEF Uncut
  <2> QED
    BY <2>2, <2>3, <2>4 DEF Masked
<1> QED
  BY <1>3, <1>4, <1>5, <1>6

\* The log of what has been read.
IsLog(l, o, r, cuts) ==
  Len(l) = r /\ \A i \in 1 .. r : l[i] = IF Masked(o, r, cuts, i) THEN Mask ELSE o[i]

LEMMA LogWhole == LogIsWhole <=> IsLog(log, output, read, torn)
BY DEF LogIsWhole, IsMasked, IsLog, Masked, Uncut

LEMMA OneMoreLogged ==
  ASSUME NEW T, NEW o \in Seq(T), NEW r \in 0 .. Len(o), NEW n \in Nat, r + n <= Len(o),
         NEW cuts, cuts \subseteq 1 .. r, TearsAt(o, r) => r \in cuts,
         NEW more, more = cuts \/ more = cuts \cup {r + n},
         NEW S, NEW c \in Seq(S), Len(c) = n, \A j \in 1 .. n : c[j] = o[r + j],
         NEW l, IsSequence(l), IsLog(l, o, r, cuts)
  PROVE  IsSequence(l \o Redact(c)) /\ IsLog(l \o Redact(c), o, r + n, more)
<1> DEFINE d == Redact(c)
           D == S \cup {Mask} \cup {l[i] : i \in DOMAIN l}
           e == l \o d
<1>1. d \in Seq(S \cup {Mask}) /\ Len(d) = n
      /\ \A j \in 1 .. n : d[j] = IF HiddenIn(c, n, j) THEN Mask ELSE c[j]
  BY RedactIsMask
<1>2. l \in Seq({l[i] : i \in DOMAIN l}) /\ Len(l) = r
  BY DEF IsSequence, IsLog
<1> HIDE DEF d
<1>3. l \in Seq(D) /\ d \in Seq(D)
  BY <1>1, <1>2
<1> HIDE DEF D
<1>4. e \in Seq(D) /\ Len(e) = r + n
  <2>1. e \in Seq(D)
    BY <1>3
  <2>2. Len(e) = Len(l) + Len(d)
    BY <1>3
  <2> QED
    BY <2>1, <2>2, <1>1, <1>2
<1>5. (\A i \in 1 .. r : e[i] = l[i]) /\ (\A j \in 1 .. n : e[r + j] = d[j])
  <2>1. \A i \in 1 .. Len(l) : e[i] = l[i]
    BY <1>3
  <2>2. \A j \in 1 .. Len(d) : e[Len(l) + j] = d[j]
    BY <1>3
  <2> QED
    BY <2>1, <2>2, <1>1, <1>2
<1> HIDE DEF e
<1>6. IsSequence(e)
  BY <1>4 DEF IsSequence
<1>7. /\ \A i \in 1 .. r : Masked(o, r + n, more, i) <=> Masked(o, r, cuts, i)
      /\ \A j \in 1 .. n : Masked(o, r + n, more, r + j) <=> HiddenIn(c, n, j)
  BY OneMoreMasked
<1>8. ASSUME NEW i \in 1 .. r + n
      PROVE  e[i] = IF Masked(o, r + n, more, i) THEN Mask ELSE o[i]
  <2>1. CASE i \in 1 .. r
    BY <2>1, <1>5, <1>7 DEF IsLog
  <2>2. CASE i \notin 1 .. r
    <3>1. i - r \in 1 .. n /\ r + (i - r) = i
      BY <2>2
    <3>2. /\ e[i] = d[i - r] /\ c[i - r] = o[i]
          /\ Masked(o, r + n, more, i) <=> HiddenIn(c, n, i - r)
      BY <3>1, <1>5, <1>7
    <3> QED
      BY <3>1, <3>2, <1>1
  <2> QED
    BY <2>1, <2>2
<1>9. IsLog(e, o, r + n, more)
  BY <1>4, <1>8 DEF IsLog
<1> QED
  BY <1>6, <1>9 DEF e, d

\* The log of an output that ends where it was read.
LEMMA LogAtEnd ==
  ASSUME NEW T, NEW o \in Seq(T), NEW r \in 0 .. Len(o), NEW cuts, NEW l, IsLog(l, o, r, cuts)
  PROVE  IsLog(l, SubSeq(o, 1, r), r, cuts)
<1> DEFINE p == SubSeq(o, 1, r)
<1>1. \A j \in 1 .. r : p[j] = o[0 + j]
  OBVIOUS
<1> HIDE DEF p
<1>2. ASSUME NEW i \in 1 .. r, NEW first \in 1 .. r, NEW last \in 1 .. r
      PROVE  Hides(p, i, first, last) <=> Hides(o, i, first, last)
  <2>1. 0 \in Nat /\ r \in Nat /\ 0 + i = i /\ 0 + first = first /\ 0 + last = last
    OBVIOUS
  <2>2. Hides(p, i, first, last) <=> Hides(o, 0 + i, 0 + first, 0 + last)
    BY <1>1, <2>1, HidesFurther, Zenon
  <2> QED
    BY <2>1, <2>2, Zenon
<1>3. \A i \in 1 .. r : Masked(p, r, cuts, i) <=> Masked(o, r, cuts, i)
  BY <1>2 DEF Masked
<1> QED
  BY <1>1, <1>3 DEF IsLog, p

ConsoleInv ==
  /\ IsSequence(output) /\ read \in 0 .. Len(output)
  /\ IsSequence(log) /\ LogIsWhole /\ torn \subseteq 1 .. read
  /\ stage \in {"loaded", "mapped", "selected", "valid", "converted", "prepared"} =>
       read = 0 /\ log = <<>> /\ torn = {}
  /\ stage = "training" =>
       (Tears(read) => read \in torn) /\ \E v \in Verbosity : formatter = Fed(v, log)
  /\ stage \in {"trained", "exited"} => \E v \in Verbosity : formatter = Close(Fed(v, log))

LEMMA ConsoleInit == Init => ConsoleInv
<1> SUFFICES ASSUME Init
             PROVE  ConsoleInv
  OBVIOUS
<1>1. output = <<>> /\ read = 0 /\ log = <<>> /\ torn = {} /\ stage = "loaded"
  BY DEF Init
<1>2. IsSequence(<<>>) /\ Len(<<>>) = 0
  BY DEF IsSequence
<1>3. LogIsWhole
  BY <1>1, <1>2 DEF LogIsWhole
<1> QED
  BY <1>1, <1>2, <1>3 DEF ConsoleInv

LEMMA ConsoleNext == ConsoleInv /\ [Next]_vars => ConsoleInv'
<1> SUFFICES ASSUME ConsoleInv, [Next]_vars
             PROVE  ConsoleInv'
  OBVIOUS
<1> USE DEF Step, console
<1>1. CASE \/ MapColumns \/ SelectSchema \/ ValidateRows \/ ConvertRows \/ ValidateExamples
           \/ Interrupted \/ UNCHANGED vars
  <2>1. UNCHANGED <<output, read, log, torn, formatter>>
    BY <1>1 DEF MapColumns, SelectSchema, ValidateRows, ConvertRows, ValidateExamples,
                Interrupted, vars
  <2>2. \/ stage' = stage
        \/ stage' \in {"rejected", "inconsistent", "failed"}
        \/ /\ stage \in {"loaded", "mapped", "selected", "valid", "converted", "prepared"}
           /\ stage' \in {"mapped", "selected", "valid", "converted", "prepared"}
    BY <1>1 DEF MapColumns, SelectSchema, ValidateRows, ConvertRows, ValidateExamples,
                Interrupted, vars
  <2>3. LogIsWhole' = LogIsWhole /\ (Tears(read))' = Tears(read)
    BY <2>1 DEF LogIsWhole, IsMasked, Tears
  <2> QED
    BY <2>1, <2>2, <2>3 DEF ConsoleInv
<1>2. CASE StartTrainer
  <2>1. /\ stage' = "training" /\ output' \in Output /\ read' = 0 /\ log' = <<>> /\ torn' = {}
    BY <1>2 DEF StartTrainer, ConsoleInv
  <2>2. PICK v \in Verbosity : formatter' = Formatter(v)
    BY <1>2 DEF StartTrainer
  <2>3. IsSequence(output') /\ IsSequence(<<>>)
    BY <2>1, JobAssumption DEF IsSequence
  <2>4. 0 \in 0 .. Len(output')
    BY <2>3 DEF IsSequence
  <2>5. formatter' = Fed(v, log')
    BY <2>1, <2>2, FedNothing
  <2>6. LogIsWhole'
    BY <2>1 DEF LogIsWhole
  <2>7. ~(Tears(read))'
    BY <2>1 DEF Tears
  <2> QED
    BY <2>1, <2>3, <2>4, <2>5, <2>6, <2>7 DEF ConsoleInv
<1>3. CASE ReadChunk
  <2>1. PICK n \in 1 .. ChunkSize :
          /\ n <= Len(Ahead) /\ read' = read + n
          /\ log' = log \o Redact(SubSeq(Ahead, 1, n))
          /\ formatter' = Feed(formatter, Redact(SubSeq(Ahead, 1, n)))
    BY <1>3 DEF ReadChunk
  <2>2. /\ stage = "training" /\ stage' = "training" /\ output' = output
        /\ torn' = IF Tears(read') THEN torn \cup {read'} ELSE torn
    BY <1>3 DEF ReadChunk
  <2> DEFINE T == {output[i] : i \in DOMAIN output}
             c == Chunk(output, read, n)
  <2>3. output \in Seq(T) /\ read \in 0 .. Len(output) /\ IsLog(log, output, read, torn)
    BY LogWhole DEF ConsoleInv, IsSequence
  <2>4. n \in Nat /\ n >= 1
    BY JobAssumption
  <2> HIDE DEF T
  <2>5. /\ read + n \in 0 .. Len(output) /\ c \in Seq(T) /\ Len(c) = n
        /\ \A j \in 1 .. n : c[j] = output[read + j]
    BY <2>1, <2>3, <2>4, ChunkOfOutput DEF Ahead
  <2>6. log' = log \o Redact(c) /\ formatter' = Feed(formatter, Redact(c))
    BY <2>1 DEF Chunk, Ahead
  <2> HIDE DEF c
  <2>7. torn \subseteq 1 .. read /\ (TearsAt(output, read) => read \in torn) /\ IsSequence(log)
    BY <2>2 DEF ConsoleInv, TearsAt, Tears
  <2>8. torn' = torn \/ torn' = torn \cup {read + n}
    BY <2>1, <2>2
  <2>9. IsSequence(log') /\ IsLog(log', output, read + n, torn')
    <3>1. read + n <= Len(output)
      BY <2>3, <2>5
    <3> QED
      BY <3>1, <2>3, <2>4, <2>5, <2>6, <2>7, <2>8, OneMoreLogged
  <2>10. LogIsWhole'
    BY <2>1, <2>2, <2>9 DEF LogIsWhole, IsMasked, IsLog, Masked, Uncut
  <2>11. PICK v \in Verbosity : formatter = Fed(v, log)
    BY <2>2 DEF ConsoleInv
  <2>12. formatter' = Fed(v, log')
    <3> DEFINE L == {log[i] : i \in DOMAIN log}
               D == L \cup T \cup {Mask}
    <3>1. log \in Seq(L)
      BY <2>7 DEF IsSequence
    <3>2. Redact(c) \in Seq(T \cup {Mask})
      BY <2>4, <2>5, RedactIsMask
    <3> HIDE DEF L
    <3>3. log \in Seq(D) /\ Redact(c) \in Seq(D)
      BY <3>1, <3>2
    <3> HIDE DEF D
    <3> QED
      BY <3>3, <2>6, <2>11, FedInTwo
  <2>13. (Tears(read))' => read' \in torn'
    BY <2>2 DEF Tears
  <2>14. torn' \subseteq 1 .. read' /\ read' \in 0 .. Len(output')
    BY <2>1, <2>2, <2>3, <2>4, <2>5, <2>7, <2>8
  <2>15. IsSequence(output')
    BY <2>2 DEF ConsoleInv
  <2> QED
    BY <2>2, <2>9, <2>10, <2>12, <2>13, <2>14, <2>15 DEF ConsoleInv
<1>4. CASE TrainerEnds
  <2>1. /\ stage = "training" /\ stage' \in {"trained", "exited"}
        /\ output' = SubSeq(output, 1, read) /\ formatter' = Close(formatter)
        /\ read' = read /\ log' = log /\ torn' = torn
    BY <1>4 DEF TrainerEnds
  <2>2. read \in 0 .. Len(output) /\ IsLog(log, output, read, torn)
    BY LogWhole DEF ConsoleInv
  <2> DEFINE T == {output[i] : i \in DOMAIN output}
  <2>3. output \in Seq(T)
    BY DEF ConsoleInv, IsSequence
  <2> HIDE DEF T
  <2>4. IsSequence(output') /\ Len(output') = read
    BY <2>1, <2>2, <2>3, StartOfOutput
  <2>5. IsLog(log, output', read, torn)
    BY <2>1, <2>2, <2>3, LogAtEnd
  <2>6. LogIsWhole'
    BY <2>1, <2>5 DEF LogIsWhole, IsMasked, IsLog, Masked, Uncut
  <2>7. \E v \in Verbosity : formatter' = Close(Fed(v, log'))
    BY <2>1 DEF ConsoleInv
  <2>8. read' \in 0 .. Len(output') /\ torn' \subseteq 1 .. read' /\ IsSequence(log')
    BY <2>1, <2>2, <2>4 DEF ConsoleInv
  <2> QED
    BY <2>1, <2>4, <2>6, <2>7, <2>8 DEF ConsoleInv
<1> QED
  BY <1>1, <1>2, <1>3, <1>4 DEF Next

LEMMA ConsoleInvariance == Spec => []ConsoleInv
<1>1. ConsoleInv /\ [Next]_vars => ConsoleInv'
  BY ConsoleNext
<1> QED
  BY <1>1, ConsoleInit, PTL DEF Spec

LEMMA WholeConsole == ConsoleInv => ConsoleIsWhole
<1> SUFFICES ASSUME ConsoleInv, stage \in {"trained", "exited"}
             PROVE  formatter.out = Close(Feed(Formatter(formatter.verbosity), log)).out
  BY DEF ConsoleIsWhole
<1>1. PICK v \in Verbosity : formatter = Close(Fed(v, log))
  BY DEF ConsoleInv
<1>2. Len(log) \in Nat
  BY DEF ConsoleInv, IsSequence
<1>3. formatter.verbosity = v
  BY <1>1, <1>2, FedType
<1> QED
  BY <1>1, <1>3 DEF Fed

\* The log is what the trainer printed so far, with a mask where one read returned
\* the whole of what redact_text hides, and only there (run_training in trainer.py).
THEOREM LogIsAlwaysWhole == Spec => []LogIsWhole
<1>1. ConsoleInv => LogIsWhole
  BY DEF ConsoleInv
<1> QED
  BY <1>1, ConsoleInvariance, PTL

\* The console is what ConsoleOutputFormatter makes of the whole log: in which
\* chunks the filter got it does not matter.
THEOREM ChunksDoNotMatter == Spec => []ConsoleIsWhole
BY ConsoleInvariance, WholeConsole, PTL

-----------------------------------------------------------------------------
(* Types                                                                    *)

FormatterOK(f) ==
  /\ {"verbosity", "buffer", "steps", "training", "table"} \subseteq DOMAIN f
  /\ f.verbosity \in {"quiet", "concise", "full"}
  /\ IsSequence(f.buffer) /\ \A i \in DOMAIN f.buffer : f.buffer[i] \notin Ends
  /\ f.steps \in Progress \cup {NoSteps} /\ (f.table => ~f.training)

LEMMA TextsAreRecognised ==
  ASSUME NEW record
  PROVE  TextOf(record).word = "bar" => TextOf(record).at \in Progress
<1>1. \A t \in Texts : t.word = "bar" => t.at \in Progress
  BY DEF Texts, Words
<1>2. TextOf(record) \in Texts \/ TextOf(record) = Plain
  BY DEF TextOf
<1> QED
  BY <1>1, <1>2 DEF Plain

LEMMA EmitIsOK ==
  ASSUME NEW f, FormatterOK(f), NEW item
  PROVE  FormatterOK(Emit(f, item))
<1> DEFINE g == Emit(f, item)
<1>1. DOMAIN g = DOMAIN f
  BY DEF Emit
<1>2. /\ g.verbosity = f.verbosity /\ g.buffer = f.buffer /\ g.steps = f.steps
      /\ g.training = f.training /\ g.table = f.table
  BY DEF Emit, FormatterOK
<1> HIDE DEF g
<1>3. FormatterOK(g)
  BY <1>1, <1>2 DEF FormatterOK
<1> QED
  BY <1>3 DEF g

LEMMA HandleBarIsOK ==
  ASSUME NEW f, FormatterOK(f), NEW text, text.at \in Progress
  PROVE  FormatterOK(HandleBar(f, text))
<1> DEFINE seen == [f EXCEPT !.steps = text.at, !.lastBar = text.at]
           shown == Emit(seen, Line(Whole(text)))
<1>1. FormatterOK([f EXCEPT !.steps = text.at]) /\ FormatterOK(seen)
  BY DEF FormatterOK
<1>2. HandleBar(f, text) \in {[f EXCEPT !.steps = text.at], seen, [shown EXCEPT !.lastStep = text.at[1]]}
  BY DEF HandleBar
<1> HIDE DEF seen
<1>3. FormatterOK(shown)
  BY <1>1, EmitIsOK
<1> HIDE DEF shown
<1>4. FormatterOK([shown EXCEPT !.lastStep = text.at[1]])
  BY <1>3 DEF FormatterOK
<1> QED
  BY <1>1, <1>2, <1>4

LEMMA HandleTextIsOK ==
  ASSUME NEW f, FormatterOK(f), NEW record
  PROVE  FormatterOK(HandleText(f, record))
<1> DEFINE text == TextOf(record)
           started == [f EXCEPT !.training = TRUE, !.table = FALSE, !.steps = NoSteps,
                                !.lastStep = 0, !.lastBar = NoSteps]
<1>1. FormatterOK(started)
  BY DEF FormatterOK
<1>2. \/ HandleText(f, record) \in
           {Emit(f, Line(record)), Emit(started, Line(record)), LeaveTraining(f, TRUE),
            LeaveTraining(f, FALSE), Emit(f, Shown(Whole(text), f.steps)), f}
      \/ text.word = "bar" /\ HandleText(f, record) = HandleBar(f, text)
  BY DEF HandleText
<1>4. text.word = "bar" => text.at \in Progress
  BY TextsAreRecognised
<1> HIDE DEF started
<1>3. FormatterOK(LeaveTraining(f, TRUE)) /\ FormatterOK(LeaveTraining(f, FALSE))
  BY DEF FormatterOK, LeaveTraining
<1> QED
  BY <1>1, <1>2, <1>3, <1>4, EmitIsOK, HandleBarIsOK

LEMMA HandleRecordIsOK ==
  ASSUME NEW f, FormatterOK(f), NEW record, NEW end
  PROVE  FormatterOK(HandleRecord(f, record, end))
<1>1. FormatterOK([f EXCEPT !.traceback = FALSE])
  BY DEF FormatterOK
<1> DEFINE text == TextOf(record)
           inside == f.traceback \/ text.word = "header"
           noted == [f EXCEPT !.traceback = inside /\ text.word # "raised"]
<1>2. HandleRecord(f, record, end) \in
        {f, [f EXCEPT !.traceback = FALSE], Emit(noted, Line(record)), HandleText(f, record)}
  BY DEF HandleRecord, HandleLine
<1>3. FormatterOK(noted)
  BY DEF FormatterOK
<1> HIDE DEF noted, text
<1> QED
  BY <1>1, <1>2, <1>3, EmitIsOK, HandleTextIsOK

LEMMA FeedTokenIsOK ==
  ASSUME NEW f, FormatterOK(f), NEW token
  PROVE  FormatterOK(FeedToken(f, token))
<1> DEFINE handled == HandleRecord(f, f.buffer, token)
<1>1. CASE token \in Ends
  <2>1. FormatterOK(handled)
    BY HandleRecordIsOK
  <2>2. FeedToken(f, token) = [handled EXCEPT !.buffer = <<>>]
    BY <1>1 DEF FeedToken
  <2>3. IsSequence(<<>>)
    BY DEF IsSequence
  <2> HIDE DEF handled
  <2>4. FormatterOK([handled EXCEPT !.buffer = <<>>])
    BY <2>1, <2>3 DEF FormatterOK
  <2> QED
    BY <2>2, <2>4
<1>2. CASE token \notin Ends
  <2> DEFINE b == f.buffer
             more == Append(b, token)
             T == {b[i] : i \in DOMAIN b} \cup {token}
  <2>1. \A x \in T : x \notin Ends
    BY <1>2 DEF FormatterOK
  <2>2. b \in Seq(T)
    <3>1. b \in Seq({b[i] : i \in DOMAIN b})
      BY DEF FormatterOK, IsSequence
    <3> QED
      BY <3>1
  <2>3. more \in Seq(T)
    BY <2>2
  <2> HIDE DEF T
  <2>4. IsSequence(more) /\ \A i \in DOMAIN more : more[i] \in T
    <3> HIDE DEF more
    <3> QED
      BY <2>3 DEF IsSequence
  <2>5. FeedToken(f, token) = [f EXCEPT !.buffer = more]
    BY <1>2 DEF FeedToken
  <2> HIDE DEF more
  <2>6. FormatterOK([f EXCEPT !.buffer = more])
    BY <2>1, <2>4 DEF FormatterOK
  <2> QED
    BY <2>5, <2>6
<1> QED
  BY <1>1, <1>2

LEMMA FeedIsOK ==
  ASSUME NEW f, FormatterOK(f), NEW c, Len(c) \in Nat
  PROVE  FormatterOK(Feed(f, c))
<1>1. FormatterOK(FeedAll(f, c))
  <2> DEFINE n == Len(c)
  <2>1. n = Len(c) /\ n \in Nat /\ n \in 0 .. n
    OBVIOUS
  <2> HIDE DEF n
  <2>2. PICK state : state[0] = f /\ FeedAll(f, c) = state[n] /\ Steps(state, c, n)
    BY <2>1, FeedAllFeeds, Zenon
  <2> DEFINE S == {i \in 0 .. n : FormatterOK(state[i])}
  <2>3. 0 \in S
    BY <2>1, <2>2
  <2>4. \A i \in 1 .. n : i - 1 \in S => i \in S
    BY <2>2, FeedTokenIsOK DEF Steps
  <2>5. \A i \in S : FormatterOK(state[i])
    OBVIOUS
  <2> HIDE DEF S
  <2> QED
    BY <2>1, <2>2, <2>3, <2>4, <2>5, InductionUpTo
<1>2. FormatterOK([f EXCEPT !.out = f.out \o c])
  BY DEF FormatterOK
<1> QED
  BY <1>1, <1>2 DEF Feed

LEMMA CloseIsOK ==
  ASSUME NEW f, FormatterOK(f)
  PROVE  FormatterOK(Close(f))
<1> DEFINE handled == HandleRecord(f, f.buffer, CR)
<1>1. FormatterOK(handled)
  BY HandleRecordIsOK
<1>2. Close(f) \in {f, [handled EXCEPT !.buffer = <<>>, !.training = FALSE]}
  BY DEF Close
<1>3. IsSequence(<<>>)
  BY DEF IsSequence
<1> HIDE DEF handled
<1>4. FormatterOK([handled EXCEPT !.buffer = <<>>, !.training = FALSE])
  BY <1>1, <1>3 DEF FormatterOK
<1> QED
  BY <1>2, <1>4

LEMMA NewFormatterIsOK ==
  ASSUME NEW v \in {"quiet", "concise", "full"}
  PROVE  FormatterOK(Formatter(v))
BY DEF FormatterOK, Formatter, IsSequence

TypeInv ==
  /\ stage \in {"loaded", "mapped", "selected", "valid", "converted", "prepared", "training",
                "trained", "exited", "rejected", "inconsistent", "failed"}
  /\ schema \in Schema \cup {"none"}
  /\ FormatterOK(formatter)

LEMMA TypeInit == Init => TypeInv
<1>1. FormatterOK(Formatter("quiet"))
  BY NewFormatterIsOK
<1> QED
  BY <1>1 DEF Init, TypeInv

LEMMA TypeNext == TypeInv /\ DatasetInv /\ DatasetInv' /\ ConsoleInv /\ ConsoleInv' /\ [Next]_vars => TypeInv'
<1> SUFFICES ASSUME TypeInv, DatasetInv, DatasetInv', ConsoleInv, ConsoleInv', [Next]_vars
             PROVE  TypeInv'
  OBVIOUS
<1> USE DEF Step, dataset, console
<1>1. CASE MapColumns \/ ValidateRows \/ ConvertRows \/ ValidateExamples \/ Interrupted \/ UNCHANGED vars
  <2>1. UNCHANGED <<schema, formatter>>
    BY <1>1 DEF MapColumns, ValidateRows, ConvertRows, ValidateExamples, Interrupted, vars
  <2>2. stage' = stage \/ stage' \in {"mapped", "valid", "converted", "prepared",
                                      "rejected", "inconsistent", "failed"}
    BY <1>1 DEF MapColumns, ValidateRows, ConvertRows, ValidateExamples, Interrupted, vars
  <2> QED
    BY <2>1, <2>2 DEF TypeInv
<1>2. CASE SelectSchema
  <2>1. UNCHANGED formatter /\ stage' \in {"selected", "rejected"}
    BY <1>2 DEF SelectSchema
  <2>2. stage' = "selected" => schema' \in Schema
    BY DEF DatasetInv, Selected
  <2>3. stage' = "rejected" => schema' \in Schema \cup {"none"}
    BY <1>2 DEF SelectSchema, TypeInv
  <2> QED
    BY <2>1, <2>2, <2>3 DEF TypeInv
<1>3. CASE StartTrainer
  <2>1. PICK v \in Verbosity : formatter' = Formatter(v)
    BY <1>3 DEF StartTrainer
  <2>2. v \in {"quiet", "concise", "full"}
    BY JobAssumption
  <2>3. FormatterOK(formatter')
    BY <2>1, <2>2, NewFormatterIsOK
  <2>4. stage' = "training" /\ schema' = "none"
    BY <1>3 DEF StartTrainer
  <2> QED
    BY <2>3, <2>4 DEF TypeInv
<1>4. CASE ReadChunk \/ TrainerEnds
  <2>1. stage' \in {"training", "trained", "exited"} /\ schema' = schema
    BY <1>4 DEF ReadChunk, TrainerEnds
  <2>2. FormatterOK(formatter')
    <3>1. CASE ReadChunk
      <4>1. PICK n \in 1 .. ChunkSize :
              n <= Len(Ahead) /\ formatter' = Feed(formatter, Redact(SubSeq(Ahead, 1, n)))
        BY <3>1 DEF ReadChunk
      <4>2. IsSequence(output) /\ read \in 0 .. Len(output) /\ n \in Nat
        BY JobAssumption DEF ConsoleInv
      <4>3. Len(Redact(SubSeq(Ahead, 1, n))) \in Nat
        <5> DEFINE T == {output[i] : i \in DOMAIN output}
        <5>1. output \in Seq(T)
          BY <4>2 DEF IsSequence
        <5> HIDE DEF T
        <5>2. Chunk(output, read, n) \in Seq(T) /\ Len(Chunk(output, read, n)) = n
          BY <4>1, <4>2, <5>1, ChunkOfOutput DEF Ahead
        <5> QED
          BY <4>2, <5>2, RedactIsMask DEF Chunk, Ahead
      <4> QED
        BY <4>1, <4>3, FeedIsOK DEF TypeInv
    <3>2. CASE TrainerEnds
      BY <3>2, CloseIsOK DEF TrainerEnds, TypeInv
    <3> QED
      BY <1>4, <3>1, <3>2
  <2> QED
    BY <2>1, <2>2 DEF TypeInv
<1> QED
  BY <1>1, <1>2, <1>3, <1>4 DEF Next

\* The types of the variables, in every state.
THEOREM TypeCorrect == Spec => []TypeOK
<1>1. TypeInv /\ DatasetInv /\ ConsoleInv => TypeOK
  <2>1. LogIsWhole => Len(log) = read
    BY DEF LogIsWhole
  <2> QED
    BY <2>1 DEF TypeInv, DatasetInv, ConsoleInv, FormatterOK, TypeOK
<1>2. TypeInv /\ DatasetInv /\ ConsoleInv /\ [Next]_vars /\ DatasetInv' /\ ConsoleInv' => TypeInv'
  BY TypeNext
<1> QED
  BY <1>1, <1>2, TypeInit, DatasetInvariance, ConsoleInvariance, PTL DEF Spec

-----------------------------------------------------------------------------
(* What is urgent                                                           *)

\* Where a line starts.
LEMMA StartIsUnique ==
  ASSUME NEW o, NEW stop \in Nat, NEW a \in 1 .. stop, NEW b \in 1 .. stop,
         Starts(o, a, stop), Starts(o, b, stop)
  PROVE  a = b
<1>1. ASSUME NEW x \in 1 .. stop, NEW y \in 1 .. stop, Starts(o, x, stop), Starts(o, y, stop), x < y
      PROVE  FALSE
  <2>1. y - 1 \in x .. stop - 1 /\ y # 1
    BY <1>1
  <2> QED
    BY <2>1, <1>1 DEF Starts
<1> QED
  BY <1>1

LEMMA StartIsThere ==
  ASSUME NEW o, NEW n \in Nat
  PROVE  \A i \in 0 .. n : \E from \in 1 .. i + 1 : Starts(o, from, i + 1)
<1> DEFINE S == {i \in 0 .. n : \E from \in 1 .. i + 1 : Starts(o, from, i + 1)}
<1>1. 0 \in S
  <2>1. 1 \in 1 .. 0 + 1 /\ Starts(o, 1, 0 + 1)
    BY DEF Starts
  <2> QED
    BY <2>1
<1>2. ASSUME NEW i \in 1 .. n, i - 1 \in S
      PROVE  i \in S
  <2>1. PICK from \in 1 .. i : Starts(o, from, i)
    BY <1>2
  <2>2. CASE o[i] \in Ends
    <3>1. i + 1 \in 1 .. i + 1 /\ Starts(o, i + 1, i + 1)
      BY <2>2 DEF Starts
    <3> QED
      BY <3>1
  <2>3. CASE o[i] \notin Ends
    <3>1. \A j \in from .. (i + 1) - 1 : j \in from .. i - 1 \/ j = i
      OBVIOUS
    <3>2. from \in 1 .. i + 1 /\ Starts(o, from, i + 1)
      BY <2>1, <2>3, <3>1 DEF Starts
    <3> QED
      BY <3>2
  <2> QED
    BY <2>2, <2>3
<1>3. \A i \in S : \E from \in 1 .. i + 1 : Starts(o, from, i + 1)
  OBVIOUS
<1> HIDE DEF S
<1> QED
  BY <1>1, <1>2, <1>3, InductionUpTo

LEMMA LineFrom ==
  ASSUME NEW o, NEW stop \in Nat, NEW from \in 1 .. stop, Starts(o, from, stop)
  PROVE  LineAt(o, stop) = SubSeq(o, from, stop - 1)
<1> DEFINE a == CHOOSE x \in 1 .. stop : Starts(o, x, stop)
<1>1. a \in 1 .. stop /\ Starts(o, a, stop)
  OBVIOUS
<1> HIDE DEF a
<1>2. a = from
  BY <1>1, StartIsUnique
<1> QED
  BY <1>2 DEF LineAt, a

\* The line that goes on at i, token by token.
LEMMA NextLineAt ==
  ASSUME NEW T, NEW o \in Seq(T), NEW i \in 1 .. Len(o)
  PROVE  /\ LineAt(o, 1) = <<>>
         /\ o[i] \in Ends => LineAt(o, i + 1) = <<>>
         /\ o[i] \notin Ends => LineAt(o, i + 1) = Append(LineAt(o, i), o[i])
<1>1. LineAt(o, 1) = <<>>
  <2>1. 1 \in 1 .. 1 /\ Starts(o, 1, 1)
    BY DEF Starts
  <2>2. LineAt(o, 1) = SubSeq(o, 1, 1 - 1)
    BY <2>1, LineFrom
  <2> QED
    BY <2>2
<1>2. PICK from \in 1 .. i : Starts(o, from, i)
  <2>1. i - 1 \in 0 .. i - 1 /\ i - 1 \in Nat /\ (i - 1) + 1 = i
    OBVIOUS
  <2>2. \E x \in 1 .. (i - 1) + 1 : Starts(o, x, (i - 1) + 1)
    BY <2>1, StartIsThere
  <2> QED
    BY <2>1, <2>2
<1>3. CASE o[i] \in Ends
  <2>1. i + 1 \in 1 .. i + 1 /\ Starts(o, i + 1, i + 1)
    BY <1>3 DEF Starts
  <2>2. LineAt(o, i + 1) = SubSeq(o, i + 1, (i + 1) - 1)
    BY <2>1, LineFrom
  <2>3. SubSeq(o, i + 1, (i + 1) - 1) = <<>>
    OBVIOUS
  <2> QED
    BY <1>1, <1>3, <2>2, <2>3
<1>4. CASE o[i] \notin Ends
  <2>1. \A j \in from .. (i + 1) - 1 : j \in from .. i - 1 \/ j = i
    OBVIOUS
  <2>2. from \in 1 .. i + 1 /\ Starts(o, from, i + 1)
    BY <1>2, <1>4, <2>1 DEF Starts
  <2>3. LineAt(o, i + 1) = SubSeq(o, from, (i + 1) - 1) /\ LineAt(o, i) = SubSeq(o, from, i - 1)
    BY <1>2, <2>2, LineFrom
  <2> DEFINE p == SubSeq(o, from, i - 1)
             q == SubSeq(o, from, (i + 1) - 1)
  <2>4. /\ p \in Seq(T) /\ Len(p) = i - from
        /\ \A j \in 1 .. i - from : p[j] = o[from + j - 1]
    OBVIOUS
  <2>5. /\ q \in Seq(T) /\ Len(q) = i + 1 - from
        /\ \A j \in 1 .. i + 1 - from : q[j] = o[from + j - 1]
    OBVIOUS
  <2> HIDE DEF p, q
  <2>6. o[i] \in T /\ from + (i + 1 - from) - 1 = i
    OBVIOUS
  <2>7. q = Append(p, o[i])
    <3>1. Append(p, o[i]) \in Seq(T) /\ Len(Append(p, o[i])) = i + 1 - from
      BY <2>4, <2>6
    <3>2. \A j \in 1 .. i + 1 - from : Append(p, o[i])[j] = q[j]
      BY <2>4, <2>5, <2>6
    <3> QED
      BY <3>1, <3>2, <2>5
  <2> QED
    BY <1>1, <1>4, <2>3, <2>7 DEF p, q
<1> QED
  BY <1>3, <1>4

\* A traceback by the code's rule: any empty record that a NL ends shuts it.
CodeShuts(o, stop) ==
  IF LineAt(o, stop) = <<>> THEN o[stop] = NL ELSE TextAt(o, stop).word = "raised"
CodeInTraceback(o, stop) ==
  \E header \in Stops(o) :
    /\ header <= stop /\ Opens(o, header)
    /\ \A s \in Stops(o) : header <= s /\ s < stop => ~CodeShuts(o, s)
CodeUrgentStops(o) ==
  {s \in Stops(o) :
     LineAt(o, s) # <<>> /\ (CodeInTraceback(o, s) \/ TextAt(o, s).word = "error")}

\* After n tokens a traceback is open.
IsOpen(o, n) ==
  \E h \in Cuts(o) : /\ h <= n /\ Opens(o, h)
                     /\ \A s \in Cuts(o) : h <= s /\ s <= n => ~CodeShuts(o, s)

LEMMA TracebackGoesOn ==
  ASSUME NEW o, Len(o) \in Nat, DOMAIN o = 1 .. Len(o), NEW s \in Stops(o)
  PROVE  /\ CodeInTraceback(o, s) = (IsOpen(o, s - 1) \/ Opens(o, s))
         /\ s \in Cuts(o) => IsOpen(o, s) = (CodeInTraceback(o, s) /\ ~CodeShuts(o, s))
<1>1. s \in Int /\ s <= Len(o) + 1
  BY DEF Stops, Cuts
<1>2. \A t \in Stops(o) : t \in Int /\ (t < s => t \in Cuts(o))
  BY <1>1 DEF Stops, Cuts
<1>3. \A t \in Cuts(o) : t \in Stops(o) /\ t \in Int
  BY DEF Stops, Cuts
<1>4. \A t \in Int : (t < s <=> t <= s - 1) /\ (t <= s <=> t < s \/ t = s)
  BY <1>1
<1>5. ASSUME CodeInTraceback(o, s), ~Opens(o, s)
      PROVE  IsOpen(o, s - 1)
  <2>1. PICK h \in Stops(o) : /\ h <= s /\ Opens(o, h)
                              /\ \A t \in Stops(o) : h <= t /\ t < s => ~CodeShuts(o, t)
    BY <1>5 DEF CodeInTraceback
  <2>2. h # s
    BY <1>5, <2>1
  <2>3. h \in Cuts(o) /\ h <= s - 1
    BY <2>1, <2>2, <1>2, <1>4
  <2>4. \A t \in Cuts(o) : h <= t /\ t <= s - 1 => ~CodeShuts(o, t)
    BY <2>1, <1>3, <1>4
  <2> QED
    BY <2>1, <2>3, <2>4 DEF IsOpen
<1>6. ASSUME IsOpen(o, s - 1)
      PROVE  CodeInTraceback(o, s)
  <2>1. PICK h \in Cuts(o) : /\ h <= s - 1 /\ Opens(o, h)
                             /\ \A t \in Cuts(o) : h <= t /\ t <= s - 1 => ~CodeShuts(o, t)
    BY <1>6 DEF IsOpen
  <2>2. h \in Stops(o) /\ h <= s
    BY <2>1, <1>3, <1>4
  <2>3. \A t \in Stops(o) : h <= t /\ t < s => ~CodeShuts(o, t)
    BY <2>1, <1>2, <1>4
  <2> QED
    BY <2>1, <2>2, <2>3 DEF CodeInTraceback
<1>7. ASSUME Opens(o, s)
      PROVE  CodeInTraceback(o, s)
  <2>1. s <= s /\ \A t \in Stops(o) : ~(s <= t /\ t < s)
    BY <1>1, <1>2
  <2> QED
    BY <1>7, <2>1 DEF CodeInTraceback
<1>8. ASSUME s \in Cuts(o), IsOpen(o, s)
      PROVE  CodeInTraceback(o, s) /\ ~CodeShuts(o, s)
  <2>1. PICK h \in Cuts(o) : /\ h <= s /\ Opens(o, h)
                             /\ \A t \in Cuts(o) : h <= t /\ t <= s => ~CodeShuts(o, t)
    BY <1>8 DEF IsOpen
  <2>2. s <= s /\ ~CodeShuts(o, s)
    BY <2>1, <1>1, <1>8
  <2>3. \A t \in Stops(o) : h <= t /\ t < s => ~CodeShuts(o, t)
    BY <2>1, <1>2, <1>4
  <2> QED
    BY <2>1, <2>2, <2>3, <1>3 DEF CodeInTraceback
<1>9. ASSUME s \in Cuts(o), CodeInTraceback(o, s), ~CodeShuts(o, s)
      PROVE  IsOpen(o, s)
  <2>1. PICK h \in Stops(o) : /\ h <= s /\ Opens(o, h)
                              /\ \A t \in Stops(o) : h <= t /\ t < s => ~CodeShuts(o, t)
    BY <1>9 DEF CodeInTraceback
  <2>2. h \in Cuts(o)
    BY <2>1, <1>2, <1>4, <1>9
  <2>3. \A t \in Cuts(o) : h <= t /\ t <= s => ~CodeShuts(o, t)
    BY <2>1, <1>3, <1>4, <1>9
  <2> QED
    BY <2>1, <2>2, <2>3 DEF IsOpen
<1> QED
  BY <1>5, <1>6, <1>7, <1>8, <1>9 DEF CodeInTraceback, IsOpen

\* The code shuts a traceback wherever it should, and elsewhere only at a CR NL.
LEMMA CodeAgrees ==
  ASSUME NEW o, Len(o) \in Nat, DOMAIN o = 1 .. Len(o)
  PROVE  /\ CodeUrgentStops(o) \subseteq UrgentStops(o)
         /\ \A s \in Stops(o) : Opens(o, s) \/ IsError(o, s) => s \in CodeUrgentStops(o)
         /\ HasCRNL(o) \/ CodeUrgentStops(o) = UrgentStops(o)
<1>1. \A s \in Stops(o) : s \in Int /\ s >= 1 /\ s <= Len(o) + 1 /\ (s \in DOMAIN o \/ s = Len(o) + 1)
  BY DEF Stops, Cuts
<1>2. ASSUME NEW s \in Stops(o), Shuts(o, s)
      PROVE  CodeShuts(o, s)
  BY <1>2 DEF Shuts, IsBlank, CodeShuts
<1>3. ASSUME NEW s \in Stops(o), s \in DOMAIN o, ~HasCRNL(o), CodeShuts(o, s)
      PROVE  Shuts(o, s)
  BY <1>3 DEF Shuts, IsBlank, CodeShuts, HasCRNL
<1>4. ASSUME NEW s \in Stops(o), CodeInTraceback(o, s)
      PROVE  InTraceback(o, s)
  BY <1>2, <1>4 DEF CodeInTraceback, InTraceback
<1>5. ASSUME NEW s \in Stops(o), ~HasCRNL(o), InTraceback(o, s)
      PROVE  CodeInTraceback(o, s)
  <2>1. PICK h \in Stops(o) : /\ h <= s /\ Opens(o, h)
                              /\ \A t \in Stops(o) : h <= t /\ t < s => ~Shuts(o, t)
    BY <1>5 DEF InTraceback
  <2>2. \A t \in Stops(o) : t < s => t \in DOMAIN o
    BY <1>1
  <2>3. \A t \in Stops(o) : h <= t /\ t < s => ~CodeShuts(o, t)
    BY <1>3, <1>5, <2>1, <2>2
  <2> QED
    BY <2>1, <2>3 DEF CodeInTraceback
<1>6. ASSUME NEW s \in Stops(o), Opens(o, s)
      PROVE  CodeInTraceback(o, s)
  <2>1. s <= s /\ \A t \in Stops(o) : ~(s <= t /\ t < s)
    BY <1>1
  <2> QED
    BY <1>6, <2>1 DEF CodeInTraceback
<1>7. CodeUrgentStops(o) \subseteq UrgentStops(o)
  BY <1>4 DEF CodeUrgentStops, UrgentStops, IsError
<1>8. \A s \in Stops(o) : Opens(o, s) \/ IsError(o, s) => s \in CodeUrgentStops(o)
  BY <1>6 DEF CodeUrgentStops, IsError, Opens
<1>9. ~HasCRNL(o) => UrgentStops(o) \subseteq CodeUrgentStops(o)
  BY <1>5 DEF CodeUrgentStops, UrgentStops, IsError
<1> QED
  BY <1>7, <1>8, <1>9

\* Between two ends of lines nothing is opened or closed.
LEMMA NothingOpens ==
  ASSUME NEW o, Len(o) \in Nat, DOMAIN o = 1 .. Len(o), NEW n \in Nat, n \notin Cuts(o)
  PROVE  IsOpen(o, n) = IsOpen(o, n - 1)
<1>1. \A t \in Cuts(o) : t <= n <=> t <= n - 1
  BY DEF Cuts
<1> QED
  BY <1>1, Zenon DEF IsOpen

LEMMA AppendOne ==
  ASSUME NEW out, IsSequence(out), NEW item
  PROVE  /\ IsSequence(Append(out, item)) /\ Len(out) \in Nat /\ DOMAIN out = 1 .. Len(out)
         /\ Len(Append(out, item)) = Len(out) + 1
         /\ DOMAIN Append(out, item) = 1 .. Len(out) + 1
         /\ Append(out, item)[Len(out) + 1] = item
         /\ \A i \in 1 .. Len(out) : Append(out, item)[i] = out[i]
<1> DEFINE T == {out[i] : i \in DOMAIN out} \cup {item}
<1>1. out \in Seq(T)
  <2>1. out \in Seq({out[i] : i \in DOMAIN out})
    BY DEF IsSequence
  <2> QED
    BY <2>1
<1>2. item \in T
  OBVIOUS
<1> HIDE DEF T
<1> DEFINE more == Append(out, item)
<1>3. /\ more \in Seq(T) /\ Len(more) = Len(out) + 1 /\ Len(out) \in Nat /\ DOMAIN out = 1 .. Len(out)
      /\ more[Len(out) + 1] = item /\ \A i \in 1 .. Len(out) : more[i] = out[i]
  BY <1>1, <1>2
<1> HIDE DEF more
<1>4. IsSequence(more) /\ DOMAIN more = 1 .. Len(out) + 1
  BY <1>3 DEF IsSequence
<1> QED
  BY <1>3, <1>4 DEF more

LEMMA ListsNothing ==
  ASSUME NEW o, NEW only
  PROVE  Lists(<<>>, o, {}, only)
<1> DEFINE at == [s \in {} |-> 1]
<1>1. at \in [{} -> DOMAIN <<>>]
  OBVIOUS
<1>2. \A i \in DOMAIN <<>> : FALSE
  OBVIOUS
<1> HIDE DEF at
<1> QED
  BY <1>1, <1>2 DEF Lists

LEMMA ListsUrgent ==
  ASSUME NEW out, IsSequence(out), NEW o, NEW stops, NEW only, Lists(out, o, stops, only),
         NEW stop \in Int, \A s \in stops : s \in Int /\ s < stop
  PROVE  Lists(Append(out, Line(LineAt(o, stop))), o, stops \cup {stop}, only)
<1> DEFINE item == Line(LineAt(o, stop))
           more == Append(out, item)
           n == Len(out)
<1>1. /\ n \in Nat /\ DOMAIN out = 1 .. n /\ DOMAIN more = 1 .. n + 1 /\ more[n + 1] = item
      /\ \A i \in 1 .. n : more[i] = out[i]
  BY AppendOne
<1>2. PICK at \in [stops -> DOMAIN out] :
        /\ \A s \in stops : out[at[s]] = Line(LineAt(o, s))
        /\ \A s, t \in stops : s < t => at[s] < at[t]
        /\ \A i \in DOMAIN out :
             (\E s \in stops : at[s] = i) \/ (~only /\ ~OutsideTraining(out[i]))
  BY DEF Lists
<1> DEFINE to == [s \in stops \cup {stop} |-> IF s = stop THEN n + 1 ELSE at[s]]
<1>3. to[stop] = n + 1 /\ \A s \in stops : to[s] = at[s] /\ to[s] \in 1 .. n
  BY <1>1
<1>4. to \in [stops \cup {stop} -> DOMAIN more]
  BY <1>1, <1>3
<1> HIDE DEF to, more, n
<1>5. \A s \in stops \cup {stop} : more[to[s]] = Line(LineAt(o, s))
  <2>1. more[to[stop]] = Line(LineAt(o, stop))
    BY <1>1, <1>3
  <2>2. \A s \in stops : more[to[s]] = Line(LineAt(o, s))
    BY <1>1, <1>2, <1>3
  <2> QED
    BY <2>1, <2>2
<1>6. \A s, t \in stops \cup {stop} : s < t => to[s] < to[t]
  <2> TAKE s, t \in stops \cup {stop}
  <2>1. CASE s \in stops /\ t \in stops
    BY <2>1, <1>2, <1>3
  <2>2. CASE s \in stops /\ t = stop
    BY <2>2, <1>1, <1>3
  <2>3. CASE s = stop
    BY <2>3
  <2> QED
    BY <2>1, <2>2, <2>3
<1>7. \A i \in DOMAIN more :
        (\E s \in stops \cup {stop} : to[s] = i) \/ (~only /\ ~OutsideTraining(more[i]))
  <2> TAKE i \in DOMAIN more
  <2>1. CASE i = n + 1
    BY <2>1, <1>3
  <2>2. CASE i \in 1 .. n
    <3>1. (\E s \in stops : at[s] = i) \/ (~only /\ ~OutsideTraining(out[i]))
      BY <2>2, <1>1, <1>2
    <3> QED
      BY <3>1, <2>2, <1>1, <1>3
  <2> QED
    BY <2>1, <2>2, <1>1
<1>8. Lists(more, o, stops \cup {stop}, only)
  BY <1>4, <1>5, <1>6, <1>7 DEF Lists
<1> QED
  BY <1>8 DEF more

LEMMA ListsOther ==
  ASSUME NEW out, IsSequence(out), NEW o, NEW stops, Lists(out, o, stops, FALSE),
         NEW item, ~OutsideTraining(item)
  PROVE  Lists(Append(out, item), o, stops, FALSE)
<1> DEFINE more == Append(out, item)
           n == Len(out)
<1>1. /\ n \in Nat /\ DOMAIN out = 1 .. n /\ DOMAIN more = 1 .. n + 1 /\ more[n + 1] = item
      /\ \A i \in 1 .. n : more[i] = out[i]
  BY AppendOne
<1>2. PICK at \in [stops -> DOMAIN out] :
        /\ \A s \in stops : out[at[s]] = Line(LineAt(o, s))
        /\ \A s, t \in stops : s < t => at[s] < at[t]
        /\ \A i \in DOMAIN out :
             (\E s \in stops : at[s] = i) \/ (~FALSE /\ ~OutsideTraining(out[i]))
  BY Zenon DEF Lists
<1> HIDE DEF more, n
<1>3. \A s \in stops : at[s] \in 1 .. n
  BY <1>1, <1>2
<1>4. at \in [stops -> DOMAIN more]
  BY <1>1, <1>2
<1>5. \A s \in stops : more[at[s]] = Line(LineAt(o, s))
  BY <1>1, <1>2, <1>3
<1>6. \A i \in DOMAIN more : (\E s \in stops : at[s] = i) \/ ~OutsideTraining(more[i])
  <2> TAKE i \in DOMAIN more
  <2>1. CASE i = n + 1
    BY <2>1, <1>1
  <2>2. CASE i \in 1 .. n
    BY <2>2, <1>1, <1>2
  <2> QED
    BY <2>1, <2>2, <1>1
<1>7. Lists(more, o, stops, FALSE)
  BY <1>2, <1>4, <1>5, <1>6, Zenon DEF Lists
<1> QED
  BY <1>7 DEF more

\* What other lines do to the filter when it is not quiet.
Passes(f, g) ==
  /\ DOMAIN g = DOMAIN f /\ g.verbosity = f.verbosity /\ g.traceback = f.traceback
  /\ \/ g.out = f.out
     \/ \E item : ~OutsideTraining(item) /\ g.out = Append(f.out, item)

HasFields(f) == {"verbosity", "traceback", "out", "buffer"} \subseteq DOMAIN f

\* A text is recognised as itself.
LEMMA TextItself ==
  ASSUME NEW record
  PROVE  TextOf(Whole(TextOf(record))) = TextOf(record)
<1> DEFINE t == TextOf(record)
<1>1. t \in Texts
  BY DEF TextOf, Plain, Texts, Words
<1> HIDE DEF t
<1>2. ASSUME NEW u
      PROVE  Len(Whole(u)) = 2 /\ SubSeq(Whole(u), 1, 2) = Whole(u) /\ Whole(u)[1].text = u
  <2> DEFINE w == Whole(u)
             T == {[text |-> u, half |-> 1], [text |-> u, half |-> 2]}
  <2>1. w \in Seq(T) /\ Len(w) = 2 /\ w[1].text = u
    BY DEF Whole
  <2> HIDE DEF w, T
  <2>2. SubSeq(w, 1, 2) = w
    BY <2>1
  <2> QED
    BY <2>1, <2>2 DEF w
<1>3. \A u \in Texts : Begins(Whole(t), u) <=> u = t
  BY <1>2 DEF Begins
<1> QED
  BY <1>1, <1>3 DEF TextOf, t

LEMMA HandleTextPasses ==
  ASSUME NEW f, HasFields(f), NEW record, TextOf(record).word \notin {"header", "error"}
  PROVE  Passes(f, HandleText(f, record))
<1> DEFINE text == TextOf(record)
           started == [f EXCEPT !.training = TRUE, !.table = FALSE, !.steps = NoSteps,
                                !.lastStep = 0, !.lastBar = NoSteps]
           seen == [f EXCEPT !.steps = text.at, !.lastBar = text.at]
           shown == Emit(seen, Line(Whole(text)))
<1>1. /\ DOMAIN started = DOMAIN f /\ started.verbosity = f.verbosity
      /\ started.traceback = f.traceback /\ started.out = f.out
  BY DEF HasFields
<1>2. /\ DOMAIN seen = DOMAIN f /\ seen.verbosity = f.verbosity
      /\ seen.traceback = f.traceback /\ seen.out = f.out
  BY DEF HasFields
<1> HIDE DEF started, seen
<1>3. ASSUME NEW g, DOMAIN g = DOMAIN f, g.verbosity = f.verbosity, g.traceback = f.traceback,
             g.out = f.out, NEW item, ~OutsideTraining(item)
      PROVE  Passes(f, Emit(g, item))
  <2> DEFINE h == Emit(g, item)
  <2>1. /\ DOMAIN h = DOMAIN g /\ h.verbosity = g.verbosity /\ h.traceback = g.traceback
        /\ h.out = Append(g.out, item)
    BY <1>3 DEF Emit, HasFields
  <2> HIDE DEF h
  <2>2. Passes(f, h)
    BY <1>3, <2>1 DEF Passes
  <2> QED
    BY <2>2 DEF h
<1>4. text.word \in {"warning", "training", "bar", "loss", "detail"} =>
        \A steps : /\ ~OutsideTraining(Shown(record, steps))
                   /\ ~OutsideTraining(Shown(Whole(text), steps))
  BY TextItself DEF OutsideTraining, Shown
<1>5. Passes(f, f) /\ Passes(f, [f EXCEPT !.steps = text.at]) /\ Passes(f, seen)
  BY DEF Passes, HasFields, seen
<1>6. Passes(f, LeaveTraining(f, TRUE)) /\ Passes(f, LeaveTraining(f, FALSE))
  BY DEF Passes, LeaveTraining, HasFields
<1>7. CASE text.word = "warning"
  <2>1. HandleText(f, record) = Emit(f, Line(record))
    BY <1>7 DEF HandleText
  <2> QED
    BY <2>1, <1>3, <1>4, <1>7 DEF Line
<1>8. CASE text.word = "training"
  <2>1. HandleText(f, record) = Emit(started, Line(record))
    BY <1>8 DEF HandleText, started
  <2> QED
    BY <2>1, <1>1, <1>3, <1>4, <1>8 DEF Line
<1>9. CASE text.word \in {"table", "completed"}
  <2>1. HandleText(f, record) \in {LeaveTraining(f, TRUE), LeaveTraining(f, FALSE)}
    BY <1>9 DEF HandleText
  <2> QED
    BY <2>1, <1>6
<1>10. CASE text.word = "bar"
  <2>1. HandleText(f, record) \in {f, HandleBar(f, text)}
    BY <1>10 DEF HandleText
  <2>2. HandleBar(f, text) \in {[f EXCEPT !.steps = text.at], seen, [shown EXCEPT !.lastStep = text.at[1]]}
    BY DEF HandleBar, seen
  <2>3. Passes(f, shown)
    BY <1>2, <1>3, <1>4, <1>10 DEF Line
  <2> HIDE DEF shown
  <2>4. Passes(f, [shown EXCEPT !.lastStep = text.at[1]])
    <3>1. HasFields(shown)
      BY <2>3 DEF Passes, HasFields
    <3> DEFINE later == [shown EXCEPT !.lastStep = text.at[1]]
    <3>2. /\ DOMAIN later = DOMAIN shown /\ later.verbosity = shown.verbosity
          /\ later.traceback = shown.traceback /\ later.out = shown.out
      BY <3>1 DEF HasFields
    <3> HIDE DEF later
    <3>3. Passes(f, later)
      BY <3>2, <2>3 DEF Passes
    <3> QED
      BY <3>3 DEF later
  <2> QED
    BY <2>1, <2>2, <2>4, <1>5
<1>11. CASE text.word = "loss"
  <2>1. HandleText(f, record) \in {f, Emit(f, Shown(Whole(text), f.steps))}
    BY <1>11 DEF HandleText
  <2> QED
    BY <2>1, <1>3, <1>4, <1>5, <1>11
<1>12. CASE text.word = "detail"
  <2>1. HandleText(f, record) \in {f, Emit(f, Line(record))}
    BY <1>12 DEF HandleText
  <2> QED
    BY <2>1, <1>3, <1>4, <1>5, <1>12 DEF Line
<1>13. CASE text.word \notin {"warning", "training", "table", "completed", "bar", "loss", "detail"}
  <2>1. HandleText(f, record) = f
    BY <1>13 DEF HandleText
  <2> QED
    BY <2>1, <1>5
<1> QED
  BY <1>7, <1>8, <1>9, <1>10, <1>11, <1>12, <1>13

\* The filter after n tokens of the output.
Before(o, n) == {s \in CodeUrgentStops(o) : s <= n}
ShowsUrgent(f, o, n) ==
  HasFields(f) /\ IsSequence(f.out) /\ Lists(f.out, o, Before(o, n), f.verbosity = "quiet")
Reached(f, o, n) ==
  f.buffer = LineAt(o, n + 1) /\ f.traceback = IsOpen(o, n) /\ ShowsUrgent(f, o, n)

LEMMA UrgentBefore ==
  ASSUME NEW o, Len(o) \in Nat, DOMAIN o = 1 .. Len(o), NEW s \in Int
  PROVE  /\ s \in CodeUrgentStops(o) => Before(o, s) = Before(o, s - 1) \cup {s}
         /\ s \notin CodeUrgentStops(o) => Before(o, s) = Before(o, s - 1)
         /\ \A t \in Before(o, s - 1) : t \in Int /\ t < s
<1>1. \A t \in CodeUrgentStops(o) : t \in Int
  BY DEF CodeUrgentStops, Stops, Cuts
<1>2. \A t \in CodeUrgentStops(o) : (t <= s <=> t <= s - 1 \/ t = s) /\ (t <= s - 1 => t < s) /\ s <= s
  BY <1>1
<1> QED
  BY <1>1, <1>2 DEF Before

LEMMA UrgentLine ==
  ASSUME NEW o, Len(o) \in Nat, DOMAIN o = 1 .. Len(o), NEW s \in Stops(o), NEW f,
         Reached(f, o, s - 1), LineAt(o, s) # <<>>, s \in CodeUrgentStops(o)
  PROVE  /\ ShowsUrgent(HandleLine(f, LineAt(o, s)), o, s)
         /\ s \in Cuts(o) => HandleLine(f, LineAt(o, s)).traceback = IsOpen(o, s)
<1> DEFINE text == TextAt(o, s)
           inside == f.traceback \/ text.word = "header"
           noted == [f EXCEPT !.traceback = inside /\ text.word # "raised"]
           g == Emit(noted, Line(LineAt(o, s)))
<1>1. s \in Int
  BY DEF Stops, Cuts
<1>2. inside = CodeInTraceback(o, s)
  BY TracebackGoesOn DEF Reached, Opens
<1>3. HandleLine(f, LineAt(o, s)) = g
  <2>1. inside \/ text.word = "error"
    BY <1>2 DEF CodeUrgentStops
  <2> QED
    BY <2>1 DEF HandleLine, TextAt
<1>4. /\ DOMAIN g = DOMAIN f /\ g.verbosity = f.verbosity
      /\ g.traceback = (inside /\ text.word # "raised") /\ g.out = Append(f.out, Line(LineAt(o, s)))
  BY DEF Emit, Reached, ShowsUrgent, HasFields
<1> HIDE DEF g, noted, inside
<1>5. Lists(Append(f.out, Line(LineAt(o, s))), o, Before(o, s - 1) \cup {s}, f.verbosity = "quiet")
  BY <1>1, UrgentBefore, ListsUrgent DEF Reached, ShowsUrgent
<1>6. ShowsUrgent(g, o, s)
  <2>1. HasFields(g) /\ IsSequence(g.out)
    BY <1>4, AppendOne DEF Reached, ShowsUrgent, HasFields
  <2> QED
    BY <2>1, <1>1, <1>4, <1>5, UrgentBefore DEF ShowsUrgent
<1>7. s \in Cuts(o) => g.traceback = IsOpen(o, s)
  BY <1>2, <1>4, TracebackGoesOn DEF CodeShuts
<1> QED
  BY <1>3, <1>6, <1>7

LEMMA OtherLine ==
  ASSUME NEW o, Len(o) \in Nat, DOMAIN o = 1 .. Len(o), NEW s \in Stops(o), NEW f,
         Reached(f, o, s - 1), LineAt(o, s) # <<>>, s \notin CodeUrgentStops(o)
  PROVE  /\ ShowsUrgent(HandleLine(f, LineAt(o, s)), o, s)
         /\ s \in Cuts(o) => HandleLine(f, LineAt(o, s)).traceback = IsOpen(o, s)
<1> DEFINE text == TextAt(o, s)
           g == HandleLine(f, LineAt(o, s))
<1>1. s \in Int
  BY DEF Stops, Cuts
<1>2. ~CodeInTraceback(o, s) /\ text.word # "error"
  BY DEF CodeUrgentStops
<1>3. f.traceback = FALSE /\ text.word # "header" /\ (s \in Cuts(o) => IsOpen(o, s) = FALSE)
  <2>1. ~IsOpen(o, s - 1) /\ ~Opens(o, s) /\ (s \in Cuts(o) => ~IsOpen(o, s))
    BY <1>2, TracebackGoesOn
  <2>2. \A n : IsOpen(o, n) \in BOOLEAN
    BY DEF IsOpen
  <2> QED
    BY <2>1, <2>2 DEF Reached, Opens
<1>4. HasFields(f) /\ IsSequence(f.out) /\ Lists(f.out, o, Before(o, s), f.verbosity = "quiet")
      /\ f.traceback = IsOpen(o, s - 1)
  BY <1>1, UrgentBefore DEF Reached, ShowsUrgent
<1>5. g = IF f.verbosity = "quiet" THEN f ELSE HandleText(f, LineAt(o, s))
  BY <1>2, <1>3 DEF HandleLine, TextAt
<1>6. CASE f.verbosity = "quiet"
  <2>1. g = f
    BY <1>5, <1>6
  <2> HIDE DEF g
  <2>2. ShowsUrgent(g, o, s) /\ (s \in Cuts(o) => g.traceback = IsOpen(o, s))
    BY <1>3, <1>4, <2>1 DEF ShowsUrgent
  <2> QED
    BY <2>2 DEF g
<1>7. CASE f.verbosity # "quiet"
  <2>1. g = HandleText(f, LineAt(o, s))
    BY <1>5, <1>7
  <2>2. TextOf(LineAt(o, s)).word \notin {"header", "error"}
    BY <1>2, <1>3 DEF TextAt
  <2> HIDE DEF g, text
  <2>3. Passes(f, g)
    BY <2>1, <2>2, <1>4, HandleTextPasses
  <2>4. HasFields(g) /\ g.verbosity = f.verbosity /\ g.traceback = f.traceback
    BY <2>3, <1>4 DEF Passes, HasFields
  <2>5. IsSequence(g.out) /\ Lists(g.out, o, Before(o, s), FALSE)
    <3>1. Lists(f.out, o, Before(o, s), FALSE)
      BY <1>4, <1>7
    <3>2. CASE g.out = f.out
      BY <3>1, <3>2, <1>4
    <3>3. CASE \E item : ~OutsideTraining(item) /\ g.out = Append(f.out, item)
      <4>1. PICK item : ~OutsideTraining(item) /\ g.out = Append(f.out, item)
        BY <3>3
      <4>2. IsSequence(Append(f.out, item))
        BY <1>4, AppendOne
      <4>3. Lists(Append(f.out, item), o, Before(o, s), FALSE)
        BY <3>1, <4>1, <1>4, ListsOther, Zenon
      <4> QED
        BY <4>1, <4>2, <4>3
    <3> QED
      BY <2>3, <3>2, <3>3 DEF Passes
  <2>6. ShowsUrgent(g, o, s)
    BY <2>4, <2>5, <1>7 DEF ShowsUrgent
  <2>7. s \in Cuts(o) => g.traceback = IsOpen(o, s)
    BY <2>4, <1>3
  <2> QED
    BY <2>6, <2>7 DEF g, text
<1> QED
  BY <1>6, <1>7

LEMMA LineIsHandled ==
  ASSUME NEW o, Len(o) \in Nat, DOMAIN o = 1 .. Len(o), NEW s \in Stops(o), NEW f,
         Reached(f, o, s - 1), NEW end, s \in Cuts(o) => end = o[s]
  PROVE  /\ ShowsUrgent(HandleRecord(f, f.buffer, end), o, s)
         /\ s \in Cuts(o) => HandleRecord(f, f.buffer, end).traceback = IsOpen(o, s)
<1>1. s \in Int /\ (s - 1) + 1 = s
  BY DEF Stops, Cuts
<1>2. f.buffer = LineAt(o, s)
  BY <1>1 DEF Reached
<1>3. CASE LineAt(o, s) # <<>>
  <2>1. HandleRecord(f, f.buffer, end) = HandleLine(f, LineAt(o, s))
    BY <1>2, <1>3 DEF HandleRecord
  <2> QED
    BY <2>1, <1>3, UrgentLine, OtherLine
<1>4. CASE LineAt(o, s) = <<>>
  <2> DEFINE g == HandleRecord(f, f.buffer, end)
  <2>1. g = IF end = NL THEN [f EXCEPT !.traceback = FALSE] ELSE f
    BY <1>2, <1>4 DEF HandleRecord
  <2>2. HasFields(f) /\ f.traceback = IsOpen(o, s - 1)
    BY DEF Reached, ShowsUrgent
  <2>3. /\ DOMAIN g = DOMAIN f /\ g.verbosity = f.verbosity /\ g.out = f.out
        /\ g.traceback = (IF end = NL THEN FALSE ELSE f.traceback)
    BY <2>1, <2>2 DEF HasFields
  <2> HIDE DEF g
  <2>4. s \notin CodeUrgentStops(o)
    BY <1>4 DEF CodeUrgentStops
  <2>5. ShowsUrgent(g, o, s)
    BY <2>3, <2>4, <1>1, UrgentBefore DEF Reached, ShowsUrgent, HasFields
  <2>6. s \in Cuts(o) => g.traceback = IsOpen(o, s)
    <3>1. ~Opens(o, s) /\ (s \in Cuts(o) => (CodeShuts(o, s) <=> end = NL))
      BY <1>4 DEF Opens, CodeShuts
    <3>2. CodeInTraceback(o, s) = IsOpen(o, s - 1)
      BY <3>1, TracebackGoesOn DEF CodeInTraceback, IsOpen
    <3>3. s \in Cuts(o) => IsOpen(o, s) = (IsOpen(o, s - 1) /\ end # NL)
      BY <3>1, <3>2, TracebackGoesOn
    <3>4. IsOpen(o, s - 1) \in BOOLEAN /\ IsOpen(o, s) \in BOOLEAN
      BY DEF IsOpen
    <3>5. CASE end = NL
      BY <3>3, <3>4, <3>5, <2>3
    <3>6. CASE end # NL
      BY <3>3, <3>4, <3>6, <2>2, <2>3
    <3> QED
      BY <3>5, <3>6
  <2> QED
    BY <2>5, <2>6 DEF g
<1> QED
  BY <1>3, <1>4

\* One token more.
LEMMA TokenIsFed ==
  ASSUME NEW o, IsSequence(o), NEW n \in 1 .. Len(o), NEW f, Reached(f, o, n - 1)
  PROVE  Reached(FeedToken(f, o[n]), o, n)
<1> DEFINE T == {o[i] : i \in DOMAIN o}
<1>1. o \in Seq(T)
  BY DEF IsSequence
<1> HIDE DEF T
<1>2. Len(o) \in Nat /\ DOMAIN o = 1 .. Len(o) /\ n \in Nat /\ (n - 1) + 1 = n
  BY <1>1
<1>3. HasFields(f) /\ f.buffer = LineAt(o, n)
  BY <1>2 DEF Reached, ShowsUrgent
<1>4. CASE o[n] \in Ends
  <2> DEFINE handled == HandleRecord(f, f.buffer, o[n])
             g == [handled EXCEPT !.buffer = <<>>]
  <2>1. n \in Cuts(o) /\ n \in Stops(o)
    BY <1>2, <1>4 DEF Cuts, Stops
  <2>2. ShowsUrgent(handled, o, n) /\ handled.traceback = IsOpen(o, n)
    BY <1>2, <2>1, LineIsHandled
  <2> HIDE DEF handled
  <2>3. /\ DOMAIN g = DOMAIN handled /\ g.verbosity = handled.verbosity /\ g.out = handled.out
        /\ g.traceback = handled.traceback /\ g.buffer = <<>>
    BY <2>2 DEF ShowsUrgent, HasFields
  <2>4. FeedToken(f, o[n]) = g
    BY <1>4 DEF FeedToken, handled
  <2> HIDE DEF g
  <2>5. LineAt(o, n + 1) = <<>>
    BY <1>1, <1>4, NextLineAt
  <2>6. Reached(g, o, n)
    BY <2>2, <2>3, <2>5 DEF Reached, ShowsUrgent, HasFields
  <2> QED
    BY <2>4, <2>6
<1>5. CASE o[n] \notin Ends
  <2> DEFINE g == [f EXCEPT !.buffer = Append(f.buffer, o[n])]
  <2>1. FeedToken(f, o[n]) = g
    BY <1>5 DEF FeedToken
  <2>2. /\ DOMAIN g = DOMAIN f /\ g.verbosity = f.verbosity /\ g.out = f.out
        /\ g.traceback = f.traceback /\ g.buffer = Append(f.buffer, o[n])
    BY <1>3 DEF HasFields
  <2> HIDE DEF g
  <2>3. LineAt(o, n + 1) = g.buffer
    BY <1>1, <1>3, <1>5, <2>2, NextLineAt
  <2>4. n \notin Cuts(o) /\ n \notin CodeUrgentStops(o)
    BY <1>2, <1>5 DEF Cuts, Stops, CodeUrgentStops
  <2>5. g.traceback = IsOpen(o, n)
    BY <1>2, <2>2, <2>4, NothingOpens DEF Reached, IsOpen
  <2>6. ShowsUrgent(g, o, n)
    BY <1>2, <2>2, <2>4, UrgentBefore DEF Reached, ShowsUrgent, HasFields
  <2>7. Reached(g, o, n)
    BY <2>3, <2>5, <2>6 DEF Reached
  <2> QED
    BY <2>1, <2>7
<1> QED
  BY <1>4, <1>5

LEMMA FirstToken ==
  ASSUME NEW v, NEW o, IsSequence(o)
  PROVE  Reached(Formatter(v), o, 0)
<1> DEFINE f == Formatter(v)
<1>1. HasFields(f) /\ f.buffer = <<>> /\ f.traceback = FALSE /\ f.out = <<>>
  BY DEF Formatter, HasFields
<1> HIDE DEF f
<1>2. LineAt(o, 0 + 1) = <<>>
  <2>1. 1 \in 1 .. 1 /\ Starts(o, 1, 1)
    BY DEF Starts
  <2>2. LineAt(o, 1) = SubSeq(o, 1, 1 - 1)
    BY <2>1, LineFrom
  <2> QED
    BY <2>2
<1>3. \A s \in Stops(o) : s \in Int /\ s >= 1
  BY DEF Stops, Cuts, IsSequence
<1>4. IsOpen(o, 0) = FALSE
  BY <1>3 DEF IsOpen, Stops
<1>5. Before(o, 0) = {}
  BY <1>3 DEF Before, CodeUrgentStops
<1>6. IsSequence(<<>>)
  BY DEF IsSequence
<1>7. Reached(f, o, 0)
  BY <1>1, <1>2, <1>4, <1>5, <1>6, ListsNothing DEF Reached, ShowsUrgent
<1> QED
  BY <1>7 DEF f

\* The whole output has been fed, and the filter closed.
LEMMA UrgentIsListed ==
  ASSUME NEW v, v # "full", NEW o, IsSequence(o)
  PROVE  Lists(Close(Fed(v, o)).out, o, CodeUrgentStops(o), v = "quiet")
<1> DEFINE n == Len(o)
           f == Formatter(v)
           fed == Fed(v, o)
<1>1. n \in Nat /\ n = Len(o) /\ DOMAIN o = 1 .. n /\ n \in 0 .. n
  BY DEF IsSequence
<1> HIDE DEF n
<1>2. fed = FeedAll(f, o)
  BY DEF Fed, Feed, Formatter
<1>3. PICK state : state[0] = f /\ FeedAll(f, o) = state[n] /\ Steps(state, o, n)
  BY <1>1, FeedAllFeeds, Zenon
<1>4. Reached(fed, o, n)
  <2> DEFINE S == {i \in 0 .. n : Reached(state[i], o, i)}
  <2>1. 0 \in S
    BY <1>1, <1>3, FirstToken
  <2>2. \A i \in 1 .. n : i - 1 \in S => i \in S
    BY <1>1, <1>3, TokenIsFed DEF Steps
  <2>3. \A i \in S : Reached(state[i], o, i)
    OBVIOUS
  <2> HIDE DEF S
  <2> QED
    BY <1>1, <1>2, <1>3, <2>1, <2>2, <2>3, InductionUpTo
<1>5. fed.verbosity = v
  BY <1>1, FedType
<1> HIDE DEF fed
<1> DEFINE handled == HandleRecord(fed, fed.buffer, CR)
           closed == [handled EXCEPT !.buffer = <<>>, !.training = FALSE]
<1>6. Close(fed) = closed
  BY <1>5 DEF Close
<1>7. n + 1 \in Stops(o) /\ n + 1 \notin Cuts(o) /\ (n + 1) - 1 = n
  BY <1>1 DEF Stops, Cuts
<1>8. ShowsUrgent(handled, o, n + 1)
  BY <1>1, <1>4, <1>7, LineIsHandled
<1>9. handled.verbosity = v
  <2>1. "verbosity" \in DOMAIN fed
    BY <1>4 DEF Reached, ShowsUrgent, HasFields
  <2> QED
    BY <2>1, <1>5, HandleRecordKeeps DEF Keeps
<1> HIDE DEF handled
<1>10. closed.out = handled.out
  BY <1>8 DEF ShowsUrgent, HasFields
<1>11. Before(o, n + 1) = CodeUrgentStops(o)
  BY <1>1 DEF Before, CodeUrgentStops, Stops, Cuts
<1> QED
  BY <1>6, <1>8, <1>9, <1>10, <1>11 DEF ShowsUrgent, fed

LEMMA EverythingIsShown ==
  ASSUME NEW o, IsSequence(o)
  PROVE  Close(Fed("full", o)).out = o
<1> DEFINE f == Formatter("full")
           g == [f EXCEPT !.out = f.out \o o]
<1>1. f.verbosity = "full" /\ f.out = <<>> /\ "out" \in DOMAIN f
  BY DEF Formatter
<1>2. Fed("full", o) = g
  BY <1>1 DEF Fed, Feed
<1> HIDE DEF f
<1>3. <<>> \o o = o
  BY DEF IsSequence
<1>4. g.out = o /\ g.verbosity = "full"
  BY <1>1, <1>3
<1> HIDE DEF g
<1> QED
  BY <1>2, <1>4 DEF Close

LEMMA WholeUrgent == ConsoleInv => UrgentIsShown
<1> SUFFICES ASSUME ConsoleInv, stage \in {"trained", "exited"}
             PROVE  IF formatter.verbosity = "full" THEN formatter.out = log
                    ELSE \E stops \in SUBSET UrgentStops(log) :
                           /\ \A s \in Stops(log) : Opens(log, s) \/ IsError(log, s) => s \in stops
                           /\ HasCRNL(log) \/ stops = UrgentStops(log)
                           /\ Lists(formatter.out, log, stops, formatter.verbosity = "quiet")
  BY DEF UrgentIsShown
<1>1. PICK v \in Verbosity : formatter = Close(Fed(v, log))
  BY DEF ConsoleInv
<1>2. IsSequence(log) /\ Len(log) \in Nat /\ DOMAIN log = 1 .. Len(log)
  BY DEF ConsoleInv, IsSequence
<1>3. formatter.verbosity = v
  BY <1>1, <1>2, FedType
<1>4. CASE v = "full"
  BY <1>1, <1>2, <1>3, <1>4, EverythingIsShown
<1>5. CASE v # "full"
  <2>1. Lists(formatter.out, log, CodeUrgentStops(log), v = "quiet")
    BY <1>1, <1>2, <1>5, UrgentIsListed
  <2>2. /\ CodeUrgentStops(log) \subseteq UrgentStops(log)
        /\ \A s \in Stops(log) : Opens(log, s) \/ IsError(log, s) => s \in CodeUrgentStops(log)
        /\ HasCRNL(log) \/ CodeUrgentStops(log) = UrgentStops(log)
    BY <1>2, CodeAgrees
  <2> QED
    BY <2>1, <2>2, <1>3, <1>5
<1> QED
  BY <1>4, <1>5

\* Whatever the trainer prints and however it is cut, and whatever the verbosity,
\* every error of the log and every first line of a traceback is on the console, in
\* order, and without CR NL in the log every line of a traceback too; the log is
\* what was printed but for the masks (ConsoleOutputFormatter, run_training).
THEOREM NothingUrgentIsLost == Spec => []OutputIsWhole
<1>1. ConsoleInv => OutputIsWhole
  BY WholeConsole, WholeUrgent DEF ConsoleInv, OutputIsWhole
<1> QED
  BY <1>1, ConsoleInvariance, PTL

=============================================================================
