------------------------------ MODULE MCAdmission ------------------------------
EXTENDS Admission

Memory == [g \in 0..1 |-> IF g = 0 THEN 16 ELSE 24]
Levels == [g \in 0..1 |-> IF g = 0 THEN {9, 12} ELSE {5, 10, 12}]
Devices == [l \in {"a", "b"} |-> IF l = "a" THEN <<>> ELSE <<0, 1>>]
Range == [first |-> 1, last |-> 2]

\* 5 MiB for serving and 6 for training, 8 and 12 for the larger model.
Small == [parameters |-> 1000000, element |-> 2, batch |-> 2, cutoff |-> 128, activation |-> 4096,
          margin |-> 25, layers |-> 2, heads |-> 2, dim |-> 16, length |-> 128, sequences |-> 4,
          context |-> 128, overhead |-> 2, adapter |-> 2, reserve |-> 15, least |-> 1000,
          most |-> 9000, lora |-> TRUE, checkpointing |-> TRUE]
Jobs == {Small,
         [Small EXCEPT !.parameters = 2200000, !.checkpointing = FALSE],
         [Small EXCEPT !.most = 3000],       \* fits the larger GPU only
         [Small EXCEPT !.least = 5000],
         [Small EXCEPT !.context = 127]}     \* is refused

=============================================================================
