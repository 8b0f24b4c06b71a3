------------------------------- MODULE Admission -------------------------------
(***************************************************************************)
(* The unified resource preflight of run_pipeline.sh, for several launches *)
(* on one host: estimate (resource_preflight.py), choice of a GPU and of   *)
(* vLLM's share of it (gpu_preflight.sh), the file by which the shell gets *)
(* the result back, choice of a port, and the controller's second look     *)
(* before training.  GPU memory and ports are used by others all the time. *)
(***************************************************************************)
EXTENDS Integers, Sequences, Decimal

CONSTANTS
  Launch,      \* launches of run_pipeline.sh
  Gpu,         \* number of GPUs, 0 .. Gpu - 1 in the order of nvidia-smi
  Total,       \* Total[g]: memory of GPU g, MiB
  Level,       \* free memory that GPU g may report: Level[g]
  Job,         \* configurations: see ASSUME
  Device,      \* Device[l]: GPU_DEVICE as digits, <<>> for auto
  Shared,      \* a GPU_PREFLIGHT_ENV_FILE that several launches are given
  Port         \* serving.port_range: first, last

CeilDiv(n, d) == (n + d - 1) \div d
MiB == 1048576
Limit == 1000000000   \* what gpu_preflight.sh computes with
Whole == 10000        \* a GPU, in basis points

GpuId == 0 .. Gpu - 1
Ports == Port.first .. Port.last
Larger(m, n) == IF m < n THEN n ELSE m

JobField == {"parameters", "element", "batch", "cutoff", "activation", "margin", "layers", "heads",
             "dim", "length", "sequences", "context", "overhead", "adapter", "reserve", "least", "most"}

ASSUME AdmissionAssumption ==
  /\ Gpu \in Nat
  /\ Total \in [GpuId -> 1 .. Limit]
  /\ Level \in [GpuId -> SUBSET Nat]
  /\ \A j \in Job :
       /\ \A f \in JobField : j[f] \in Nat
       /\ j.lora \in BOOLEAN /\ j.checkpointing \in BOOLEAN
       /\ j.overhead > 0 /\ 1 <= j.least /\ j.least <= j.most /\ j.most <= Whole
  /\ \A l \in Launch : Device[l] \in Seq(0..9)
  /\ Shared \notin Launch
  /\ {Port.first, Port.last} \subseteq Nat /\ Port.first <= Port.last

VARIABLES
  free,        \* free[g]: free memory of GPU g, MiB
  listening,   \* ports that somebody is bound to
  job,         \* job[l]: the configuration of a launch
  path,        \* path[l]: the file for its result
  pc,
  chosen,      \* GPU and share that the launch's own scan decided on
  file,        \* the contents of each GPU_PREFLIGHT_ENV_FILE
  told,        \* what the controller is told
  port         \* the port selected

host == <<free, listening>>
vars == <<host, job, path, pc, chosen, file, told, port>>

Nothing == [gpu |-> -1, share |-> 0]

Init ==
  /\ free \in [GpuId -> UNION {Level[g] : g \in GpuId}]
  /\ \A g \in GpuId : free[g] \in Level[g]
  /\ listening \in SUBSET Ports
  /\ job \in [Launch -> Job]
  /\ \/ path = [l \in Launch |-> l]         \* in its own temporary directory
     \/ path = [l \in Launch |-> Shared]    \* where the operator's environment says
  /\ pc = [l \in Launch |-> "estimate"]
  /\ chosen = [l \in Launch |-> Nothing]
  /\ file = [p \in Launch \cup {Shared} |-> Nothing]
  /\ told = [l \in Launch |-> Nothing]
  /\ port = [l \in Launch |-> 0]

-----------------------------------------------------------------------------
(* The host, as long as somebody looks: nothing is reserved for anybody.    *)

OthersUseMemory(g) ==
  /\ \E l \in Launch : pc[l] \in {"estimate", "scan"}
  /\ \E n \in Level[g] : free' = [free EXCEPT ![g] = n]
  /\ UNCHANGED <<listening, job, path, pc, chosen, file, told, port>>

OthersBind(p) ==
  /\ \E l \in Launch : pc[l] \in {"source", "port", "recheck"}
  /\ \/ listening' = listening \cup {p}
     \/ listening' = listening \ {p}
  /\ UNCHANGED <<free, job, path, pc, chosen, file, told, port>>

Goto(l, label) == pc' = [pc EXCEPT ![l] = label]

-----------------------------------------------------------------------------
(* The estimate                                                             *)

WithMargin(bytes, percent) == CeilDiv(bytes * (100 + percent), 100)

TrainingBytes(j) ==
  LET activation == j.batch * j.cutoff * j.activation
  IN  j.parameters * (IF j.lora THEN j.element + 2 ELSE j.element * 2 + 12)
        + (IF j.checkpointing THEN CeilDiv(activation, 2) ELSE activation)

ServingBytes(j) ==
  LET weights == j.parameters * j.element
  IN  weights + CeilDiv(weights * j.adapter, 100)
        + 2 * j.layers * j.heads * j.dim * j.length * j.sequences * j.element
        + j.overhead * MiB

\* Mutant: bytes are divided without rounding up.
RoundedDown(bytes, percent) == (bytes * (100 + percent)) \div (100 * MiB)
Required(bytes, percent) == CeilDiv(WithMargin(bytes, percent), MiB)

\* Automatic serving refuses full fine-tuning, and more context than the model has;
\* gpu_preflight.sh refuses numbers it could not compute with.
Estimable(j) ==
  /\ j.lora /\ j.length <= j.context
  /\ Required(TrainingBytes(j), j.margin) <= Limit
  /\ Required(ServingBytes(j), j.reserve) <= Limit

\* What estimate.env says, in MiB.
Training(l) == Required(TrainingBytes(job[l]), job[l].margin)
Serving(l) == Required(ServingBytes(job[l]), job[l].reserve)
Need(l) == Larger(Training(l), Serving(l))

Estimate(l) ==
  /\ pc[l] = "estimate"
  /\ \/ Estimable(job[l]) /\ Goto(l, "scan")
     \/ ~Estimable(job[l]) /\ Goto(l, "invalid")
  /\ UNCHANGED <<host, job, path, chosen, file, told, port>>

-----------------------------------------------------------------------------
(* gpu_preflight.sh                                                         *)

None == [gpu |-> -1, free |-> 0, total |-> 1]

\* One round of the loop over the records.  Memory and indices are compared as
\* strings of digits.
\* Mutant: the last of the GPUs that qualify is taken.
ConsiderLast(device, need, selected, r) ==
  IF IF device = <<>> THEN ~Less(Digits(r.free), Digits(need)) ELSE Digits(r.gpu) = Normalize(device)
  THEN r ELSE selected
Consider(device, need, selected, r) ==
  IF IF device = <<>>
     THEN /\ ~Less(Digits(r.free), Digits(need))
          /\ selected = None \/ Less(Digits(selected.free), Digits(r.free))
     ELSE Digits(r.gpu) = Normalize(device)
  THEN r ELSE selected

\* The values that "selected" takes in the loop.
Loop(device, need, records) ==
  {selected \in [0 .. Gpu -> {None} \cup {records[i] : i \in 1 .. Gpu}] :
     /\ selected[0] = None
     /\ \A i \in 1 .. Gpu : selected[i] = Consider(device, need, selected[i - 1], records[i])}

Share(serving, total, least) == Larger(CeilDiv(serving * Whole, total), least)

\* One answer of nvidia-smi, a record for each GPU.
Records == [i \in 1 .. Gpu |-> [gpu |-> i - 1, free |-> free[i - 1], total |-> Total[i - 1]]]

Scan(l) ==
  /\ pc[l] = "scan"
  /\ \E selected \in Loop(Device[l], Need(l), Records) :
       LET s == selected[Gpu]
           share == Share(Serving(l), s.total, job[l].least)
       IN  \/ /\ s # None /\ ~Less(Digits(s.free), Digits(Need(l))) /\ share <= job[l].most
              /\ chosen' = [chosen EXCEPT ![l] = [gpu |-> s.gpu, share |-> share]]
              /\ Goto(l, "publish")
           \/ /\ s = None \/ Less(Digits(s.free), Digits(Need(l))) \/ job[l].most < share
              /\ Goto(l, "no_gpu")
              /\ UNCHANGED chosen
  /\ UNCHANGED <<host, job, path, file, told, port>>

\* A private temporary file, renamed over the named one.
\* Mutant: a file that is there is kept, and the GPU's line in it replaced.
PublishInPlace(l) ==
  /\ pc[l] = "publish"
  /\ file' = [file EXCEPT ![path[l]] =
       [gpu |-> chosen[l].gpu, share |-> IF @ = Nothing THEN chosen[l].share ELSE @.share]]
  /\ Goto(l, "source")
  /\ UNCHANGED <<host, job, path, chosen, told, port>>
Publish(l) ==
  /\ pc[l] = "publish"
  /\ file' = [file EXCEPT ![path[l]] = chosen[l]]
  /\ Goto(l, "source")
  /\ UNCHANGED <<host, job, path, chosen, told, port>>

-----------------------------------------------------------------------------
(* run_pipeline.sh and the controller                                       *)

Source(l) ==
  /\ pc[l] = "source"
  /\ told' = [told EXCEPT ![l] = file[path[l]]]
  /\ Goto(l, "port")
  /\ UNCHANGED <<host, job, path, chosen, file, port>>

\* The first port of the range that can be bound.
\* Mutant: the range's end is one too far.
SelectPortBeyond(l) ==
  /\ pc[l] = "port"
  /\ \E p \in (Port.first .. Port.last + 1) \ listening :
       /\ \A q \in Ports \ listening : p <= q
       /\ port' = [port EXCEPT ![l] = p]
       /\ Goto(l, "recheck")
  /\ UNCHANGED <<host, job, path, chosen, file, told>>
SelectPort(l) ==
  /\ pc[l] = "port"
  /\ \/ \E p \in Ports \ listening :
          /\ \A q \in Ports \ listening : p <= q
          /\ port' = [port EXCEPT ![l] = p]
          /\ Goto(l, "recheck")
     \/ Ports \subseteq listening /\ Goto(l, "no_port") /\ UNCHANGED port
  /\ UNCHANGED <<host, job, path, chosen, file, told>>

\* The controller takes GPU, share and port from its environment, looks at the
\* port again, and uses the GPU for the trainer and for vLLM.
Recheck(l) ==
  /\ pc[l] = "recheck"
  /\ \/ port[l] \notin listening /\ Goto(l, "training")
     \/ port[l] \in listening /\ Goto(l, "no_port")
  /\ UNCHANGED <<host, job, path, chosen, file, told, port>>

\* Docker, nvidia-smi or a write fails: set -e ends the launch.
Fail(l) ==
  /\ pc[l] \in {"estimate", "scan", "publish", "source", "port", "recheck"}
  /\ Goto(l, "failed")
  /\ UNCHANGED <<host, job, path, chosen, file, told, port>>

Preflight(l) ==
  \/ Estimate(l) \/ Scan(l) \/ Publish(l) \/ Source(l)
  \/ SelectPort(l) \/ Recheck(l) \/ Fail(l)

Next ==
  \/ \E l \in Launch : Preflight(l)
  \/ \E g \in GpuId : OthersUseMemory(g)
  \/ \E p \in Ports : OthersBind(p)

Spec == Init /\ [][Next]_vars

-----------------------------------------------------------------------------
(* Properties                                                               *)

Label == {"estimate", "scan", "publish", "source", "port", "recheck",
          "training", "invalid", "no_gpu", "no_port", "failed"}
Choice == [gpu : GpuId \cup {-1}, share : 0 .. Whole]

\* The types of the variables.
TypeOK ==
  /\ free \in [GpuId -> Nat] /\ listening \subseteq Ports
  /\ job \in [Launch -> Job] /\ path \in [Launch -> Launch \cup {Shared}]
  /\ pc \in [Launch -> Label]
  /\ chosen \in [Launch -> Choice] /\ told \in [Launch -> Choice]
  /\ file \in [Launch \cup {Shared} -> Choice]
  /\ port \in [Launch -> Ports \cup {0}]

\* The loop over the GPUs, which compares digits, decides what arithmetic over
\* the whole table would: the GPU asked for, or the one with most free memory
\* and the first of equals; and it refuses only if that GPU is missing, has less
\* free than training or serving needs, or exceeds the maximal share.
Fits(l, g) == Need(l) <= free[g]
Freest(g) == \A h \in GpuId : free[h] <= free[g] /\ (free[h] = free[g] => g <= h)
Wanted(l) == {g \in GpuId : IF Device[l] = <<>> THEN Freest(g) ELSE g = Number(Device[l])}
WithinMost(l, g) == Serving(l) * Whole <= job[l].most * Total[g]

SelectionIsBest ==
  [][\A l \in Launch :
       /\ chosen'[l] # chosen[l] => chosen'[l].gpu \in Wanted(l) /\ Fits(l, chosen'[l].gpu)
       /\ pc[l] # "no_gpu" /\ pc'[l] = "no_gpu" =>
            ~\E g \in Wanted(l) : Fits(l, g) /\ WithinMost(l, g)]_vars

\* Through four roundings the share covers weights, adapter, KV cache and
\* overhead with their margin, stays below the maximum, and asks for no whole
\* MiB or basis point more than that: it exceeds what serving needs, and so what
\* was found free, only by the configured minimum.
ReservationCoversServing ==
  \A l \in Launch : chosen[l] # Nothing =>
    LET share == chosen[l].share
        total == Total[chosen[l].gpu]
        serving == Serving(l)
        exact == ServingBytes(job[l]) * (100 + job[l].reserve)
    IN  /\ 100 * MiB * serving >= exact /\ 100 * MiB * (serving - 1) < exact
        /\ share * total >= Whole * serving /\ share <= job[l].most
        /\ share = job[l].least \/ (share - 1) * total < Whole * serving

\* Whatever else is launched at the time, GPU and share reach the controller as
\* one decision, and unless another launch writes the same file, as this
\* launch's own.
AdmissionIsWhole ==
  \A l \in Launch : told[l] # Nothing =>
    \E k \in Launch : /\ path[k] = path[l] /\ told[l] = chosen[k]
                      /\ (\A m \in Launch : path[m] = path[l] => m = l) => k = l

=============================================================================
