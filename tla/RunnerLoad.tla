----------------------------- MODULE RunnerLoad -----------------------------
(***************************************************************************)
(* How a model comes to a device: which runner the daemon starts, where    *)
(* that process tries to load the model and what it falls back to, and     *)
(* the second runner the daemon starts on the CPU.                         *)
(*                                                                         *)
(* Any load may fail, any warm-up too, and the process may crash or hang   *)
(* until the load timeout at any step.                                     *)
(***************************************************************************)
EXTENDS Integers, FiniteSets

CONSTANTS
    Gpu,        \* the GPUs a request may name
    Cuda0,      \* the first CUDA device, which auto means to ONNX Runtime
    Metal,      \* the Apple GPU, through MLX or llama.cpp's own backend
    Backend,    \* the llama.cpp backend of each GPU
    Integrated, \* GPUs that share the system's memory
    Setup,      \* what a load may start from: model, OLLAYA_DEVICE, install and machine
    None        \* nothing announced yet

\* What the install has: the CUDA pack's providers, an ONNX Runtime of its own in the
\* pack, the GPU runner that loads it, the ROCm pack, MLX built in.
Part == {"providers", "library", "cuda-runner", "rocm", "mlx"}

\* gpus: in the machine.  old: the CUDA pack has no kernels for its GPUs.
SetupType == [format : {"onnx", "gguf"}, device : Gpu \cup {"auto", "cpu"},
              install : SUBSET Part, gpus : SUBSET Gpu, old : BOOLEAN]

ASSUME LoadAssumption ==
    /\ Backend \in [Gpu -> {"cuda", "rocm", "vulkan", "metal"}]
    /\ Cuda0 \in Gpu /\ Backend[Cuda0] = "cuda"
    /\ Metal \in Gpu /\ Backend[Metal] = "metal"
    /\ Integrated \subseteq Gpu
    /\ Gpu \cap {"auto", "cpu", None} = {} /\ None # "cpu"
    /\ Setup \subseteq SetupType

VARIABLES
    setup,      \* the model, OLLAYA_DEVICE, the install and the machine
    launch,     \* which launch the daemon is at
    exe,        \* the executable of the runner process
    device,     \* the --device of the runner process
    at,         \* where the process is in its load
    want,       \* the device it loads on
    mem,        \* the devices of the models in its memory
    tried,      \* the devices the load was tried on so far
    killed,     \* whether a process crashed or hung
    said        \* the device announced to the daemon

loadVars == <<setup, launch, exe, device, at, want, mem, tried, killed, said>>

-----------------------------------------------------------------------------
\* Where the daemon's runners start: the pack they are pointed at, and whether from the
\* GPU runner instead of the daemon's own executable.
runner_launch ==
    IF "providers" \in setup.install
    THEN IF "library" \in setup.install
         THEN IF "cuda-runner" \in setup.install
              THEN [pack |-> "cuda", dynamic |-> TRUE]
              ELSE [pack |-> "none", dynamic |-> FALSE]
         ELSE [pack |-> "cuda", dynamic |-> FALSE]
    ELSE [pack |-> IF "rocm" \in setup.install THEN "rocm" ELSE "none", dynamic |-> FALSE]

Onnx == setup.format = "onnx"

\* The launches of a load.  These two forget the CPU launch of an ONNX model, and the
\* second launch of a GGUF model.
plan_onnx_only ==
    IF setup.device = "cpu" /\ Onnx /\ runner_launch.dynamic THEN "cpu"
    ELSE IF setup.device = "auto" /\ Onnx /\ runner_launch.dynamic THEN "gpu then cpu"
    ELSE "configured"
plan_gpu_only ==
    IF setup.device = "auto" /\ (~Onnx \/ runner_launch.dynamic) THEN "gpu then cpu"
    ELSE "configured"

plan ==
    IF setup.device = "cpu" /\ Onnx /\ runner_launch.dynamic THEN "cpu"
    ELSE IF setup.device = "auto" /\ (~Onnx \/ runner_launch.dynamic) THEN "gpu then cpu"
    ELSE "configured"

\* The process is the GPU pack's runner, with an ONNX Runtime of its own.
Dynamic == exe = "configured" /\ runner_launch.dynamic

LoadTypeOK ==
    /\ setup \in Setup
    /\ launch \in {"none", "configured", "cpu", "serving", "failed"}
    /\ exe \in {"configured", "plain"}
    /\ device \in Gpu \cup {"auto", "cpu"}
    /\ at \in {"none", "started", "metal", "metal warm", "onnx", "cuda", "cuda warm",
               "load", "init", "ready"}
    /\ want \in Gpu \cup {"cpu"}
    /\ mem \subseteq Gpu \cup {"cpu"}
    /\ tried \subseteq Gpu \cup {"cpu"}
    /\ killed \in BOOLEAN
    /\ said \in Gpu \cup {"cpu", None}

LoadInit ==
    /\ setup \in Setup
    /\ launch = "none" /\ exe = "plain" /\ device = "cpu" /\ at = "none" /\ want = "cpu"
    /\ mem = {} /\ tried = {} /\ killed = FALSE /\ said = None

\* The daemon starts a runner process; the CPU launch of an ONNX model has the plain
\* executable, that of a GGUF model the configured one.
StartsConfigured ==
    launch' = "configured" /\ exe' = "configured" /\ device' = setup.device /\ at' = "started"
StartsOnCpu ==
    /\ launch' = "cpu" /\ exe' = IF Onnx THEN "plain" ELSE "configured"
    /\ device' = "cpu" /\ at' = "started"

Spawn ==
    /\ launch = "none"
    /\ IF plan = "cpu" THEN StartsOnCpu ELSE StartsConfigured
    /\ UNCHANGED <<setup, want, mem, tried, killed, said>>

\* The process has ended: its memory is free before the next one starts.
Ends == at' = "none" /\ mem' = {}

\* The daemon reads no announcement: it waits for the process's end, and starts the CPU
\* launch after a configured one, or gives up.
Retry ==
    /\ launch \in {"configured", "cpu"} /\ at = "none"
    /\ IF launch = "configured" /\ plan = "gpu then cpu"
       THEN StartsOnCpu
       ELSE launch' = "failed" /\ UNCHANGED <<exe, device, at>>
    /\ UNCHANGED <<setup, want, mem, tried, killed, said>>

\* A crash, or the load timeout, after which the daemon kills the process and waits.
Killed ==
    /\ launch \in {"configured", "cpu"} /\ at # "none"
    /\ Ends /\ killed' = TRUE
    /\ UNCHANGED <<setup, launch, exe, device, want, tried, said>>

\* The next load, or the end of the process with an error.
Goes(where, on) == at' = where /\ want' = on /\ UNCHANGED mem
GivesUp == Ends /\ UNCHANGED want

StartOnnx ==
    /\ at = "started" /\ Onnx
    /\ IF device \in Gpu /\ Backend[device] \in {"vulkan", "rocm"} THEN GivesUp
       ELSE IF device = Metal \/ ("mlx" \in setup.install /\ device = "auto")
       THEN Goes("metal", Metal)
       ELSE Goes("onnx", want)
    /\ UNCHANGED <<setup, launch, exe, device, tried, killed, said>>

\* The GPU runner's auto is its first GPU.
onnx_device == IF device = "auto" /\ Dynamic THEN Cuda0 ELSE device
providers_present == exe = "configured" /\ runner_launch.pack = "cuda"

ChooseOnnx ==
    /\ at = "onnx"
    /\ IF onnx_device = "cpu" THEN Goes("load", "cpu")
       ELSE IF providers_present
       THEN Goes("cuda", IF onnx_device = "auto" THEN Cuda0 ELSE onnx_device)
       ELSE IF onnx_device = "auto" THEN Goes("load", "cpu") ELSE GivesUp
    /\ UNCHANGED <<setup, launch, exe, device, tried, killed, said>>

\* The GPUs llama.cpp finds: the CUDA and ROCm backends come with their packs.
Found == {g \in setup.gpus :
            /\ Backend[g] = "cuda" => runner_launch.pack = "cuda"
            /\ Backend[g] = "rocm" => "rocm" \in setup.install}

\* The GPU auto may pick: CUDA before ROCm before the discrete rest, where the memory
\* that is free decides.
auto_gpu ==
    LET eligible == {g \in Found : Backend[g] = "cuda" \/ g \notin Integrated}
        of(b)    == {g \in eligible : Backend[g] = b}
    IN IF of("cuda") # {} THEN of("cuda") ELSE IF of("rocm") # {} THEN of("rocm") ELSE eligible

Unsupported(g) == setup.old /\ Backend[g] = "cuda" /\ runner_launch.pack = "cuda"

StartLlama ==
    /\ at = "started" /\ ~Onnx
    /\ \/ device = "cpu" /\ Goes("load", "cpu")
       \/ device = "auto" /\ auto_gpu = {} /\ Goes("load", "cpu")
       \/ \E g \in auto_gpu :
            device = "auto" /\ Goes("load", IF Unsupported(g) THEN "cpu" ELSE g)
       \/ /\ device \in Gpu
          /\ IF device \in Found /\ ~Unsupported(device) THEN Goes("load", device)
             ELSE GivesUp
    /\ UNCHANGED <<setup, launch, exe, device, tried, killed, said>>

\* The model is in memory, and next warmed up or initialized.
Loads(where) == mem' = mem \cup {want} /\ at' = where /\ UNCHANGED want

AfterLoad == IF at = "metal" THEN "metal warm"
             ELSE IF at = "cuda" THEN "cuda warm"
             ELSE IF Onnx THEN "ready" ELSE "init"

\* A GPU has to be there, and MLX built in.
LoadWorks ==
    /\ at \in {"metal", "cuda", "load"}
    /\ want = "cpu" \/ want \in setup.gpus
    /\ at = "metal" => "mlx" \in setup.install
    /\ Loads(AfterLoad) /\ tried' = tried \cup {want}
    /\ UNCHANGED <<setup, launch, exe, device, killed, said>>

\* Where auto goes on when its load or first request fails.
ToOnnx == at \in {"metal", "metal warm"} /\ device = "auto"
ToCpu == \/ at \in {"cuda", "cuda warm"} /\ onnx_device = "auto"
         \/ at \in {"load", "init"} /\ device = "auto" /\ want # "cpu"

FallsBack(memory) ==
    \/ ToOnnx /\ at' = "onnx" /\ want' = want /\ mem' = memory
    \/ ToCpu /\ at' = "load" /\ want' = "cpu" /\ mem' = memory
    \/ ~ToOnnx /\ ~ToCpu /\ GivesUp

\* A load that fails leaves nothing of its model in memory.
LoadFails ==
    /\ at \in {"metal", "cuda", "load"}
    /\ FallsBack(mem)
    /\ tried' = tried \cup {want}
    /\ UNCHANGED <<setup, launch, exe, device, killed, said>>

\* The first request works, or fails in a way that is kept: any way on an explicit Metal
\* device, an error that is not CUDA's on a CUDA one.
WarmUpKept ==
    /\ at \in {"metal warm", "cuda warm", "init"}
    /\ at' = "ready"
    /\ UNCHANGED <<setup, launch, exe, device, want, mem, tried, killed, said>>

\* The failed model is dropped before the next one is loaded.
DroppedLate == mem
Dropped == mem \ {want}

\* The first request fails, or the tokenizer or projector of a GGUF model.
WarmUpFails ==
    /\ at \in {"metal warm", "cuda warm", "init"}
    /\ at = "metal warm" => device = "auto"
    /\ FallsBack(Dropped)
    /\ UNCHANGED <<setup, launch, exe, device, tried, killed, said>>

\* The runner announces its device, and the daemon takes it.
Announce ==
    /\ at = "ready" /\ launch \in {"configured", "cpu"}
    /\ said' = want /\ launch' = "serving"
    /\ UNCHANGED <<setup, exe, device, at, want, mem, tried, killed>>

LoadNext ==
    \/ Spawn \/ Retry \/ Killed \/ StartOnnx \/ ChooseOnnx \/ StartLlama
    \/ LoadWorks \/ LoadFails \/ WarmUpKept \/ WarmUpFails \/ Announce

LoadSpec == LoadInit /\ [][LoadNext]_loadVars
-----------------------------------------------------------------------------
\* docs/api.md, OLLAYA_DEVICE, and llama/mod.rs, 137: a device asked for by name is where
\* the model runs, with no fallback of the daemon or the runner to another.  And
\* docs/distribution.md, 383: an ONNX model on the CPU runs on the ONNX Runtime of the
\* daemon's own executable, never on the GPU pack's, so its numbers do not depend on it.
RunsWhereAsked ==
    /\ said # None /\ setup.device # "auto" => said = setup.device
    /\ said = "cpu" /\ Onnx => ~Dynamic

\* server.rs, 200: a model that failed is out of memory before the next one is loaded,
\* within a runner and across the two the daemon may start, so one model's memory is
\* enough; and the device announced is where the one that serves is.
OneModel ==
    /\ Cardinality(mem) <= 1
    /\ launch = "serving" => mem = {said}

\* docs/distribution.md, 234 and 385: on auto a load that fails has failed on the CPU too.
\* Only an ONNX model's runner that crashes or hangs, without the GPU pack's, is not
\* retried: it holds both devices, and there is no second launch.
AutoReachesCpu ==
    launch = "failed" /\ setup.device = "auto" =>
        device = "cpu" \/ "cpu" \in tried \/ (killed /\ Onnx /\ ~runner_launch.dynamic)
=============================================================================
