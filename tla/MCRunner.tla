------------------------------ MODULE MCRunner ------------------------------
(* Instances of the runner for TLC: the installs and machines that differ in  *)
(* where a model may go, and prompts over two tokens and an image position.   *)
EXTENDS Runner, TLC

CONSTANTS a, b, img,                            \* tokens, an image position
          state, opt1, opt2, opt3, long,        \* texts of clm-v1
          cuda, rocm, vulkan, integrated, metal \* GPUs

Backends == (cuda :> "cuda") @@ (rocm :> "rocm") @@ (vulkan :> "vulkan")
            @@ (integrated :> "vulkan") @@ (metal :> "metal")

\* No pack; the CUDA pack with and without its runner, and without an ONNX Runtime of its
\* own; the ROCm pack; MLX.
Installs == {{}, {"providers", "library", "cuda-runner"}, {"providers", "library", "rocm"},
             {"providers"}, {"rocm"}, {"mlx"}}

Onnxs == [format : {"onnx"}, device : Gpu \cup {"auto", "cpu"}, install : Installs,
          gpus : {{}, Gpu}, old : {FALSE}]
Ggufs == [format : {"gguf"}, device : {"auto", "cpu", cuda, rocm, integrated},
          install : Installs \ {{}}, gpus : {{cuda, rocm, vulkan}, {integrated}}, old : BOOLEAN]
Setups == Onnxs \cup Ggufs

Row(ids, blocks) == [ids |-> ids, single |-> FALSE, blocks |-> blocks]
Asks(kind, reference, head, blocks, rows) ==
    [kind |-> kind, reference |-> reference, head |-> head, blocks |-> blocks, rows |-> rows]

\* Rows that share a state prefix of two tokens or one, that equal it, or begin anew; rows
\* with one candidate; rows that just fit, and rows that do not.
Texts == {
    Asks("prefix", <<a, b, b>>, 0, <<>>, <<Row(<<a, b, a>>, <<>>), Row(<<a, b>>, <<>>)>>),
    Asks("prefix", <<a, b, b>>, 0, <<>>, <<[Row(<<a>>, <<>>) EXCEPT !.single = TRUE],
                                           Row(<<a, b, b, a>>, <<>>)>>),
    Asks("prefix", <<b, b>>, 0, <<>>, <<Row(<<b, b, a, b>>, <<>>), Row(<<a, b>>, <<>>)>>),
    Asks("prefix", <<b, b>>, 0, <<>>, <<Row(<<b, b, a, b, a>>, <<>>)>>),
    Asks("cold", <<>>, 0, <<>>, <<Row(<<a, b>>, <<>>), Row(<<b, b, a>>, <<>>)>>)}
Pictures == {
    Asks("d1", <<img, a>>, 1, <<>>, <<Row(<<img, a, b>>, <<>>), Row(<<img, b>>, <<>>)>>),
    Asks("d1", <<img, a>>, 1, <<>>, <<Row(<<img, a>>, <<>>), Row(<<img, b, b, b, b>>, <<>>)>>),
    Asks("winnow", <<img, a, b>>, 1, <<>>, <<Row(<<img, a, b, a>>, <<>>), Row(<<img, a, a>>, <<>>)>>),
    Asks("winnow", <<img, a, b>>, 1, <<>>, <<Row(<<img, a, b, a>>, <<>>)>>)}
Blocks == {
    Asks("jev", <<a, b>>, 0, <<1, 2>>, <<Row(<<a, b, a, b, b>>, <<3, 5>>), Row(<<a, b, b>>, <<3>>)>>),
    Asks("jev", <<a, b>>, 0, <<2>>, <<Row(<<a, b, a, b, b, a>>, <<4, 6>>)>>),
    Asks("jev", <<>>, 0, <<>>, <<Row(<<a, b>>, <<2>>)>>)}
Requests == Texts \cup Pictures \cup Blocks

\* Batches of one row and of two, rows out of order, repeated texts, more of them than the
\* cache keeps, and one that is too long.
Lengths == (state :> 2) @@ (opt1 :> 1) @@ (opt2 :> 1) @@ (opt3 :> 3) @@ (long :> 5)
Askeds == {<<state, opt1, opt2>>, <<state, opt1, state, opt1>>, <<state, opt3, opt1>>,
           <<opt3, opt2>>, <<opt1, state, opt3, opt2>>, <<state, long>>}
=============================================================================
