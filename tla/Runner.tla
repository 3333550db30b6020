------------------------------- MODULE Runner -------------------------------
(***************************************************************************)
(* A runner process from its launch to its requests: the load, and then    *)
(* the requests, in the llama.cpp context of a GGUF model or beside the    *)
(* cache of an ONNX model of layout clm-v1.                                *)
(***************************************************************************)
EXTENDS RunnerLoad, LlamaContext, ClmProjections

vars == <<loadVars, llamaVars, clmVars>>

TypeOK == LoadTypeOK /\ LlamaTypeOK /\ ClmTypeOK

Init == LoadInit /\ LlamaInit /\ ClmInit

ServesGguf == launch = "serving" /\ ~Onnx
ServesOnnx == launch = "serving" /\ Onnx /\ said # Metal

\* Requests come once the model is announced; a warm-up's are as any other.
Next ==
    \/ LoadNext /\ UNCHANGED <<llamaVars, clmVars>>
    \/ ServesGguf /\ (LlamaLoaded \/ LlamaNext) /\ UNCHANGED <<loadVars, clmVars>>
    \/ ServesOnnx /\ ClmNext /\ UNCHANGED <<loadVars, llamaVars>>

Spec == Init /\ [][Next]_vars
=============================================================================
