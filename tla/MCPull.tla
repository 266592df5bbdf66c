-------------------------------- MODULE MCPull --------------------------------
(* Pull on small instances. *)
EXTENDS Pull

CONSTANTS m1, m2

NoRank == [g \in Groups |-> Absent]
TP(r) == [NoRank EXCEPT !["tp"] = r]
Halves == [h \in {"stream", "batch"} |-> "fine"]

(* A vLLM with two engines and a registered model; the same without one;   *)
(* an SGLang whose ranks of two groups all report, one with a lone worker  *)
(* and histograms that do not fit; a llama-server without labels, of an    *)
(* old build; TensorFold in its two versions, and a body with both; and a  *)
(* registration that names the wrong engine.                               *)
Lineup ==
    LET vllm == [adapter |-> "vllm", served |-> m1, exposes |-> {"vllm"}, labelled |-> TRUE,
                 workers |-> {"0", "1"}, ranks |-> {NoRank}, bounds |-> Halves, lacks |-> {}]
        sglang == [vllm EXCEPT !.adapter = "sglang", !.exposes = {"sglang"},
                      !.ranks = {TP("0"), TP("1"), [TP("0") EXCEPT !["pp"] = "1"]}]
        llamacpp == [vllm EXCEPT !.adapter = "llamacpp", !.served = Absent, !.labelled = FALSE,
                        !.exposes = {"llamacpp"}, !.workers = {Absent}, !.lacks = {"cached"}]
        tensorfold == [llamacpp EXCEPT !.adapter = "tensorfold", !.exposes = {"native"}]
    IN  {vllm, [vllm EXCEPT !.served = Absent], sglang,
         [sglang EXCEPT !.workers = {Absent}, !.bounds["batch"] = "coarse"],
         llamacpp, tensorfold, [tensorfold EXCEPT !.exposes = {"patch0150"}, !.labelled = TRUE],
         [tensorfold EXCEPT !.exposes = {"native", "patch0150"}],
         [vllm EXCEPT !.exposes = {"sglang"}]}

AnyModels == {{m1}, {m2}, {m1, m2}}
=============================================================================
