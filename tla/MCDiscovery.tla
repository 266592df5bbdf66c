----------------------------- MODULE MCDiscovery -----------------------------
(* Discovery on small instances. *)
EXTENDS Discovery

CONSTANTS m1, m2

Plain(sig, labels, serves) ==
    [sigs |-> {sig}, mlx |-> FALSE, labels |-> labels, serves |-> serves,
     engine |-> EngineOf(sig)]

(* Two models behind an engine that names its model only from its first    *)
(* request on, and else has to be asked; an engine that names it at once;  *)
(* one with two models; mlx-serve with the metrics of vLLM; and a process  *)
(* that exposes the metrics of two engines.                                *)
Lineup == {Plain("llamacpp", {}, {m1}), Plain("llamacpp", {}, {m2}),
           Plain("vllm", {m1}, {m1}), Plain("vllm", {m1, m2}, {m1, m2}),
           [Plain("vllm", {m1}, {m1}) EXCEPT !.mlx = TRUE, !.engine = "mlx-serve"],
           [Plain("vllm", {m1}, {m1}) EXCEPT !.sigs = {"vllm", "patch0150"}, !.engine = Unknown]}

Labelling == {Plain("vllm", {m1}, {m1})}
=============================================================================
