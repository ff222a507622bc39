----------------------------- MODULE VLMOutput -----------------------------
(***************************************************************************)
(* What the provider makes of a generation: _trim_prompt_tokens,           *)
(* parsers/vlm_compact.py, and _map_vlm_runtime_error for one that raised. *)
(*                                                                         *)
(* A text is a sequence of these pieces:                                   *)
(*   prose   text without a brace or a fence                               *)
(*   fence   ``` with or without json behind it                            *)
(*   object  a JSON object that fits VLMCompactOutput                      *)
(*   misfit  a JSON object that does not                                   *)
(*   head, tail   the two halves of a fitting object around a ``` inside   *)
(*                one of its strings; a head without its tail is broken    *)
(* An exception is what the mapping looks at: whether it is a TimeoutError,*)
(* whether its class is an OutOfMemory one, and the words it says.         *)
(***************************************************************************)
EXTENDS ErrorContract, SequencesExt

Pieces == {"prose", "fence", "object", "misfit", "head", "tail"}

Exception == [timeout : BOOLEAN, oomClass : BOOLEAN,
              says : SUBSET {"out of memory", "cuda", "gpu"}]

\* The prompt ends up in front of the reply in the generated ids. It shows the
\* schema, which is an object but not a fitting one.
Prompt == <<"prose", "misfit", "prose">>

\* Mutated TrimPromptTokens: the prompt is left in front of the reply.
TrimNothing(generated, known) == generated

\* _trim_prompt_tokens: cut off where the inputs tell their input_ids.
TrimPromptTokens(generated, known) ==
    IF known THEN SubSeq(generated, Len(Prompt) + 1, Len(generated)) ELSE generated

Fences(text) == {i \in DOMAIN text : text[i] = "fence"}
Braces(text) == {i \in DOMAIN text : text[i] \in {"object", "misfit", "head"}}

\* A JSON object from end to end.
IsObject(text) == \/ text = <<"object">>
                  \/ text = <<"misfit">>
                  \/ /\ Len(text) > 1
                     /\ text[1] = "head"
                     /\ text[Len(text)] = "tail"
                     /\ \A i \in 2..(Len(text) - 1) : text[i] = "fence"

\* What is between the first fence and the next.
Fenced(text) == LET first  == Min(Fences(text))
                    second == Min(Fences(text) \ {first})
                IN  SubSeq(text, first + 1, second - 1)

\* JSONDecoder.raw_decode: the object that starts at the first brace, if one
\* does; what follows it is not looked at.
RawDecoded(text) ==
    {t \in {SubSeq(text, Min(Braces(text)), end) : end \in DOMAIN text} : IsObject(t)}

\* _extract_json_object: the payload, or none when it raises. A pair of fences
\* is preferred to a brace, wherever the fences are.
ExtractJsonObject(text) ==
    IF Cardinality(Fences(text)) > 1 THEN {Fenced(text)}
    ELSE IF Braces(text) = {} THEN {}
    ELSE RawDecoded(text)

\* parse_vlm_compact_output: json.loads, then the schema of VLMCompactOutput.
Accepted(text) ==
    \E payload \in ExtractJsonObject(text) : IsObject(payload) /\ payload # <<"misfit">>

\* Mutated InvalidJson: the raw text is among the details.
InvalidJsonWithRaw == AppError("VLM_INVALID_JSON", 502, {{"reason"}, {"raw", "format"}})

InvalidJson == AppError("VLM_INVALID_JSON", 502, {{"reason"}})

-----------------------------------------------------------------------------
\* _is_cuda_oom
IsCudaOom(e) == \/ e.oomClass
                \/ "out of memory" \in e.says /\ e.says \intersect {"cuda", "gpu"} # {}

\* _map_vlm_runtime_error: the AppError, or none when the exception stays.
MapVlmRuntimeError(e) ==
    IF e.timeout        THEN {AppError("VLM_TIMEOUT", 504, {{"stage"}})}
    ELSE IF IsCudaOom(e) THEN {AppError("VLM_OOM", 503, {{"stage"}})}
    ELSE {}
=============================================================================
