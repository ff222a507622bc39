---------------------------- MODULE CompactParse ----------------------------
(***************************************************************************)
(* The data of one POST /v1/parse/compact, from the bytes of the upload to *)
(* the body of the answer: CompactParseService.parse_image on the checks   *)
(* and measurements of ImageAnalysis, the reading of the model's reply of  *)
(* VLMOutput, and fuse_deterministic_with_vlm. When the provider refuses,  *)
(* fails or replies is ParseServer's business; here it may do any of them. *)
(*                                                                         *)
(*   received ... decoded -> answered                                      *)
(*        \----------\-----> raised -> answered                            *)
(*                                                                         *)
(* The text and list fields of a style are sequences: an absent text is    *)
(* <<>>, which is falsy as None and "" are.                                *)
(***************************************************************************)
EXTENDS ImageAnalysis, VLMOutput

CONSTANTS Uploads,
          Replies,           \* the texts the model may write
          Outputs,           \* what a fitting object may say
          Failures           \* the exceptions loading and generating may raise

\* VLMCompactOutput, its content layer and its style layer as lists of words.
Output == [asset_type : STRING, content : Seq(STRING),
           summary : Seq(STRING), visual_tone : Seq(STRING), typography : Seq(STRING),
           composition : Seq(STRING), palette : Seq(STRING), elements : Seq(STRING),
           warnings : Seq(STRING)]

\* The pixel limit has no upper bound: an upload may be a bomb to Pillow, which
\* draws its own line, and still be within the limit.
ASSUME CompactAssumption ==
    /\ Uploads \subseteq Upload
    /\ Replies \subseteq Seq(Pieces)
    /\ Outputs \subseteq Output
    /\ Failures \subseteq Exception

VARIABLES reply,             \* what the model wrote and whether the prompt was known
          output,            \* the VLMCompactOutput read from it, if one was
          answer

parseVars == <<imageVars, reply, output, answer>>

NoError  == [code |-> "none", status |-> 0, keys |-> {}]
NoAnswer == [status |-> 0, body |-> {}]

ParseTypeOK ==
    /\ upload \in Uploads
    /\ stage \in {"received", "sized", "opened", "screened", "decoded", "raised", "answered"}
    /\ decoding \in BOOLEAN
    /\ raised \in Error \union {NoError, Unhandled}
    /\ output \subseteq Outputs
    /\ reply \subseteq [text : Replies, known : BOOLEAN]
    /\ answer.status = 0 <=> stage # "answered"

-----------------------------------------------------------------------------
\* _compact_response_from_analysis
Deterministic(u) ==
    [metadata |-> Analysis(u).metadata,
     style    |-> [summary     |-> <<"deterministic image analysis">>,
                   visual_tone |-> <<>>,
                   typography  |-> <<>>,
                   composition |-> <<"aspect_ratio">>,
                   palette     |-> Analysis(u).palette],
     elements |-> <<>>,
     warnings |-> <<>>]

\* a or b
Or(a, b) == IF a # <<>> THEN a ELSE b

\* The warnings and those of more that are not among them yet.
Merged(warnings, more) ==
    FoldLeft(LAMBDA ws, w : IF Contains(ws, w) THEN ws ELSE Append(ws, w), warnings, more)

WithWarning(response, warning) ==
    [response EXCEPT !.warnings = Merged(@, <<warning>>)]

\* Mutated Fuse: the model's palette goes before the measured one.
FusePaletteOfModel(det, vlm) ==
    [det EXCEPT !.style = [summary     |-> Or(vlm.summary, @.summary),
                           visual_tone |-> Or(vlm.visual_tone, @.visual_tone),
                           typography  |-> Or(vlm.typography, @.typography),
                           composition |-> Or(vlm.composition, @.composition),
                           palette     |-> Or(vlm.palette, @.palette)],
                !.elements = Or(@, vlm.elements),
                !.warnings = Merged(@, vlm.warnings)]

\* fuse_deterministic_with_vlm: the model's style first, measured values first;
\* its asset type and its content have no place in the response.
Fuse(det, vlm) ==
    [det EXCEPT !.style = [summary     |-> Or(vlm.summary, @.summary),
                           visual_tone |-> Or(vlm.visual_tone, @.visual_tone),
                           typography  |-> Or(vlm.typography, @.typography),
                           composition |-> Or(vlm.composition, @.composition),
                           palette     |-> Or(@.palette, vlm.palette)],
                !.elements = Or(@, vlm.elements),
                !.warnings = Merged(@, vlm.warnings)]

Respond(body) == /\ stage' = "answered"
                 /\ answer' = [status |-> 200, body |-> body]
                 /\ UNCHANGED <<upload, decoding, raised>>

-----------------------------------------------------------------------------
\* The service has no provider.
NoProvider ==
    /\ stage = "decoded"
    /\ Respond(Deterministic(upload))
    /\ UNCHANGED <<reply, output>>

\* The provider raises an AppError of its own: no lease, no model, or an empty
\* list of decoded outputs.
ProviderRefuses ==
    /\ stage = "decoded"
    /\ \E e \in {AppError("PARSER_BUSY", 503, {{"retry", "after", "seconds"}}),
                 AppError("MODEL_NOT_READY", 503, {{"component"}}), InvalidJson} : Raise(e)
    /\ UNCHANGED <<decoding, reply, output, answer>>

\* Loading or generating raises something that is mapped to an AppError ...
ProviderFails ==
    /\ stage = "decoded"
    /\ \E failure \in Failures : \E e \in MapVlmRuntimeError(failure) : Raise(e)
    /\ UNCHANGED <<decoding, reply, output, answer>>

\* ... or something else: the client gets the deterministic response.
ProviderBreaks ==
    /\ stage = "decoded"
    /\ \E failure \in Failures : MapVlmRuntimeError(failure) = {}
    /\ Respond(WithWarning(Deterministic(upload), "vlm enrichment failed"))
    /\ UNCHANGED <<reply, output>>

\* The model wrote something; what is read of it has lost the prompt.
Generated(text, known) ==
    /\ stage = "decoded"
    /\ reply' = {[text |-> text, known |-> known]}

Read(text, known) == TrimPromptTokens(Prompt \o text, known)

ReplyMisread ==
    \E text \in Replies, known \in BOOLEAN :
        /\ Generated(text, known)
        /\ ~Accepted(Read(text, known))
        /\ Raise(InvalidJson)
        /\ UNCHANGED <<decoding, output, answer>>

ReplyRead ==
    \E text \in Replies, known \in BOOLEAN, out \in Outputs :
        /\ Generated(text, known)
        /\ Accepted(Read(text, known))
        /\ output' = {out}
        /\ Respond(Fuse(Deterministic(upload), out))

\* Mutated AnswerError: the handler returns nothing.
AnswerErrorEmpty ==
    /\ stage = "raised"
    /\ stage' = "answered"
    /\ UNCHANGED <<upload, decoding, raised, reply, output, answer>>

\* The AppError handler, or the web framework's.
AnswerError ==
    /\ stage = "raised"
    /\ stage' = "answered"
    /\ answer' = ErrorReply(raised)
    /\ UNCHANGED <<upload, decoding, raised, reply, output>>

\* The client has its answer.
Over == stage = "answered" /\ UNCHANGED parseVars

ParseInit == /\ upload \in Uploads
             /\ stage = "received"
             /\ decoding = FALSE
             /\ raised = NoError
             /\ reply = {}
             /\ output = {}
             /\ answer = NoAnswer

ParseNext == \/ ImageStep /\ UNCHANGED <<reply, output, answer>>
             \/ NoProvider \/ ProviderRefuses \/ ProviderFails \/ ProviderBreaks
             \/ ReplyMisread \/ ReplyRead
             \/ AnswerError
             \/ Over

ParseSpec == ParseInit /\ [][ParseNext]_parseVars

-----------------------------------------------------------------------------
Answered(status) == stage = "answered" /\ answer.status = status

(* The pixels of an upload are decoded only when its bytes, its format and  *)
(* its header are within the limits: no check comes after the work it is    *)
(* there to prevent (image_validation.py 47-78).                            *)
NothingDecodedBeyondLimits ==
    decoding => /\ upload.size \in 1..MaxUploadBytes
                /\ upload.format \in SupportedFormats
                /\ WithinPixelLimit(upload)

\* Nothing is wrong with the upload.
Faultless(u) == /\ u.size \in 1..MaxUploadBytes
                /\ u.open = "ok"
                /\ u.format \in SupportedFormats
                /\ WithinPixelLimit(u)
                /\ u.load = "ok"

(* An error names something that is really wrong with the upload - too      *)
(* large is what breaks a limit, or what Pillow itself refuses as a bomb,   *)
(* whichever of the two lines is the lower one -, the errors of the model   *)
(* are for faultless uploads only, and a bare 500 comes only from an        *)
(* exception of Pillow that the code does not name - never from the         *)
(* service's own details being rejected by its own contract                 *)
(* (image_validation.py 47-103, errors.py 43-54, main.py 66-71).            *)
BlameIsRight ==
    stage = "answered" =>
        IF answer.status = 200 THEN Faultless(upload)
        ELSE CASE answer.code = "IMAGE_TOO_LARGE" ->
                    \/ upload.size > MaxUploadBytes
                    \/ upload.open = "bomb"
                    \/ ~WithinPixelLimit(upload)
               [] answer.code = "UNSUPPORTED_MEDIA_TYPE" -> upload.format \notin SupportedFormats
               [] answer.code = "INVALID_IMAGE" ->
                    upload.size = 0 \/ upload.open = "unidentified"
               [] answer.code = "IMAGE_DECODE_FAILED" ->
                    upload.open \in {"unidentified", "oserror"} \/ upload.load = "oserror"
               [] answer.code = "none" -> upload.open = "other" \/ upload.load = "other"
               [] OTHER -> Faultless(upload)

\* The palette lists the first colours of u, by frequency and then by rgb.
IsTop(palette, u) ==
    LET shown    == {palette[k].hex : k \in DOMAIN palette}
        later(k) == {palette[l].hex : l \in {l \in DOMAIN palette : l > k}}
        colours  == {u.pixels[i].rgb : i \in Visible(u)}
    IN  /\ Len(palette) = Min({PaletteSize, Cardinality(colours)})
        /\ Cardinality(shown) = Len(palette)
        /\ \A k \in DOMAIN palette :
              /\ \A c \in (colours \ shown) \union later(k) :
                    \/ Count(u, c) < palette[k].count
                    \/ Count(u, c) = palette[k].count /\ palette[k].hex < c
              /\ palette[k].role = "dominant" <=> k = 1

(* The palette of an answer lists the most frequent visible colours, each   *)
(* once: a colour that is left out, or listed later, covers fewer pixels    *)
(* than a listed one, or as many and has the greater rgb, so that two       *)
(* answers to the same picture agree; exactly the first is dominant         *)
(* (deterministic.py 31-36, 46-72; compact_parse.py 75-80).                 *)
PaletteIsTop == Answered(200) => IsTop(Deterministic(upload).style.palette, upload)

\* The replies the parser can read: one fitting object among prose, bare or
\* between two fences and, when it is bare, with at most one fence in its strings.
ReadableForm(text) ==
    \E core \in {<<"object">>, <<"head", "fence", "tail">>, <<"fence", "object", "fence">>},
       before, after \in 0..Len(text) :
          /\ Len(text) = before + Len(core) + after
          /\ SubSeq(text, before + 1, before + Len(core)) = core
          /\ \A i \in DOMAIN text : i \notin (before + 1)..(before + Len(core)) => text[i] = "prose"

(* A reply whose prompt is known and which is a fitting object among prose, *)
(* bare with at most one fence in its strings or between two fences, is     *)
(* read; and whatever is read was written by the model as one whole fitting *)
(* object - never the schema in the prompt, a truncated object, or pieces   *)
(* of two. Nothing is said of a bare object with two fences in its strings: *)
(* the code looks for a fence before a brace, in strings too, and refuses   *)
(* it (vlm_compact.py 13-42, gemma4_provider.py 164-174, 211-222).          *)
RepliesAreRead ==
    stage = "answered" => \A r \in reply :
        /\ r.known /\ ReadableForm(r.text) => output # {}
        /\ output # {} =>
              \E i, j \in DOMAIN r.text :
                 i <= j /\ IsObject(SubSeq(r.text, i, j)) /\ SubSeq(r.text, i, j) # <<"misfit">>

\* The words in a style, in elements and in warnings.
Words(style, elements, warnings) ==
    UNION {ToSet(style.summary), ToSet(style.visual_tone), ToSet(style.typography),
           ToSet(style.composition), ToSet(elements), ToSet(warnings)}

(* Where the parts of an answer come from: metadata never from the model;   *)
(* the palette from the pixels, and from the model only when nothing was    *)
(* measured; the style and the elements of a model that was read in place   *)
(* of the deterministic ones; the warnings of both, none of them twice. The *)
(* content and the asset type that a model gives are validated and then     *)
(* shown nowhere, and a model that broke shows as the warning and as        *)
(* nothing else (fusion.py 5-36, schemas/vlm.py 8-37, compact_parse.py      *)
(* 37-49, 83-87).                                                           *)
AnswerIsFused ==
    Answered(200) =>
        LET det == Deterministic(upload)
            body == answer.body
            IsIn(words, place) == words = <<>> \/ place = words
        IN  /\ body.metadata = det.metadata
            /\ det.style.palette # <<>> => body.style.palette = det.style.palette
            /\ \A i, j \in DOMAIN body.warnings : body.warnings[i] = body.warnings[j] => i = j
            /\ \A out \in output :
                  /\ det.style.palette = <<>> => body.style.palette = out.palette
                  /\ IsIn(out.summary, body.style.summary)
                  /\ IsIn(out.visual_tone, body.style.visual_tone)
                  /\ IsIn(out.typography, body.style.typography)
                  /\ IsIn(out.composition, body.style.composition)
                  /\ IsIn(out.elements, body.elements)
                  /\ ToSet(out.warnings) = ToSet(body.warnings)
                  /\ Words(body.style, body.elements, body.warnings) \subseteq
                        Words(det.style, det.elements, det.warnings)
                        \union Words(out, out.elements, out.warnings)
            /\ output = {} => body \in {det, [det EXCEPT !.warnings = <<"vlm enrichment failed">>]}
=============================================================================
