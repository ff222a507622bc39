--------------------------- MODULE ErrorContract ---------------------------
(***************************************************************************)
(* schemas/errors.py, core/errors.py and the AppError handler of main.py:  *)
(* what a client is told when an AppError reaches the application.         *)
(*                                                                         *)
(* A key of the details is the set of its lower-case tokens, as            *)
(* _detail_key_tokens splits it: file_size_bytes is {file, size, bytes}.   *)
(***************************************************************************)
EXTENDS Naturals

ErrorCode == {"PARSER_BUSY", "INVALID_IMAGE", "UNSUPPORTED_MEDIA_TYPE", "IMAGE_TOO_LARGE",
              "IMAGE_DECODE_FAILED", "MODEL_NOT_READY", "VLM_TIMEOUT", "VLM_OOM",
              "VLM_INVALID_JSON", "INTERNAL_ERROR"}

UnsafeDetailKeywords == {"exception", "prompt", "raw", "stack", "trace", "traceback", "vlm"}

Tokens == UnsafeDetailKeywords \union
    {"file", "size", "bytes", "max", "upload", "detected", "format", "decoded", "pixels",
     "retry", "after", "seconds", "component", "reason", "stage"}

\* An error as it is raised, and as it is answered.
Error == [code : ErrorCode, status : {413, 415, 422, 502, 503, 504}, keys : SUBSET SUBSET Tokens]

AppError(code, status, keys) == [code |-> code, status |-> status, keys |-> keys]

\* ErrorResponse.reject_unsafe_detail_keys
SafeDetails(keys) == \A key \in keys : key \intersect UnsafeDetailKeywords = {}

\* An exception nobody handles: a bare 500 of the web framework.
Unhandled == [code |-> "none", status |-> 500, keys |-> {}]

\* _app_error_handler. Details the schema rejects raise inside the handler.
ErrorReply(e) == IF SafeDetails(e.keys) THEN e ELSE Unhandled
=============================================================================
