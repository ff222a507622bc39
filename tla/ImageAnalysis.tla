--------------------------- MODULE ImageAnalysis ---------------------------
(***************************************************************************)
(* parsers/image_validation.py and parsers/deterministic.py: the checks an *)
(* upload goes through, in their order, and what is measured in the image. *)
(*                                                                         *)
(*   received -> sized -> opened -> screened -> decoded                    *)
(*        \---------\--------\----------\------------> raised              *)
(*                                                                         *)
(* An upload carries what Pillow (external) will make of its bytes: how    *)
(* Image.open ends, the format and dimensions in the header, whether EXIF  *)
(* turns it on its side, how decoding the pixels ends, and the pixels. A   *)
(* colour is its rank in the order of rgb triples. The bounding box is not *)
(* used by any response and is left out.                                   *)
(***************************************************************************)
EXTENDS ErrorContract, SequencesExt

CONSTANTS MaxUploadBytes, MaxDecodedPixels, PaletteSize

ASSUME LimitsAssumption == /\ MaxUploadBytes \in Nat \ {0}
                           /\ MaxDecodedPixels \in Nat \ {0}
                           /\ PaletteSize \in Nat

SupportedFormats == {"PNG", "JPEG", "WEBP"}

\* What the first bytes look like; RIFF may or may not go on with WEBP.
Signatures == {"png", "jpeg", "riff_webp", "riff_other", "other"}

\* How a call into Pillow ends; "other" is any exception the code does not name.
OpenEnds == {"ok", "bomb", "unidentified", "oserror", "other"}
LoadEnds == {"ok", "oserror", "other"}

Pixel == [rgb : Nat, alpha : Nat]

Upload == [size : Nat, signature : Signatures, open : OpenEnds,
           format : SupportedFormats \union {"GIF", "unknown"}, width : Nat \ {0},
           height : Nat \ {0}, turned : BOOLEAN, load : LoadEnds, alpha : BOOLEAN,
           pixels : Seq(Pixel)]

VARIABLES upload,
          stage,
          decoding,          \* the pixels are, or have been, decoded
          raised             \* the exception on its way to the client

imageVars == <<upload, stage, decoding, raised>>

Raise(e) == /\ stage' = "raised"
            /\ raised' = e
            /\ UNCHANGED upload

-----------------------------------------------------------------------------
\* decode_image_upload: the checks on the bytes.
RefuseEmpty ==
    /\ stage = "received"
    /\ upload.size = 0
    /\ Raise(AppError("INVALID_IMAGE", 422, {}))
    /\ UNCHANGED decoding

RefuseTooManyBytes ==
    /\ stage = "received"
    /\ upload.size > MaxUploadBytes
    /\ upload.size # 0
    /\ Raise(AppError("IMAGE_TOO_LARGE", 413,
                      {{"file", "size", "bytes"}, {"max", "upload", "bytes"}}))
    /\ UNCHANGED decoding

AcceptSize ==
    /\ stage = "received"
    /\ upload.size \in 1..MaxUploadBytes
    /\ stage' = "sized"
    /\ UNCHANGED <<upload, decoding, raised>>

\* _has_supported_signature
HasSupportedSignature(u) == u.signature \in {"png", "jpeg", "riff_webp"}

\* Image.open raised: the except clauses of decode_image_upload.
OpenError(u) ==
    CASE u.open = "bomb"         -> AppError("IMAGE_TOO_LARGE", 413, {})
      [] u.open = "unidentified" -> AppError(IF HasSupportedSignature(u)
                                               THEN "IMAGE_DECODE_FAILED"
                                               ELSE "INVALID_IMAGE", 422, {})
      [] u.open = "oserror"      -> AppError("IMAGE_DECODE_FAILED", 422, {})
      [] OTHER                   -> Unhandled

OpenRaises ==
    /\ stage = "sized"
    /\ upload.open # "ok"
    /\ Raise(OpenError(upload))
    /\ UNCHANGED decoding

Open ==
    /\ stage = "sized"
    /\ upload.open = "ok"
    /\ stage' = "opened"
    /\ UNCHANGED <<upload, decoding, raised>>

RefuseFormat ==
    /\ stage = "opened"
    /\ upload.format \notin SupportedFormats
    /\ Raise(AppError("UNSUPPORTED_MEDIA_TYPE", 415, {{"detected", "format"}}))
    /\ UNCHANGED decoding

\* _enforce_pixel_limit
WithinPixelLimit(u) == u.width * u.height <= MaxDecodedPixels

RefuseTooManyPixels ==
    /\ stage = "opened"
    /\ upload.format \in SupportedFormats
    /\ ~WithinPixelLimit(upload)
    /\ Raise(AppError("IMAGE_TOO_LARGE", 413, {{"decoded", "pixels"}, {"max", "decoded", "pixels"}}))
    /\ UNCHANGED decoding

\* Mutated AcceptHeader: each side is compared with the limit.
AcceptHeaderOfSides ==
    /\ stage = "opened"
    /\ upload.format \in SupportedFormats
    /\ upload.width <= MaxDecodedPixels /\ upload.height <= MaxDecodedPixels
    /\ stage' = "screened"
    /\ UNCHANGED <<upload, decoding, raised>>

AcceptHeader ==
    /\ stage = "opened"
    /\ upload.format \in SupportedFormats
    /\ WithinPixelLimit(upload)
    /\ stage' = "screened"
    /\ UNCHANGED <<upload, decoding, raised>>

\* exif_transpose and load read the pixels, and one of them raises ...
LoadRaises ==
    /\ stage = "screened"
    /\ upload.load # "ok"
    /\ decoding' = TRUE
    /\ Raise(IF upload.load = "oserror" THEN AppError("IMAGE_DECODE_FAILED", 422, {})
                                        ELSE Unhandled)

\* ... or the image is decoded.
Load ==
    /\ stage = "screened"
    /\ upload.load = "ok"
    /\ decoding' = TRUE
    /\ stage' = "decoded"
    /\ UNCHANGED <<upload, raised>>

ImageStep == \/ RefuseEmpty \/ RefuseTooManyBytes \/ AcceptSize
             \/ OpenRaises \/ Open
             \/ RefuseFormat \/ RefuseTooManyPixels \/ AcceptHeader
             \/ LoadRaises \/ Load

-----------------------------------------------------------------------------
\* The metadata, of the image as EXIF turns it.
Metadata(u) == [width           |-> IF u.turned THEN u.height ELSE u.width,
                height          |-> IF u.turned THEN u.width ELSE u.height,
                mime_type       |-> u.format,
                file_size_bytes |-> u.size,
                alpha_present   |-> u.alpha]

\* _visible_rgb_pixels, by their positions.
Visible(u) == {i \in DOMAIN u.pixels : u.pixels[i].alpha > 0}

\* How many visible pixels have the colour.
Count(u, rgb) == Cardinality({i \in Visible(u) : u.pixels[i].rgb = rgb})

\* Mutated RanksBefore: sorted by (count, rgb) with reverse, which turns ties too.
RanksBeforeReversed(u, c, d) == \/ Count(u, c) > Count(u, d)
                                \/ Count(u, c) = Count(u, d) /\ c > d

\* The sort key: the more frequent colour first, then the smaller one.
RanksBefore(u, c, d) == \/ Count(u, c) > Count(u, d)
                        \/ Count(u, c) = Count(u, d) /\ c < d

\* The colours as sorted() leaves them: the k-th has k - 1 before it.
Ranked(u) ==
    LET colours == {u.pixels[i].rgb : i \in Visible(u)}
    IN  [k \in 1..Cardinality(colours) |->
            CHOOSE c \in colours : Cardinality({d \in colours : RanksBefore(u, d, c)}) = k - 1]

\* _extract_palette. A ratio is kept as its two numbers.
Palette(u) ==
    LET ranked == Ranked(u)
    IN  [k \in 1..Min({PaletteSize, Len(ranked)}) |->
            [hex |-> ranked[k], count |-> Count(u, ranked[k]), total |-> Cardinality(Visible(u)),
             role |-> IF k = 1 THEN "dominant" ELSE "accent"]]

\* analyze_image, on a decoded upload.
Analysis(u) == [metadata |-> Metadata(u), palette |-> Palette(u)]
=============================================================================
