--------------------------- MODULE MCCompactParse ---------------------------
(* Uploads that go wrong at every check, alone and in combination, and good *)
(* ones with small pictures; every reply of up to four pieces, and longer     *)
(* ones with fences around, inside and between objects.                       *)
EXTENDS CompactParse

Plain == [size |-> 1, signature |-> "png", open |-> "ok", format |-> "PNG",
          width |-> 1, height |-> 3, turned |-> FALSE, load |-> "ok", alpha |-> FALSE,
          pixels |-> <<[rgb |-> 1, alpha |-> 255], [rgb |-> 1, alpha |-> 255],
                       [rgb |-> 2, alpha |-> 255]>>]

Clear == [rgb |-> 1, alpha |-> 0]
Pix(c) == [rgb |-> c, alpha |-> 255]

\* Three pixels: one, two or three colours, ties, and transparent ones.
Pictures ==
    {[Plain EXCEPT !.pixels = p, !.alpha = \E i \in 1..3 : p[i].alpha = 0] :
        p \in {<<Clear, Clear, Clear>>, <<Pix(2), Clear, Clear>>, <<Pix(2), Clear, Pix(1)>>,
              <<Pix(3), Pix(3), Pix(3)>>, <<Pix(1), Pix(2), Pix(2)>>, <<Pix(3), Pix(1), Pix(3)>>,
              <<Pix(3), Pix(2), Pix(1)>>, <<Pix(2), Pix(3), Pix(2)>>}}

Turned == [Plain EXCEPT !.turned = TRUE, !.format = "JPEG", !.signature = "jpeg"]

Faulty ==
    {[Plain EXCEPT !.size = s, !.signature = g, !.open = o, !.format = f, !.width = w, !.load = l] :
        s \in {0, 2, 3}, g \in {"png", "riff_other"}, o \in OpenEnds,
        f \in {"WEBP", "GIF"}, w \in {1, 2}, l \in LoadEnds}

MCUploads == Pictures \union {Turned} \union Faulty

MCReplies == UNION {[1..n -> Pieces] : n \in 0..4}
             \union {<<"prose", "head", "fence", "tail", "prose">>,
                     <<"prose", "fence", "object", "fence", "prose">>,
                     <<"fence", "head", "fence", "tail", "fence">>,
                     <<"head", "fence", "fence", "tail", "object">>}

Silent  == [asset_type |-> "unknown", content |-> <<>>, summary |-> <<>>,
            visual_tone |-> <<>>, typography |-> <<>>, composition |-> <<>>,
            palette |-> <<>>, elements |-> <<>>, warnings |-> <<>>]
Talking == [asset_type |-> "logo", content |-> <<"wordmark", "acme">>, summary |-> <<"words">>,
            visual_tone |-> <<"tone">>, typography |-> <<"serif">>,
            composition |-> <<"centered">>, palette |-> <<"purple", "teal", "pink">>, elements |-> <<"icon">>,
            warnings |-> <<"blurred", "cropped", "blurred">>]

MCOutputs == {Silent, Talking, [Silent EXCEPT !.summary = <<"words">>, !.content = <<"acme">>]}

MCFailures == Exception
=============================================================================
