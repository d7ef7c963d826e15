----------------------------- MODULE Moderation -----------------------------
(***************************************************************************)
(* The security service: SanitizeContent makes a text fit to be shown and  *)
(* asks a model whether it is an ad, DetectImageAd asks one about an       *)
(* image, DetectImageAdBatch about one image after another.  Nothing       *)
(* outlives a call.  A text is a sequence of kinds of characters.          *)
(***************************************************************************)
EXTENDS Integers, Sequences, FiniteSets

CONSTANTS
    MaxLength,  \* bound: characters of a text
    MaxImages   \* bound: images of a batch

ASSUME ModerationAssumption == {MaxLength, MaxImages} \subseteq Nat

VARIABLES
    configured, \* the image model has an endpoint and a key
    work        \* the call the service works on

moderationVars == <<configured, work>>

----------------------------------------------------------------------------
(* Texts *)

\* composed: what base and accent are in NFC; nbsp: a space that only TrimSpace
\* knows; tag: an element no policy allows.
Blank == {"space", "tab", "newline", "return"}
Char == {"base", "accent", "composed", "nbsp", "tag"} \cup Blank
Text == UNION {[1 .. n -> Char] : n \in 0 .. MaxLength}
Options == [unicode : BOOLEAN, html : BOOLEAN, whitespace : BOOLEAN]

\* The characters at these places, in order.
Kept(text, places) ==
    [n \in 1 .. Cardinality(places) |->
        text[CHOOSE i \in places : Cardinality(places \cap 1 .. i) = n]]

\* An accent joins the letter before it.
Joins(text, i) == i > 1 /\ text[i] = "accent" /\ text[i - 1] = "base"

normalizeUnicode(text) ==
    LET joined == [i \in DOMAIN text |->
                      IF i < Len(text) /\ Joins(text, i + 1) THEN "composed" ELSE text[i]]
    IN  Kept(joined, {i \in DOMAIN text : ~Joins(text, i)})

sanitizeHTML(text) == Kept(text, {i \in DOMAIN text : text[i] # "tag"})

\* strings.TrimSpace
Trim(text) ==
    LET ink == {i \in DOMAIN text : text[i] \notin Blank \cup {"nbsp"}}
    IN  Kept(text, {i \in DOMAIN text : \E first, last \in ink : first <= i /\ i <= last})

\* A run of blanks is a space; "\r\n" and "\r" are newlines first.
normalizeWhitespace(text) ==
    LET spaced == [i \in DOMAIN text |-> IF text[i] \in Blank THEN "space" ELSE text[i]]
    IN  Trim(Kept(spaced, {i \in DOMAIN text :
                              text[i] \in Blank /\ i > 1 => text[i - 1] \notin Blank}))

\* Wrong variant: blanks first.
WrongSanitizedText(text, options) ==
    LET composed == IF options.unicode THEN normalizeUnicode(text) ELSE text
        narrow == IF options.whitespace THEN normalizeWhitespace(composed) ELSE composed
    IN  IF options.html THEN sanitizeHTML(narrow) ELSE narrow

\* An empty text is answered at once, with itself.
SanitizedText(text, options) ==
    LET composed == IF options.unicode THEN normalizeUnicode(text) ELSE text
        clean == IF options.html THEN sanitizeHTML(composed) ELSE composed
    IN  IF options.whitespace THEN normalizeWhitespace(clean) ELSE clean

\* What the model says of a text, if it is asked and answers: that it is an ad, and
\* whether its confidence reaches the threshold, which makes it one whatever it said.
detectAd == [ad : BOOLEAN, sure : BOOLEAN] \cup [ad : {FALSE}, sure : {FALSE}]

IsAd(verdict) == verdict.ad \/ verdict.sure

----------------------------------------------------------------------------
(* Images *)

\* Nothing; neither url nor data; what the model makes of it: no answer that can
\* be used, an ad, an ad that looks like an official poster, no ad.
Image == {"nil", "empty", "failed", "ad", "poster", "clean"}

\* shouldDowngradeOfficialMediaPoster
Downgraded(image) == image = "poster"

\* Wrong variant: an image the model cannot judge passes.
WrongDetectImageAd(image) ==
    [ok |-> image # "empty",
     ad |-> configured /\ image \in {"ad", "poster"} /\ ~Downgraded(image)]

\* Without a model every image passes.
DetectImageAd(image) ==
    [ok |-> image # "empty" /\ (configured => image # "failed"),
     ad |-> configured /\ image \in {"ad", "poster"} /\ ~Downgraded(image)]

----------------------------------------------------------------------------
Idle == [call |-> "none"]

Result == [ok : BOOLEAN, ad : BOOLEAN]

Batch == UNION {[1 .. n -> Image] : n \in 0 .. MaxImages}

Work ==
    {Idle}
    \cup [call : {"text"}, text : Text, options : Options, ad : BOOLEAN]
    \cup [call : {"batch"}, images : Batch, results : UNION {[1 .. n -> Result] : n \in 0 .. MaxImages},
          passed : 0 .. MaxImages, failed : 0 .. MaxImages, ads : 0 .. MaxImages]

ModerationTypeOK == configured \in BOOLEAN /\ work \in Work

ModerationInit == configured \in BOOLEAN /\ work = Idle

\* A text of the client, and what the model says of it.
SanitizeContent ==
    /\ work = Idle
    /\ \E text \in Text, options \in Options, verdict \in detectAd :
        work' = [call |-> "text", text |-> text, options |-> options,
                 ad |-> text # <<>> /\ IsAd(verdict)]
    /\ UNCHANGED configured

DetectImageAdBatch ==
    /\ work = Idle
    /\ \E images \in Batch :
        work' = [call |-> "batch", images |-> images, results |-> <<>>,
                 passed |-> 0, failed |-> 0, ads |-> 0]
    /\ UNCHANGED configured

Count(holds) == IF holds THEN 1 ELSE 0

\* The next image of the batch.
DetectNext ==
    /\ work.call = "batch" /\ Len(work.results) < Len(work.images)
    /\ LET image == work.images[Len(work.results) + 1]
           result == IF image = "nil" THEN [ok |-> FALSE, ad |-> FALSE] ELSE DetectImageAd(image)
       IN  work' = [work EXCEPT !.results = Append(@, result),
                                !.passed = @ + Count(result.ok),
                                !.failed = @ + Count(~result.ok),
                                !.ads = @ + Count(result.ok /\ result.ad)]
    /\ UNCHANGED configured

\* The response: a batch succeeds if none of it failed.
Respond ==
    /\ work # Idle
    /\ work.call = "batch" => Len(work.results) = Len(work.images)
    /\ work' = Idle
    /\ UNCHANGED configured

ModerationNext == SanitizeContent \/ DetectImageAdBatch \/ DetectNext \/ Respond

ModerationSpec == ModerationInit /\ [][ModerationNext]_moderationVars

----------------------------------------------------------------------------
(* Properties *)

\* A text that was sanitized stays as it is when it is sanitized again, whichever of
\* the steps are asked for, unless an element that was dropped stood between a letter and its accent:
\* texts are put in NFC before the elements go (sanitize_content_logic.go:239-247).
SanitizedIsStable ==
    work.call = "text" =>
        LET once == SanitizedText(work.text, work.options)
            joins == \E i \in 1 .. Len(once) - 1 : once[i] = "base" /\ once[i + 1] = "accent"
        IN  \/ SanitizedText(once, work.options) = once
            \/ work.options.unicode /\ work.options.html /\ joins

\* A batch counts each image once and answers for each in its place, and an image
\* passes as no ad only if the model saw it and said so, or there is no model: a call
\* that fails lets none through, and one image that fails keeps the batch from
\* success (detect_image_ad_logic.go:284-297, detect_image_ad_batch_logic.go:56-103).
PassedWasSeen ==
    work.call = "batch" =>
        /\ work.passed + work.failed = Len(work.results)
        /\ \A i \in DOMAIN work.results :
              LET passes == work.results[i].ok /\ ~work.results[i].ad IN
              /\ passes => IF configured THEN work.images[i] \in {"clean", "poster"}
                           ELSE work.images[i] \notin {"nil", "empty"}
              /\ ~work.results[i].ok => work.failed > 0
=============================================================================
