------------------------------ MODULE JobInputs ------------------------------
(* What the job endpoints of the media API accept, what they store with the   *)
(* job, and what the worker asks of a job it takes from the queue.  Operators *)
(* only: ApiInputs sends forms to them.  A form is a record of the type, the  *)
(* two uploads, the number fields, one text, one listed choice, the emotion   *)
(* vector and the cart items.                                                 *)
EXTENDS Integers, FiniteSets, Sequences

Types == {"watermark", "subtitle", "live_slice", "tts", "flashhead", "latentsync"}

(* A number field as it was typed: the value lies in [n, n + 1), strictly     *)
(* above n when frac holds; "tail" is a number with text after it.            *)
Raw == [is : {"absent", "empty", "junk", "tail", "number"}, n : Int, frac : BOOLEAN]

Number(n, frac) == [is |-> "number", n |-> n, frac |-> frac]
NotGiven(kind) == [is |-> kind, n |-> 0, frac |-> FALSE]

(* What a class field demands of a number.  "parsed" fields go through        *)
(* parseInt or parseFloat with a fallback, "strict" ones through Number().    *)
Rule(conv, whole, lo, hi, dflt) ==
    [conv |-> conv, whole |-> whole, lo |-> lo, hi |-> hi, dflt |-> dflt]

(* Decimals are counted in hundredths (emoWeight, topP, temperature,          *)
(* lengthPenalty, repetitionPenalty, guidanceScale, landmarkSmoothAlpha).     *)
TtsRules ==
    [emoControlMethod        |-> Rule("parsed", TRUE, 0, 3, 0),
     emoWeight               |-> Rule("parsed", FALSE, 0, 100, 65),
     maxTextTokensPerSegment |-> Rule("parsed", TRUE, 20, 600, 120),
     intervalSilence         |-> Rule("parsed", TRUE, 0, 5000, 200),
     topP                    |-> Rule("parsed", FALSE, 0, 100, 80),
     topK                    |-> Rule("parsed", TRUE, 0, 100, 30),
     temperature             |-> Rule("parsed", FALSE, 10, 200, 80),
     lengthPenalty           |-> Rule("parsed", FALSE, -200, 200, 0),
     numBeams                |-> Rule("parsed", TRUE, 1, 10, 1),
     repetitionPenalty       |-> Rule("parsed", FALSE, 10, 2000, 1000),
     maxMelTokens            |-> Rule("parsed", TRUE, 50, 1815, 1500)]

LatentSyncRules ==
    [seed                |-> Rule("strict", TRUE, -1, 2147483647, 1247),
     inferenceSteps      |-> Rule("strict", TRUE, 1, 100, 20),
     guidanceScale       |-> Rule("strict", FALSE, 50, 500, 150),
     landmarkSmoothAlpha |-> Rule("strict", FALSE, 0, 100, 70)]

FlashHeadRules == [seed |-> Rule("strict", TRUE, 0, 2147483647, 42)]

LiveSliceRules ==
    [minDuration |-> Rule("parsed", TRUE, 5, 120, 15),
     maxDuration |-> Rule("parsed", TRUE, 10, 180, 60),
     maxClips    |-> Rule("parsed", TRUE, 1, 50, 20)]

(* fontSize has no validator but IsOptional: it is stored as it was typed.    *)
WatermarkRules == [fontSize |-> Rule("none", FALSE, 0, 0, 24)]

RulesOf(type) ==
    CASE type = "tts" -> TtsRules
      [] type = "latentsync" -> LatentSyncRules
      [] type = "flashhead" -> FlashHeadRules
      [] type = "live_slice" -> LiveSliceRules
      [] type = "watermark" -> WatermarkRules
      [] type = "subtitle" -> << >>

(* toOptionalInt and toOptionalFloat: parseInt cuts towards zero.             *)
Parsed(rule, raw) ==
    IF raw.is \notin {"number", "tail"} THEN Number(rule.dflt, FALSE)
    ELSE IF rule.whole THEN Number(IF raw.n < 0 /\ raw.frac THEN raw.n + 1 ELSE raw.n, FALSE)
    ELSE Number(raw.n, raw.frac)

(* Mutant: an empty field is converted like any other: Number('') is 0.       *)
EmptyIsZero(rule, raw) ==
    CASE raw.is = "absent" -> Number(rule.dflt, FALSE)
      [] raw.is = "empty" -> Number(0, FALSE)
      [] raw.is = "number" -> raw
      [] OTHER -> NotGiven("junk")

(* value === '' ? undefined : Number(value), and the service's ?? default.    *)
Strict(rule, raw) ==
    CASE raw.is \in {"absent", "empty"} -> Number(rule.dflt, FALSE)
      [] raw.is = "number" -> raw
      [] OTHER -> NotGiven("junk")

Converted(rule, raw) ==
    CASE rule.conv = "parsed" -> Parsed(rule, raw)
      [] rule.conv = "strict" -> Strict(rule, raw)
      [] OTHER -> IF raw.is = "absent" THEN Number(rule.dflt, FALSE) ELSE raw

(* Mutant: the bounds of a number are not looked at.                          *)
NoBounds(rule, value) == value.is = "number"

(* @IsInt or @IsNumber, @Min and @Max on the converted value.                 *)
Within(rule, value) ==
    /\ value.is = "number"
    /\ rule.whole => ~value.frac
    /\ value.n >= rule.lo
    /\ value.n < rule.hi \/ (value.n = rule.hi /\ ~value.frac)
Valid(rule, value) == rule.conv = "none" \/ Within(rule, value)

Filled(form) == [f \in DOMAIN form.fields |-> Converted(RulesOf(form.type)[f], form.fields[f])]

(* An upload: was the part sent, has it bytes, and the class that its mime    *)
(* type and its file name extension are listed in.                            *)
NoFile == [sent |-> FALSE, bytes |-> FALSE, mime |-> "none", ext |-> "none"]
File(mime, ext) == [sent |-> TRUE, bytes |-> TRUE, mime |-> mime, ext |-> ext]
EmptyFile(mime, ext) == [File(mime, ext) EXCEPT !.bytes = FALSE]
IsA(file, class) == file.bytes /\ (file.mime = class \/ file.ext = class)

(* parseEmoVector: nothing, a refusal, or eight numbers between 0 and 1.      *)
VectorRefused(form) == form.vector \in {"notJson", "notEight", "outside"}
VectorGiven(form) == form.vector = "eight"

(* parseLiveSliceCartItems: each item is an object with a title.              *)
CartRefused(form) ==
    \/ form.cart.is \in {"notJson", "notArray"}
    \/ \E i \in DOMAIN form.cart.items : form.cart.items[i] # "titled"

(* The files that the controller and the service demand of each type.         *)
FilesFit(form) ==
    CASE form.type = "tts" ->
            /\ IsA(form.main, "audio")
            /\ Filled(form).emoControlMethod.n = 1 => IsA(form.second, "audio")
      [] form.type = "flashhead" -> IsA(form.main, "image") /\ IsA(form.second, "audio")
      [] form.type = "latentsync" -> IsA(form.main, "video") /\ IsA(form.second, "audio")
      [] OTHER -> IsA(form.main, "video")

(* The class-validator checks that run before the handler.                    *)
FormValid(form) ==
    /\ \A f \in DOMAIN form.fields : Valid(RulesOf(form.type)[f], Filled(form)[f])
    /\ form.choice \in {"absent", "listed"}
    /\ form.type \in {"tts", "watermark"} => form.text \in {"blank", "fits"}

TtsFits(form) ==
    /\ ~VectorRefused(form)
    /\ Filled(form).emoControlMethod.n = 2 => VectorGiven(form)

SliceFits(form) ==
    /\ Filled(form).minDuration.n <= Filled(form).maxDuration.n
    /\ ~CartRefused(form)

Accepted(form) ==
    /\ FormValid(form)
    /\ FilesFit(form)
    /\ form.type = "tts" => TtsFits(form)
    /\ form.type = "live_slice" => SliceFits(form)

(* The files that a created job has on the disk: emoFile is saved whenever    *)
(* it was sent, whatever the method.                                          *)
SavesSecond(form) == form.type \in {"flashhead", "latentsync"} \/ (form.type = "tts" /\ form.second.sent)
SavedFiles(form) == {"main"} \cup (IF SavesSecond(form) THEN {"second"} ELSE {})

(* The keys that the job keeps: inputKey in its row, the others in params.    *)
JobKeys(form) ==
    [inputKey |-> "main",
     emoInputKey |-> IF form.type = "tts" /\ SavesSecond(form) THEN "second" ELSE "none",
     audioInputKey |-> IF form.type # "tts" /\ SavesSecond(form) THEN "second" ELSE "none"]

(* Mutant: the emotion reference is not among the deleted.                    *)
WithoutEmotion(keys) == {keys.inputKey, keys.audioInputKey} \ {"none"}

(* deleteInputArtifact gathers the keys it finds and deletes each.            *)
DeletedFiles(keys) == {keys.inputKey, keys.emoInputKey, keys.audioInputKey} \ {"none"}

(* ------------------------------ the worker ------------------------------- *)

(* int(params["fontSize"]) on what was typed.                                 *)
PythonInt(value) == value.is = "number" /\ ~value.frac

(* The checks of the runners before any model runs.                           *)
WorkerTakes(form) ==
    LET params == Filled(form)  keys == JobKeys(form)
    IN  CASE form.type = "watermark" -> PythonInt(params.fontSize)
          [] form.type = "subtitle" -> TRUE
          [] form.type = "live_slice" ->
                params.minDuration.n <= params.maxDuration.n /\ params.maxClips.n > 0
          [] form.type = "tts" ->
                /\ form.text # "blank"
                /\ params.emoControlMethod.n \in 0 .. 3
                /\ params.emoControlMethod.n = 1 => keys.emoInputKey # "none"
                /\ params.emoControlMethod.n = 2 => VectorGiven(form)
          [] form.type = "flashhead" -> keys.audioInputKey # "none" /\ form.choice # "other"
          [] form.type = "latentsync" -> keys.audioInputKey # "none"

(* ------------------------- the advertised schema ------------------------- *)

Span(lo, hi, dflt) == [lo |-> lo, hi |-> hi, dflt |-> dflt]

TtsSchema ==
    [emoControlMethod        |-> Span(0, 3, 0),
     emoWeight               |-> Span(0, 100, 65),
     maxTextTokensPerSegment |-> Span(20, 600, 120),
     intervalSilence         |-> Span(0, 5000, 200),
     topP                    |-> Span(0, 100, 80),
     topK                    |-> Span(0, 100, 30),
     temperature             |-> Span(10, 200, 80),
     lengthPenalty           |-> Span(-200, 200, 0),
     numBeams                |-> Span(1, 10, 1),
     repetitionPenalty       |-> Span(10, 2000, 1000),
     maxMelTokens            |-> Span(50, 1815, 1500)]

LatentSyncSchema ==
    [seed                |-> Span(-1, 2147483647, 1247),
     inferenceSteps      |-> Span(1, 100, 20),
     guidanceScale       |-> Span(50, 500, 150),
     landmarkSmoothAlpha |-> Span(0, 100, 70)]

FlashHeadSchema == [seed |-> Span(0, 2147483647, 42)]

SchemaOf(type) ==
    CASE type = "tts" -> TtsSchema
      [] type = "latentsync" -> LatentSyncSchema
      [] type = "flashhead" -> FlashHeadSchema
      [] OTHER -> << >>
==============================================================================
