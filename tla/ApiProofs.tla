------------------------------ MODULE ApiProofs ------------------------------
(* The safety of the publish drafts for any number of drafts, assets,        *)
(* platforms and requests; what a content endpoint serves, for files of any  *)
(* size, every Range header, and a file that is rewritten or removed at any  *)
(* moment; and what the job endpoints and the upload endpoints promise.      *)
EXTENDS ApiInputs, PublishDraft, WellFoundedInduction, FiniteSetTheorems, TLAPS

(* -------------------------- the content endpoint -------------------------- *)

(* A range as the arithmetic takes it: open sides or natural numbers.         *)
LEMMA RangeSides ==
  ASSUME NEW range \in Ranges
  PROVE  /\ range.first = Blank \/ range.first \in Nat
         /\ range.last = Blank \/ range.last \in Nat
  BY OffsetsAreNatural DEF Ranges

(* openStreamWithRange: start and end are bytes of a file that has any, in    *)
(* order.                                                                     *)
LEMMA SidesInFile ==
  ASSUME NEW size \in Nat \ {0}, NEW range \in Ranges
  PROVE  /\ StartOf(size, range) \in 0 .. size - 1
         /\ EndOf(size, range) \in StartOf(size, range) .. size - 1
<1>1. range.first = Blank \/ range.first \in Nat
  BY RangeSides
<1>2. range.last = Blank \/ range.last \in Nat
  BY RangeSides
<1>3. StartOf(size, range) \in 0 .. size - 1
  BY <1>1 DEF StartOf, Blank
<1>4. EndOf(size, range) \in StartOf(size, range) .. size - 1
  BY <1>2, <1>3 DEF EndOf, Lesser, Blank
<1> QED
  BY <1>3, <1>4

(* An empty file has no byte: a range of it starts and ends at its first.     *)
LEMMA SidesOfEmpty ==
  ASSUME NEW range \in Ranges
  PROVE  StartOf(0, range) = 0 /\ EndOf(0, range) = 0
<1>1. StartOf(0, range) = 0
  BY RangeSides DEF StartOf, Blank
<1>2. EndOf(0, range) = 0
  BY <1>1, RangeSides DEF EndOf, Lesser, Blank
<1> QED
  BY <1>1, <1>2

(* A range that can be satisfied is cut at the file's last byte only.         *)
LEMMA SatisfiedRange ==
  ASSUME NEW size \in Nat \ {0}, NEW range \in Ranges, Satisfiable(size, range)
  PROVE  /\ StartOf(size, range) = range.first
         /\ EndOf(size, range) = IF range.last = Blank THEN size - 1
                                 ELSE Lesser(range.last, size - 1)
<1>1. /\ range.first \in Nat /\ range.first < size
      /\ range.last = Blank \/ (range.last \in Nat /\ range.first <= range.last)
  BY RangeSides DEF Satisfiable
<1>2. StartOf(size, range) = range.first
  BY <1>1 DEF StartOf, Blank
<1> QED
  BY <1>1, <1>2 DEF EndOf, Lesser, Blank

(* The headers of every answer are numbers.                                   *)
LEMMA AnsweredType ==
  ASSUME NEW place \in Stores, NEW size \in Nat, NEW range \in Ranges
  PROVE  Answered(place, size, range) \in Promises
<1>1. StartOf(size, range) \in Int /\ EndOf(size, range) \in Int
  BY SidesInFile, SidesOfEmpty
<1> QED
  BY <1>1 DEF Answered, Piece, Whole, Promise, Promises

(* The stream's length is a number.                                           *)
LEMMA BytesType ==
  ASSUME NEW size \in Nat, NEW p \in Promises
  PROVE  Bytes(size, p) \in Int
  BY DEF Bytes, Lesser, Promises

(* No request has the type of one.                                            *)
LEMMA IdleType == NoGet \in GetStates
<1>1. NoRange \in Ranges
  BY DEF NoRange, Ranges
<1>2. NoPromise \in Promises
  BY DEF NoPromise, Promise, Promises
<1> QED
  BY <1>1, <1>2 DEF NoGet, GetStates, GetSteps, Stores

(* The invariant holds at first.                                              *)
LEMMA ServedInit == GetInit => ServedInv
<1>1. NoGet.at = "idle"
  BY DEF NoGet
<1> QED
  BY <1>1, IdleType DEF GetInit, ServedInv, ServedTypeOK, MeasuredInv, Answering

(* Each step of the request and each change of the file keeps it.             *)
LEMMA ServedStep == ServedInv /\ [GetNext]_getVars => ServedInv'
<1> SUFFICES ASSUME ServedInv, [GetNext]_getVars
             PROVE  ServedInv'
  OBVIOUS
<1> USE DEF ServedInv, ServedTypeOK, MeasuredInv, Answering
<1>1. ASSUME NEW place \in Stores, NEW link \in Links, NEW range \in Ranges,
             Ask(place, link, range)
      PROVE  ServedInv'
  <2>1. get' \in GetStates
    BY <1>1, IdleType DEF Ask, GetStates, GetSteps
  <2>2. get'.at \in {"verified", "refused"}
    BY <1>1, IdleType DEF Ask, GetStates
  <2> QED
    BY <1>1, <2>1, <2>2 DEF Ask
<1>2. CASE Measure
  <2>1. CASE disk = Gone
    BY <1>2, <2>1 DEF Measure, GetStates, GetSteps
  <2>2. CASE disk # Gone
    <3>1. disk \in Sizes /\ disk \in Nat
      BY <2>2, SizesAreNatural
    <3>2. Answered(get.store, disk, get.range) \in Promises
      BY <3>1, AnsweredType DEF GetStates
    <3> QED
      BY <1>2, <2>2, <3>1, <3>2 DEF Measure, GetStates, GetSteps
  <2> QED
    BY <2>1, <2>2
<1>3. CASE Stream
  <2>1. CASE disk = Gone
    BY <1>3, <2>1 DEF Stream, GetStates, GetSteps
  <2>2. CASE disk # Gone
    <3>1. disk \in Nat
      BY <2>2, SizesAreNatural
    <3>2. Bytes(disk, get.promise) \in Int
      BY <3>1, BytesType DEF GetStates
    <3> QED
      BY <1>3, <2>2, <3>2 DEF Stream, GetStates, GetSteps
  <2> QED
    BY <2>1, <2>2
<1>4. ASSUME NEW size \in Sizes \cup {Gone}, Change(size)
      PROVE  ServedInv'
  BY <1>4 DEF Change
<1>5. CASE Close
  BY <1>5, IdleType DEF Close, NoGet
<1>6. CASE UNCHANGED getVars
  <2>1. disk' = disk /\ get' = get /\ touched' = touched
    BY <1>6 DEF getVars
  <2> QED
    BY <2>1
<1> QED
  BY <1>1, <1>2, <1>3, <1>4, <1>5, <1>6 DEF GetNext

(* Of the content endpoint alone.                                             *)
LEMMA ServedAlone == GetSpec => []ServedInv
<1> QED
  BY ServedInit, ServedStep, PTL DEF GetSpec

(* The content endpoint of ServedFile is one of the API's.                    *)
LEMMA ContentIsServed == InputSpec => GetSpec
<1>1. InputInit => GetInit
  BY DEF InputInit
<1>2. [InputNext]_allVars => [GetNext]_getVars
  BY DEF InputNext, CreateJob, SendDraft, Slice, Upload, Content, Send, allVars, getVars
<1> QED
  BY <1>1, <1>2, PTL DEF InputSpec, GetSpec

(* The inductive invariant holds in every reachable state.                    *)
THEOREM ServedInvariance == InputSpec => []ServedInv
<1> QED
  BY ServedAlone, ContentIsServed, PTL

(* Every variable keeps its type.                                             *)
THEOREM ServedTypeCorrect == InputSpec => []ServedTypeOK
<1>1. ServedInv => ServedTypeOK
  BY DEF ServedInv
<1> QED
  BY <1>1, ServedInvariance, PTL

(* Whatever a Range header names, the bytes that are promised lie in the file *)
(* that was measured, and a range that can be satisfied gets what it names.   *)
THEOREM PieceRight == InputSpec => []PieceServed
<1>1. ServedInv => PieceServed
  <2> SUFFICES ASSUME ServedInv, Answering, get.size > 0
               PROVE  PieceServed
    BY DEF PieceServed
  <2> USE DEF ServedInv, ServedTypeOK, MeasuredInv
  <2>1. /\ get.size \in Nat \ {0} /\ get.range \in Ranges
        /\ get.promise = Answered(get.store, get.size, get.range)
    <3>1. get.size \in Sizes /\ get.promise = Answered(get.store, get.size, get.range)
      OBVIOUS
    <3>2. get.range \in Ranges
      BY DEF GetStates
    <3>3. get.size \in Nat
      BY <3>1, SizesAreNatural
    <3> HIDE DEF ServedInv
    <3> QED
      BY <3>1, <3>2, <3>3
  <2>2. /\ StartOf(get.size, get.range) \in 0 .. get.size - 1
        /\ EndOf(get.size, get.range) \in StartOf(get.size, get.range) .. get.size - 1
    BY <2>1, SidesInFile
  <2>3. CASE get.store # "draft" /\ get.range.is = "bytes"
    <3>1. get.promise = Piece(get.size, get.range)
      BY <2>1, <2>3 DEF Answered
    <3>2. /\ get.promise.status = 206
          /\ get.promise.start = StartOf(get.size, get.range)
          /\ get.promise.end = EndOf(get.size, get.range)
          /\ get.promise.length = EndOf(get.size, get.range) - StartOf(get.size, get.range) + 1
      BY <3>1 DEF Piece, Promise
    <3>3. Satisfiable(get.size, get.range) =>
            /\ StartOf(get.size, get.range) = get.range.first
            /\ EndOf(get.size, get.range) = IF get.range.last = Blank THEN get.size - 1
                                            ELSE Lesser(get.range.last, get.size - 1)
      BY <2>1, SatisfiedRange
    <3> QED
      BY <2>1, <2>2, <3>2, <3>3 DEF PieceServed
  <2>4. CASE ~(get.store # "draft" /\ get.range.is = "bytes")
    BY <2>1, <2>4 DEF Answered, Whole, Promise, PieceServed, Satisfiable
  <2> QED
    BY <2>3, <2>4
<1> QED
  BY <1>1, ServedInvariance, PTL

(* The body has the length that was announced, unless the file was touched    *)
(* between the stat and the stream or is empty and a range of it was asked.   *)
THEOREM LengthKept == InputSpec => []BodyAsPromised
<1>1. ServedInv => BodyAsPromised
  <2> SUFFICES ASSUME ServedInv, get.at = "sent", get.store # "draft", ~touched,
                      ~(get.size = 0 /\ get.promise.status = 206)
               PROVE  get.body = get.promise.length
    BY DEF BodyAsPromised
  <2> USE DEF ServedInv, ServedTypeOK, MeasuredInv, Answering
  <2>1. /\ get.size \in Nat /\ get.range \in Ranges
        /\ get.promise = Answered(get.store, get.size, get.range)
        /\ get.body = Bytes(get.size, get.promise)
    BY SizesAreNatural DEF GetStates
  <2>2. CASE get.range.is = "bytes"
    <3>1. get.promise = Piece(get.size, get.range)
      BY <2>1, <2>2 DEF Answered
    <3>2. /\ get.promise.status = 206
          /\ get.promise.start = StartOf(get.size, get.range)
          /\ get.promise.end = EndOf(get.size, get.range)
          /\ get.promise.length = EndOf(get.size, get.range) - StartOf(get.size, get.range) + 1
      BY <3>1 DEF Piece, Promise
    <3>3. get.size \in Nat \ {0}
      BY <2>1, <3>2
    <3>4. /\ StartOf(get.size, get.range) \in 0 .. get.size - 1
          /\ EndOf(get.size, get.range) \in StartOf(get.size, get.range) .. get.size - 1
      BY <2>1, <3>3, SidesInFile
    <3> QED
      BY <2>1, <3>2, <3>3, <3>4 DEF Bytes, Lesser
  <2>3. CASE get.range.is # "bytes"
    BY <2>1, <2>3 DEF Answered, Whole, Promise, Bytes
  <2> QED
    BY <2>2, <2>3
<1> QED
  BY <1>1, ServedInvariance, PTL

(* ------------------------------- the inputs ------------------------------- *)

(* A rule: its bounds and its default are whole numbers.                      *)
IsRule(rule) ==
    /\ rule.conv \in {"parsed", "strict", "none"}
    /\ rule.lo \in Int /\ rule.hi \in Int /\ rule.dflt \in Int

(* The rules of each type, field by field.                                    *)
LEMMA RuleFields ==
  /\ \A f \in DOMAIN RulesOf("tts") : IsRule(RulesOf("tts")[f])
  /\ \A f \in DOMAIN RulesOf("latentsync") : IsRule(RulesOf("latentsync")[f])
  /\ \A f \in DOMAIN RulesOf("flashhead") : IsRule(RulesOf("flashhead")[f])
  /\ \A f \in DOMAIN RulesOf("live_slice") : IsRule(RulesOf("live_slice")[f])
  /\ \A f \in DOMAIN RulesOf("watermark") : IsRule(RulesOf("watermark")[f])
  /\ DOMAIN RulesOf("subtitle") = {}
<1>1. \A f \in DOMAIN TtsRules : IsRule(TtsRules[f])
  BY DEF TtsRules, IsRule, Rule
<1>2. \A f \in DOMAIN LatentSyncRules : IsRule(LatentSyncRules[f])
  BY SMT DEF LatentSyncRules, IsRule, Rule
<1>3. \A f \in DOMAIN FlashHeadRules : IsRule(FlashHeadRules[f])
  BY SMT DEF FlashHeadRules, IsRule, Rule
<1>4. \A f \in DOMAIN LiveSliceRules : IsRule(LiveSliceRules[f])
  BY DEF LiveSliceRules, IsRule, Rule
<1>5. \A f \in DOMAIN WatermarkRules : IsRule(WatermarkRules[f])
  BY DEF WatermarkRules, IsRule, Rule
<1>6. /\ RulesOf("tts") = TtsRules /\ RulesOf("latentsync") = LatentSyncRules
      /\ RulesOf("flashhead") = FlashHeadRules /\ RulesOf("live_slice") = LiveSliceRules
      /\ RulesOf("watermark") = WatermarkRules /\ RulesOf("subtitle") = << >>
  BY DEF RulesOf
<1> QED
  BY <1>1, <1>2, <1>3, <1>4, <1>5, <1>6

(* So every field of every type has a rule.                                   *)
LEMMA RulesAreRules ==
  ASSUME NEW type \in Types, NEW f \in DOMAIN RulesOf(type)
  PROVE  IsRule(RulesOf(type)[f])
  BY RuleFields DEF Types

(* What a schema advertises of a field is what the class that checks it       *)
(* demands, and the default lies in the range.                                *)
SameBounds(rule, span) ==
    /\ span.lo = rule.lo /\ span.hi = rule.hi /\ span.dflt = rule.dflt
    /\ rule.lo <= rule.dflt /\ rule.dflt <= rule.hi
    /\ rule.conv \in {"parsed", "strict"}

(* The params endpoint advertises each field of a type with the bounds and    *)
(* the default of the class that checks it.                                   *)
LEMMA SchemaBounds ==
  ASSUME NEW type \in Types, NEW f \in DOMAIN SchemaOf(type)
  PROVE  f \in DOMAIN RulesOf(type) /\ SameBounds(RulesOf(type)[f], SchemaOf(type)[f])
<1>1. CASE type = "tts"
  <2>1. f \in DOMAIN TtsSchema /\ SchemaOf(type) = TtsSchema /\ RulesOf(type) = TtsRules
    BY <1>1 DEF SchemaOf, RulesOf
  <2>2. f \in DOMAIN TtsRules /\ SameBounds(TtsRules[f], TtsSchema[f])
    BY <2>1 DEF TtsRules, TtsSchema, SameBounds, Rule, Span
  <2> QED
    BY <2>1, <2>2
<1>2. CASE type = "latentsync"
  <2>1. f \in DOMAIN LatentSyncSchema /\ SchemaOf(type) = LatentSyncSchema /\ RulesOf(type) = LatentSyncRules
    BY <1>2 DEF SchemaOf, RulesOf
  <2> QED
    BY <2>1, SMT DEF LatentSyncRules, LatentSyncSchema, SameBounds, Rule, Span
<1>3. CASE type = "flashhead"
  <2>1. f \in DOMAIN FlashHeadSchema /\ SchemaOf(type) = FlashHeadSchema /\ RulesOf(type) = FlashHeadRules
    BY <1>3 DEF SchemaOf, RulesOf
  <2> QED
    BY <2>1, SMT DEF FlashHeadRules, FlashHeadSchema, SameBounds, Rule, Span
<1>4. CASE type \notin {"tts", "latentsync", "flashhead"}
  BY <1>4 DEF SchemaOf
<1> QED
  BY <1>1, <1>2, <1>3, <1>4

(* A typed number in the range passes the check unchanged; one left out       *)
(* becomes the default.                                                       *)
LEMMA InvitedPasses ==
  ASSUME NEW rule, IsRule(rule), NEW span, SameBounds(rule, span), NEW raw \in Raw,
         \/ raw.is \in {"absent", "empty"}
         \/ raw.is = "number" /\ ~raw.frac /\ span.lo <= raw.n /\ raw.n <= span.hi
  PROVE  /\ Within(rule, Converted(rule, raw))
         /\ Converted(rule, raw).n = IF raw.is = "number" THEN raw.n ELSE span.dflt
<1> DEFINE value == Converted(rule, raw)
<1>1. CASE raw.is \in {"absent", "empty"}
  <2>1. value = Number(rule.dflt, FALSE)
    <3>1. raw.is \notin {"number", "tail"} /\ raw.is \in {"absent", "empty"}
      BY <1>1
    <3>2. Parsed(rule, raw) = Number(rule.dflt, FALSE)
      BY <3>1 DEF Parsed
    <3>3. Strict(rule, raw) = Number(rule.dflt, FALSE)
      BY <3>1 DEF Strict
    <3> QED
      BY <3>2, <3>3 DEF SameBounds, Converted
  <2>2. value.n = rule.dflt /\ value.is = "number" /\ ~value.frac
    BY <2>1 DEF Number
  <2> HIDE DEF value
  <2>3. Within(rule, value)
    BY <2>2 DEF Within, SameBounds, IsRule
  <2> QED
    BY <1>1, <2>2, <2>3 DEF SameBounds, value
<1>2. CASE raw.is = "number" /\ ~raw.frac /\ span.lo <= raw.n /\ raw.n <= span.hi
  <2>1. value.n = raw.n /\ value.is = "number" /\ ~value.frac
    BY <1>2 DEF SameBounds, Converted, Parsed, Strict, Number
  <2>2. raw.n \in Int /\ rule.lo \in Int /\ rule.hi \in Int
    BY DEF Raw, IsRule
  <2>3. rule.lo <= value.n /\ value.n <= rule.hi
    BY <1>2, <2>1 DEF SameBounds
  <2> HIDE DEF value
  <2>4. Within(rule, value)
    BY <2>1, <2>2, <2>3 DEF Within
  <2> QED
    BY <1>2, <2>1, <2>4 DEF value
<1> QED
  BY <1>1, <1>2

(* What passes the check lies in the range.                                   *)
LEMMA WithinSpan ==
  ASSUME NEW rule, IsRule(rule), NEW raw \in Raw, Within(rule, Converted(rule, raw)),
         rule.conv \in {"parsed", "strict"}
  PROVE  /\ Converted(rule, raw).n \in Int
         /\ rule.lo <= Converted(rule, raw).n /\ Converted(rule, raw).n <= rule.hi
<1>1. Converted(rule, raw).n \in Int
  BY DEF Converted, Parsed, Strict, Number, NotGiven, Raw, IsRule
<1> QED
  BY <1>1 DEF Within, IsRule

(* The number of a field, for a form of any shape.                            *)
LEMMA FilledField ==
  ASSUME NEW sent, JobFormShape(sent), NEW f \in DOMAIN RulesOf(sent.type)
  PROVE  /\ sent.type \in Types /\ f \in DOMAIN sent.fields
         /\ sent.fields[f] \in Raw
         /\ IsRule(RulesOf(sent.type)[f])
         /\ Filled(sent)[f] = Converted(RulesOf(sent.type)[f], sent.fields[f])
  BY RulesAreRules DEF JobFormShape, Filled

(* A number of an accepted form is within the bounds of its field.            *)
LEMMA AcceptedField ==
  ASSUME NEW sent, JobFormShape(sent), Accepted(sent), NEW f \in DOMAIN RulesOf(sent.type),
         RulesOf(sent.type)[f].conv \in {"parsed", "strict"}
  PROVE  /\ Filled(sent)[f].n \in Int
         /\ RulesOf(sent.type)[f].lo <= Filled(sent)[f].n
         /\ Filled(sent)[f].n <= RulesOf(sent.type)[f].hi
<1>1. Valid(RulesOf(sent.type)[f], Filled(sent)[f])
  BY FilledField DEF Accepted, FormValid
<1>2. Within(RulesOf(sent.type)[f], Filled(sent)[f])
  BY <1>1 DEF Valid
<1> QED
  BY <1>2, FilledField, WithinSpan

(* ------------------------- the forms that are sent ------------------------ *)

(* What CreateJob types is something that can be typed.                       *)
LEMMA RawNumbers ==
  /\ \A n \in Int, frac \in BOOLEAN : Number(n, frac) \in Raw
  /\ \A kind \in {"absent", "empty", "junk"} : NotGiven(kind) \in Raw
  BY DEF Number, NotGiven, Raw

(* The numbers that are tried on a field.                                     *)
LEMMA TypedAreRaw ==
  ASSUME NEW rule, IsRule(rule)
  PROVE  TypedNumbers(rule) \subseteq Raw
<1>1. NearBounds(rule) \subseteq Int
  BY DEF NearBounds, IsRule
<1>2. Trailed(rule.dflt) \in Raw
  BY DEF Trailed, Raw, IsRule
<1>3. ASSUME NEW x \in TypedNumbers(rule)
      PROVE  x \in Raw
  <2>1. CASE x \in {Number(n, frac) : n \in NearBounds(rule), frac \in BOOLEAN}
    BY ONLY <2>1, <1>1, RawNumbers
  <2>2. CASE x \in {NotGiven("absent"), NotGiven("empty"), NotGiven("junk")}
    BY ONLY <2>2, RawNumbers
  <2>3. CASE x = Trailed(rule.dflt)
    BY ONLY <2>3, <1>2
  <2> QED
    <3>1. \/ x \in {NotGiven("absent"), NotGiven("empty"), NotGiven("junk")}
          \/ x = Trailed(rule.dflt)
          \/ x \in {Number(n, frac) : n \in NearBounds(rule), frac \in BOOLEAN}
      BY x \in TypedNumbers(rule) DEF TypedNumbers
    <3> QED
      BY ONLY <3>1, <2>1, <2>2, <2>3
<1> QED
  BY ONLY <1>3

(* One field is typed and the others are left out.                            *)
LEMMA OneFieldTyped ==
  ASSUME NEW type \in Types, NEW f, NEW raw \in Raw
  PROVE  OneField(type, f, raw) \in [DOMAIN RulesOf(type) -> Raw]
  BY RawNumbers DEF OneField

(* The fields of the forms that vary one number.                              *)
LEMMA FieldFormsTyped ==
  ASSUME NEW type \in Types
  PROVE  FieldForms(type) \subseteq [DOMAIN RulesOf(type) -> Raw]
<1>1. UNION {TypedNumbers(RulesOf(type)[g]) : g \in DOMAIN RulesOf(type)} \subseteq Raw
  BY RulesAreRules, TypedAreRaw
<1> QED
  BY <1>1, OneFieldTyped DEF FieldForms

(* A part that has bytes was sent.                                            *)
IsPart(part) == part.bytes => part.sent

(* The uploads that CreateJob sends are parts of a form.                      *)
LEMMA UploadsAreParts ==
  IsPart(NoFile) /\ IsPart(GoodSecond) /\ \A part \in Uploads("audio") : IsPart(part)
<1>1. ASSUME NEW mime, NEW ext
      PROVE  IsPart(File(mime, ext)) /\ IsPart(EmptyFile(mime, ext))
  BY DEF File, EmptyFile, IsPart
<1>2. IsPart(NoFile)
  BY DEF NoFile, IsPart
<1> QED
  BY <1>1, <1>2 DEF Uploads, GoodSecond

(* The members of a form that its shape is about.                             *)
LEMMA JobFormOf ==
  ASSUME NEW type \in Types, NEW fields \in [DOMAIN RulesOf(type) -> Raw],
         NEW main, NEW second, IsPart(second)
  PROVE  JobFormShape(JobForm(type, fields, main, second))
  BY DEF JobForm, JobFormShape, IsPart

(* A form in which no number is typed.                                        *)
LEMMA UntypedIsTyped ==
  ASSUME NEW type \in Types
  PROVE  Untyped(type) \in [DOMAIN RulesOf(type) -> Raw]
  BY RawNumbers, OneFieldTyped DEF Untyped

(* The forms that vary the uploads, ...                                       *)
LEMMA PartFormShaped ==
  ASSUME NEW type \in Types, NEW main, NEW second, IsPart(second)
  PROVE  JobFormShape(PartForm(type, main, second))
  BY UntypedIsTyped, JobFormOf DEF PartForm

(* The shape is one of three members of a form.                               *)
LEMMA SameShape ==
  ASSUME NEW sent, NEW plain, JobFormShape(plain),
         sent.type = plain.type, sent.fields = plain.fields, sent.second = plain.second
  PROVE  JobFormShape(sent)
  BY DEF JobFormShape

(* ... the text and the choice, ...                                           *)
LEMMA TextFormShaped ==
  ASSUME NEW type \in Types, NEW text, NEW choice
  PROVE  JobFormShape(TextForm(type, text, choice))
<1> PICK plain : plain = PartForm(type, GoodMain(type), GoodSecond)
  OBVIOUS
<1>1. JobFormShape(plain)
  BY UploadsAreParts, PartFormShaped
<1> PICK sent : sent = TextForm(type, text, choice)
  OBVIOUS
<1>2. sent.type = plain.type /\ sent.fields = plain.fields /\ sent.second = plain.second
  BY DEF TextForm, PartForm, JobForm
<1> QED
  BY <1>1, <1>2, SameShape

(* ... the speech method, ...                                                 *)
LEMMA SpeechFormShaped ==
  ASSUME NEW method \in 0 .. 3, NEW second, IsPart(second), NEW vector
  PROVE  JobFormShape(SpeechForm(method, second, vector))
<1> PICK fields : fields = OneField("tts", "emoControlMethod", Number(method, FALSE))
  OBVIOUS
<1>1. method \in Int
  OBVIOUS
<1>2. "tts" \in Types /\ fields \in [DOMAIN RulesOf("tts") -> Raw]
  BY <1>1, RawNumbers, OneFieldTyped DEF Types
<1> PICK plain : plain = JobForm("tts", fields, GoodMain("tts"), second)
  OBVIOUS
<1>3. JobFormShape(plain)
  BY <1>2, JobFormOf
<1> PICK sent : sent = SpeechForm(method, second, vector)
  OBVIOUS
<1>4. sent.type = plain.type /\ sent.fields = plain.fields /\ sent.second = plain.second
  BY DEF SpeechForm, JobForm
<1> QED
  BY <1>3, <1>4, SameShape

(* ... and the lengths of the clips of a slicing job.                         *)
LEMMA SliceFormShaped ==
  ASSUME NEW lo \in Int, NEW hi \in Int, NEW cart
  PROVE  JobFormShape(SliceForm(lo, hi, cart))
<1> DEFINE fields == [minDuration |-> Number(lo, FALSE), maxDuration |-> Number(hi, FALSE),
                      maxClips |-> NotGiven("absent")]
<1>1. "live_slice" \in Types /\ IsPart(NoFile)
  BY UploadsAreParts DEF Types
<1>2. DOMAIN RulesOf("live_slice") = {"minDuration", "maxDuration", "maxClips"}
  BY DEF RulesOf, LiveSliceRules
<1>3. Number(lo, FALSE) \in Raw /\ Number(hi, FALSE) \in Raw /\ NotGiven("absent") \in Raw
  <2>1. FALSE \in BOOLEAN
    OBVIOUS
  <2> QED
    BY <2>1, RawNumbers
<1>4. ASSUME NEW low \in Raw, NEW high \in Raw, NEW most \in Raw
      PROVE  [minDuration |-> low, maxDuration |-> high, maxClips |-> most]
                 \in [{"minDuration", "maxDuration", "maxClips"} -> Raw]
  OBVIOUS
<1>5. fields \in [DOMAIN RulesOf("live_slice") -> Raw]
  BY <1>2, <1>3, <1>4
<1> HIDE DEF fields
<1> PICK plain : plain = JobForm("live_slice", fields, GoodMain("live_slice"), NoFile)
  OBVIOUS
<1>6. JobFormShape(plain)
  BY <1>1, <1>5, JobFormOf
<1> PICK sent : sent = SliceForm(lo, hi, cart)
  OBVIOUS
<1>7. sent.type = plain.type /\ sent.fields = plain.fields /\ sent.second = plain.second
  BY DEF SliceForm, JobForm, fields
<1> QED
  BY <1>6, <1>7, SameShape

(* Every form that CreateJob sends has the shape.                             *)
LEMMA JobFormsShaped ==
  ASSUME NEW sent \in JobForms
  PROVE  JobFormShape(sent)
<1>1. CASE sent \in NumberForms
  <2>1. PICK type \in Types : sent \in {NumberForm(type, fields) : fields \in FieldForms(type)}
    BY <1>1 DEF NumberForms
  <2>2. PICK fields \in FieldForms(type) : sent = NumberForm(type, fields)
    BY ONLY <2>1
  <2> QED
    BY <2>2, FieldFormsTyped, UploadsAreParts, JobFormOf DEF NumberForm
<1>2. CASE sent \in PartForms
  <2>1. PICK type \in Types, main \in UNION {Uploads(c) : c \in {"video", "audio", "image"}},
             second \in Uploads("audio") : sent = PartForm(type, main, second)
    BY <1>2 DEF PartForms
  <2> QED
    BY <2>1, UploadsAreParts, PartFormShaped
<1>3. CASE sent \in TextForms
  BY <1>3, TextFormShaped DEF TextForms
<1>4. CASE sent \in SpeechForms
  <2>1. PICK method \in 0 .. 3, second \in Uploads("audio"),
             vector \in {"absent", "blank", "notJson", "notEight", "outside", "eight"} :
               sent = SpeechForm(method, second, vector)
    BY <1>4 DEF SpeechForms
  <2> QED
    BY <2>1, UploadsAreParts, SpeechFormShaped
<1>5. CASE sent \in SliceForms
  <2>1. PICK lo \in {5, 60, 120}, hi \in {10, 60, 180}, cart \in Carts : sent = SliceForm(lo, hi, cart)
    BY <1>5 DEF SliceForms
  <2>2. lo \in Int /\ hi \in Int
    OBVIOUS
  <2> QED
    BY ONLY <2>1, <2>2, SliceFormShaped
<1> QED
  BY <1>1, <1>2, <1>3, <1>4, <1>5 DEF JobForms


(* ------------------- the drafts and recordings that are sent -------------- *)

(* An empty list is one of anything.                                          *)
LEMMA EmptyList ==
  << >> \in Seq(OverrideForms) /\ << >> \in Seq(Accounts) /\ << >> \in Seq(ItemForms)
  OBVIOUS

(* The overrides of a payload, ...                                            *)
LEMMA OverridesShaped == Overrides \subseteq Seq(OverrideForms)
<1>1. ASSUME NEW platform \in PlatformIds \cup {"other"}, NEW given \in BOOLEAN,
             NEW customized \in BOOLEAN, NEW title \in TextClasses, NEW cart \in CartClasses
      PROVE  Override(platform, given, customized, title, cart) \in OverrideForms
  BY DEF Override, OverrideForms
<1>2. /\ "none" \in CartClasses /\ "full" \in CartClasses
      /\ \A title \in {"none", "fits", "long"} : title \in TextClasses
      /\ "douyin" \in PlatformIds /\ "kuaishou" \in PlatformIds
  BY DEF CartClasses, TextClasses, PlatformIds
<1>3. ASSUME NEW a \in OverrideForms, NEW b \in OverrideForms
      PROVE  << >> \in Seq(OverrideForms) /\ << a >> \in Seq(OverrideForms) /\ << a, b >> \in Seq(OverrideForms)
  OBVIOUS
<1>4. << >> \in Seq(OverrideForms)
  OBVIOUS
<1>5. \A p \in PlatformIds \cup {"other"}, given \in BOOLEAN, customized \in BOOLEAN,
           title \in {"none", "fits", "long"} :
              AloneOverride(p, given, customized, title) \in Seq(OverrideForms)
  <2>1. ASSUME NEW p \in PlatformIds \cup {"other"}, NEW given \in BOOLEAN, NEW customized \in BOOLEAN,
               NEW title \in {"none", "fits", "long"}
        PROVE  AloneOverride(p, given, customized, title) \in Seq(OverrideForms)
    <3>1. Override(p, given, customized, title, "none") \in OverrideForms
      BY <1>1, <1>2
    <3> QED
      BY <1>3, <3>1 DEF AloneOverride
  <2> QED
    BY <2>1
<1>6. \A title \in {"none", "fits", "long"}, cart \in {"none", "full"} :
         BothOverrides(title, cart) \in Seq(OverrideForms)
  <2>1. ASSUME NEW title \in {"none", "fits", "long"}, NEW cart \in {"none", "full"}
        PROVE  BothOverrides(title, cart) \in Seq(OverrideForms)
    <3>1. /\ Override("douyin", FALSE, FALSE, "fits", "none") \in OverrideForms
          /\ Override("kuaishou", TRUE, TRUE, title, cart) \in OverrideForms
      BY <1>1, <1>2
    <3> QED
      BY <1>3, <3>1 DEF BothOverrides
  <2> QED
    BY <2>1
<1>7. ASSUME NEW x \in Overrides  PROVE x \in Seq(OverrideForms)
  <2>1. CASE x \in {AloneOverride(p, given, customized, title) :
                      p \in PlatformIds \cup {"other"}, given \in BOOLEAN,
                      customized \in BOOLEAN, title \in {"none", "fits", "long"}}
    BY ONLY <2>1, <1>5
  <2>2. CASE x \in {BothOverrides(title, cart) :
                      title \in {"none", "fits", "long"}, cart \in {"none", "full"}}
    BY ONLY <2>2, <1>6
  <2>3. CASE x = << >>
    BY ONLY <2>3, <1>4
  <2> QED
    <3>1. \/ x \in {AloneOverride(p, given, customized, title) :
                           p \in PlatformIds \cup {"other"}, given \in BOOLEAN,
                           customized \in BOOLEAN, title \in {"none", "fits", "long"}}
          \/ x \in {BothOverrides(title, cart) :
                           title \in {"none", "fits", "long"}, cart \in {"none", "full"}}
          \/ x = << >>
      BY x \in Overrides DEF Overrides
    <3> QED
      BY ONLY <3>1, <2>1, <2>2, <2>3
<1> QED
  BY <1>7

(* ... its accounts, ...                                                      *)
LEMMA ListsShaped == AccountLists \subseteq Seq(Accounts)
<1>1. ASSUME NEW x \in AccountLists, x # << >>  PROVE x \in Seq(Accounts)
  <2>1. PICK a \in Accounts, b \in Accounts : x = << a, b >>
    BY <1>1 DEF AccountLists
  <2> QED
    BY <2>1
<1> QED
  BY <1>1, EmptyList

(* ... an item and a payload with nothing in it, ...                          *)
LEMMA ItemShaped ==
  ASSUME NEW clientId \in ClientIds, NEW accounts \in Seq(Accounts)
  PROVE  Item(clientId, accounts) \in ItemForms
<1>1. "fits" \in TextClasses /\ "blank" \in DateClasses /\ "fits" \in PathClasses
  BY DEF TextClasses, DateClasses, PathClasses
<1> QED
  BY <1>1, EmptyList DEF Item, ItemForms

(* ... and so has a payload of items and accounts.                            *)
LEMMA PayloadShaped ==
  ASSUME NEW items \in Seq(ItemForms), NEW accounts \in Seq(Accounts)
  PROVE  Payload(items, accounts) \in PayloadForms
<1>1. "fits" \in TextClasses /\ "blank" \in DateClasses
  BY DEF TextClasses, DateClasses
<1> QED
  BY <1>1, EmptyList DEF Payload, PayloadForms

(* ... and either with one thing changed.                                     *)
LEMMA VariedCases ==
  ASSUME NEW part, NEW x \in Varied(part)
  PROVE  \/ \E title \in TextClasses, fit \in BOOLEAN : x = Worded(part, title, fit)
         \/ \E show \in BOOLEAN, at \in DateClasses : x = Scheduled(part, show, at)
         \/ \E overrides \in Overrides : x = Adapted(part, overrides)
<1>1. CASE x \in {Worded(part, title, fit) : title \in TextClasses, fit \in BOOLEAN}
  BY <1>1
<1>2. CASE x \in {Scheduled(part, show, at) : show \in BOOLEAN, at \in DateClasses}
  BY <1>2
<1>3. CASE x \in {Adapted(part, overrides) : overrides \in Overrides}
  BY <1>3
<1> QED
  BY <1>1, <1>2, <1>3 DEF Varied

(* A payload with one thing changed is a payload, ...                         *)
LEMMA VariedPayload ==
  ASSUME NEW part \in PayloadForms, NEW x \in Varied(part)
  PROVE  x \in PayloadForms
<1>1. CASE \E title \in TextClasses, fit \in BOOLEAN : x = Worded(part, title, fit)
  BY <1>1 DEF PayloadForms, Worded
<1>2. CASE \E show \in BOOLEAN, at \in DateClasses : x = Scheduled(part, show, at)
  BY <1>2 DEF PayloadForms, Scheduled
<1>3. CASE \E overrides \in Overrides : x = Adapted(part, overrides)
  BY <1>3, OverridesShaped DEF PayloadForms, Adapted
<1> QED
  BY <1>1, <1>2, <1>3, VariedCases

(* ... and an item with one thing changed an item.                            *)
LEMMA VariedItem ==
  ASSUME NEW part \in ItemForms, NEW x \in Varied(part)
  PROVE  x \in ItemForms
<1>1. CASE \E title \in TextClasses, fit \in BOOLEAN : x = Worded(part, title, fit)
  BY <1>1 DEF ItemForms, Worded
<1>2. CASE \E show \in BOOLEAN, at \in DateClasses : x = Scheduled(part, show, at)
  BY <1>2 DEF ItemForms, Scheduled
<1>3. CASE \E overrides \in Overrides : x = Adapted(part, overrides)
  BY <1>3, OverridesShaped DEF ItemForms, Adapted
<1> QED
  BY <1>1, <1>2, <1>3, VariedCases

(* A payload with one item, or with two.                                      *)
LEMMA ItemsShaped ==
  ASSUME NEW a \in ItemForms, NEW b \in ItemForms, NEW accounts \in Seq(Accounts)
  PROVE  Payload(<< a >>, accounts) \in PayloadForms /\ Payload(<< a, b >>, accounts) \in PayloadForms
<1>1. << a >> \in Seq(ItemForms)
  OBVIOUS
<1>2. << a, b >> \in Seq(ItemForms)
  OBVIOUS
<1> QED
  BY <1>1, <1>2, PayloadShaped

(* Every payload that SendDraft sends has the shape.                          *)
LEMMA PayloadsShaped == Payloads \subseteq PayloadForms
<1>1. ASSUME NEW text \in {""} \cup Ids, NEW padded \in BOOLEAN, NEW accounts \in Seq(Accounts)
      PROVE  Item(ClientId(text, padded), accounts) \in ItemForms
  <2>1. ClientId(text, padded) \in ClientIds
    BY DEF ClientId, ClientIds
  <2> QED
    BY <2>1, ItemShaped
<1>2. ASSUME NEW id \in Ids  PROVE Titled(id) \in ItemForms
  <2>1. id \in {""} \cup Ids /\ FALSE \in BOOLEAN
    OBVIOUS
  <2> QED
    BY ONLY <1>1, <2>1, EmptyList DEF Titled
<1>3. Payload(<< >>, << >>) \in PayloadForms
  BY EmptyList, PayloadShaped
<1>4. ASSUME NEW id \in Ids, NEW item \in Varied(Titled(id))
      PROVE  OneItem(item) \in PayloadForms
  <2>1. item \in ItemForms
    BY <1>2, VariedItem
  <2> QED
    BY ONLY <2>1, EmptyList, ItemsShaped DEF OneItem
<1>5. ASSUME NEW id \in Ids, NEW path \in PathClasses
      PROVE  OnePath(id, path) \in PayloadForms
  <2> PICK titled : titled = Titled(id)
    OBVIOUS
  <2> PICK item : item = [titled EXCEPT !.path = path]
    OBVIOUS
  <2>2. titled \in ItemForms
    BY <1>2
  <2>3. item \in ItemForms
    BY ONLY <2>2, item = [titled EXCEPT !.path = path], path \in PathClasses DEF ItemForms
  <2>4. OneItem(item) \in PayloadForms
    BY ONLY <2>3, EmptyList, ItemsShaped DEF OneItem
  <2> QED
    BY <2>4 DEF OnePath
<1>6. ASSUME NEW a \in ClientIds, NEW b \in ClientIds
      PROVE  TwoItems(a, b) \in PayloadForms
  <2>1. Item(a, << >>) \in ItemForms /\ Item(b, << >>) \in ItemForms
    BY EmptyList, ItemShaped
  <2> QED
    BY ONLY <2>1, EmptyList, ItemsShaped DEF TwoItems
<1>7. ASSUME NEW id \in Ids, NEW own \in AccountLists, NEW theirs \in AccountLists
      PROVE  OwnAndTheirs(id, own, theirs) \in PayloadForms
  <2>2. own \in Seq(Accounts) /\ theirs \in Seq(Accounts) /\ id \in {""} \cup Ids /\ TRUE \in BOOLEAN
    BY ListsShaped
  <2>3. Item(ClientId(id, TRUE), theirs) \in ItemForms
    BY ONLY <1>1, <2>2
  <2> QED
    BY ONLY <2>2, <2>3, ItemsShaped DEF OwnAndTheirs
<1>8. Crowded(Payload(<< >>, << >>)) \in PayloadForms
  <2> PICK plain : plain = Payload(<< >>, << >>)
    OBVIOUS
  <2>1. plain \in PayloadForms
    BY <1>3
  <2>2. Crowded(plain) \in PayloadForms
    BY <2>1 DEF PayloadForms, Crowded
  <2> QED
    BY <2>2
<1>9. Varied(Payload(<< >>, << >>)) \subseteq PayloadForms
  BY <1>3, VariedPayload
<1>10. {OneItem(item) : item \in UNION {Varied(Titled(id)) : id \in Ids}} \subseteq PayloadForms
  BY ONLY <1>4
<1>11. ASSUME NEW x \in Payloads  PROVE x \in PayloadForms
  <2>1. CASE x \in {OnePath(id, path) : id \in Ids, path \in PathClasses}
    BY ONLY <2>1, <1>5
  <2>2. CASE x \in {TwoItems(a, b) : a \in ClientIds, b \in ClientIds}
    BY ONLY <2>2, <1>6
  <2>3. CASE x \in {OwnAndTheirs(id, own, theirs) :
                        id \in Ids, own \in AccountLists, theirs \in AccountLists}
    BY ONLY <2>3, <1>7
  <2>4. CASE x \in {OneItem(item) : item \in UNION {Varied(Titled(id)) : id \in Ids}}
    BY ONLY <2>4, <1>10
  <2>5. CASE x \in Varied(Payload(<< >>, << >>)) \/ x = Crowded(Payload(<< >>, << >>))
    BY ONLY <2>5, <1>8, <1>9
  <2> QED
    <3>1. \/ x \in {OnePath(id, path) : id \in Ids, path \in PathClasses}
          \/ x \in {TwoItems(a, b) : a \in ClientIds, b \in ClientIds}
          \/ x \in {OwnAndTheirs(id, own, theirs) :
                        id \in Ids, own \in AccountLists, theirs \in AccountLists}
          \/ x \in {OneItem(item) : item \in UNION {Varied(Titled(id)) : id \in Ids}}
          \/ x \in Varied(Payload(<< >>, << >>)) \/ x = Crowded(Payload(<< >>, << >>))
      BY DEF Payloads
    <3> QED
      BY ONLY <3>1, <2>1, <2>2, <2>3, <2>4, <2>5
<1> QED
  BY ONLY <1>11

(* A segment that takes time, ...                                             *)
LEMMA SegmentShaped ==
  ASSUME NEW start \in Nat, NEW length \in Nat \ {0}, NEW keywords \in SUBSET Words
  PROVE  /\ Segment(start, length, keywords) \in SegmentForms
         /\ Segment(start, length, keywords).start = start
         /\ Segment(start, length, keywords).end = start + length
<1>1. (length > 1) \in BOOLEAN
  OBVIOUS
<1> QED
  BY <1>1 DEF Segment, SegmentForms

(* ... transcripts of two and of three, one after another, ...                *)
InOrder(segs) ==
    /\ segs \in Seq(SegmentForms) /\ Len(segs) > 0
    /\ \A i, j \in 1 .. Len(segs) : i < j => segs[i].end <= segs[j].start

(* Two segments are in order when the second starts after the first, ...      *)
LEMMA TwoInOrder ==
  ASSUME NEW a \in SegmentForms, NEW b \in SegmentForms, a.end <= b.start
  PROVE  InOrder(<< a, b >>)
<1> PICK segs : segs = << a, b >>
  OBVIOUS
<1>1. segs \in Seq(SegmentForms) /\ Len(segs) = 2 /\ segs[1] = a /\ segs[2] = b
  OBVIOUS
<1>2. \A i, j \in 1 .. 2 : i < j => i = 1 /\ j = 2
  OBVIOUS
<1>3. InOrder(segs)
  BY ONLY <1>1, <1>2, a.end <= b.start DEF InOrder
<1> QED
  BY <1>3

(* ... and three when each starts after the one before.                       *)
LEMMA ThreeInOrder ==
  ASSUME NEW a \in SegmentForms, NEW b \in SegmentForms, NEW c \in SegmentForms,
         a.end <= b.start, b.end <= c.start
  PROVE  InOrder(<< a, b, c >>)
<1> PICK segs : segs = << a, b, c >>
  OBVIOUS
<1>1. segs \in Seq(SegmentForms) /\ Len(segs) = 3 /\ segs[1] = a /\ segs[2] = b /\ segs[3] = c
  OBVIOUS
<1>2. a.end \in Nat /\ b.start \in Nat /\ b.end \in Nat /\ c.start \in Nat /\ b.start < b.end
  BY DEF SegmentForms
<1>3. ASSUME NEW i \in 1 .. 3, NEW j \in 1 .. 3, i < j
      PROVE  segs[i].end <= segs[j].start
  <2>1. (i = 1 /\ j = 2) \/ (i = 1 /\ j = 3) \/ (i = 2 /\ j = 3)
    <3>1. i \in Int /\ j \in Int /\ 1 <= i /\ i < j /\ j <= 3
      BY <1>3
    <3> QED
      BY ONLY <3>1
  <2>2. a.end <= c.start
    BY <1>2
  <2> QED
    BY <1>1, <2>1, <2>2
<1>4. InOrder(segs)
  BY <1>1, <1>3 DEF InOrder
<1> QED
  BY <1>4

(* ... and the recording of one.                                              *)
LEMMA RecordingShaped ==
  ASSUME NEW segs, InOrder(segs), NEW scenes \in SUBSET Nat, NEW rest \in Nat
  PROVE  Recording(segs, scenes, rest) \in RecordingForms
<1> PICK source : source = segs[Len(segs)].end + rest
  OBVIOUS
<1> PICK boundaries : boundaries = IF scenes = {} THEN {} ELSE {b \in scenes : b <= source} \cup {source}
  OBVIOUS
<1>1. segs \in Seq(SegmentForms) /\ Len(segs) \in 1 .. Len(segs)
  BY DEF InOrder
<1>2. source \in Nat
  <2>1. segs[Len(segs)] \in SegmentForms
    BY <1>1
  <2>2. segs[Len(segs)].end \in Nat
    BY <2>1 DEF SegmentForms
  <2> QED
    BY <2>2
<1>3. boundaries \in SUBSET Nat /\ boundaries \subseteq 0 .. source
  <2>1. CASE scenes = {}
    BY <1>2, <2>1
  <2>2. CASE scenes # {}
    <3>1. boundaries = {b \in scenes : b <= source} \cup {source}
      BY <2>2
    <3>2. \A b \in boundaries : b \in Nat /\ b <= source
      BY <1>2, <3>1
    <3>3. \A b \in boundaries : b \in Nat /\ b \in 0 .. source
      BY ONLY <1>2, <3>2
    <3> QED
      BY ONLY <3>3
  <2> QED
    BY <2>1, <2>2
<1> PICK rec : rec = Recording(segs, scenes, rest)
  OBVIOUS
<1>4. rec = [segments |-> segs, model |-> "none", proposal |-> << >>, source |-> source,
             boundaries |-> boundaries, lo |-> 5, hi |-> 10, maxClips |-> 2]
  BY DEF Recording
<1>5. << >> \in Seq(ProposalForms)
  OBVIOUS
<1>6. rec \in [segments : Seq(SegmentForms), model : {"none", "answers"}, proposal : Seq(ProposalForms),
               source : Nat, boundaries : SUBSET Nat, lo : Nat, hi : Nat, maxClips : Nat]
  BY ONLY <1>1, <1>2, <1>3, <1>4, <1>5
<1>7. /\ rec.lo = 5 /\ rec.hi = 10 /\ rec.boundaries = boundaries /\ rec.source = source
      /\ rec.segments = segs
  BY ONLY <1>4
<1> QED
  BY <1>3, <1>6, <1>7 DEF RecordingForms, InOrder, Tolerance

(* Every transcript that Slice sends is in order.                             *)
LEMMA TranscriptsInOrder == \A segs \in Transcripts : InOrder(segs)
<1>1. {} \in SUBSET Words /\ {AWord} \in SUBSET Words /\ Words \in SUBSET Words
  BY WordsAreFinite DEF AWord
<1>2. ASSUME NEW pause \in {0, 3}, NEW a \in {1, 4, 7}, NEW b \in {1, 4, 7},
             NEW k1 \in {{}, {AWord}}, NEW k2 \in {{}, {AWord}}
      PROVE  /\ InOrder(TwoSegments(pause, a, b, k1, k2))
             /\ \A c \in {1, 4, 7} : InOrder(ThreeSegments(pause, a, b, c, k1, k2))
  <2> PICK second : second = Second(pause, a)
    OBVIOUS
  <2> PICK third : third = second + b
    OBVIOUS
  <2>1. /\ pause \in Nat /\ a \in Nat \ {0} /\ b \in Nat \ {0}
        /\ second \in Nat /\ third \in Nat /\ pause + a <= second /\ second + b <= third
    BY DEF Second
  <2>2. k1 \in SUBSET Words /\ k2 \in SUBSET Words
    BY <1>1
  <2> PICK one : one = Segment(pause, a, k1)
    OBVIOUS
  <2> PICK two : two = Segment(second, b, k2)
    OBVIOUS
  <2>3. one \in SegmentForms /\ one.end = pause + a
    BY ONLY <2>1, <2>2, one = Segment(pause, a, k1), SegmentShaped
  <2>4. two \in SegmentForms /\ two.start = second /\ two.end = second + b
    BY ONLY <2>1, <2>2, two = Segment(second, b, k2), SegmentShaped
  <2>5. one.end <= two.start
    BY ONLY <2>1, <2>3, <2>4
  <2>6. InOrder(TwoSegments(pause, a, b, k1, k2))
    BY <2>3, <2>4, <2>5, TwoInOrder DEF TwoSegments
  <2>7. ASSUME NEW c \in {1, 4, 7}
        PROVE  InOrder(ThreeSegments(pause, a, b, c, k1, k2))
    <3> PICK three : three = Segment(third, c, Words)
      OBVIOUS
    <3>1. c \in Nat \ {0}
      OBVIOUS
    <3>2. three \in SegmentForms /\ three.start = third
      BY ONLY <1>1, <2>1, <3>1, three = Segment(third, c, Words), SegmentShaped
    <3>3. two.end <= three.start
      BY ONLY <2>1, <2>4, <3>2
    <3>4. InOrder(<< one, two, three >>)
      BY ONLY <2>3, <2>4, <2>5, <3>2, <3>3, ThreeInOrder
    <3> QED
      BY <3>4 DEF ThreeSegments
  <2> QED
    BY <2>6, <2>7
<1>3. \A pause \in {0, 3}, a, b \in {1, 4, 7}, k1, k2 \in {{}, {AWord}} :
          InOrder(TwoSegments(pause, a, b, k1, k2))
  BY <1>2
<1>4. \A pause \in {0, 3}, a, b, c \in {1, 4, 7}, k1, k2 \in {{}, {AWord}} :
          InOrder(ThreeSegments(pause, a, b, c, k1, k2))
  BY <1>2
<1> TAKE segs \in Transcripts
<1>5. CASE segs \in {TwoSegments(pause, a, b, k1, k2) :
                          pause \in {0, 3}, a, b \in {1, 4, 7}, k1, k2 \in {{}, {AWord}}}
  BY ONLY <1>3, <1>5
<1>6. CASE segs \in {ThreeSegments(pause, a, b, c, k1, k2) :
                          pause \in {0, 3}, a, b, c \in {1, 4, 7}, k1, k2 \in {{}, {AWord}}}
  BY ONLY <1>4, <1>6
<1> QED
  BY <1>5, <1>6 DEF Transcripts

(* What the model proposes is in numbers.                                     *)
LEMMA ProposalsShaped == Proposals \subseteq Seq(ProposalForms)
<1>1. ASSUME NEW from \in {0, 3, 8, 40}, NEW length \in {4, 5, 12, 13}
      PROVE  OneProposal(from, length) \in Seq(ProposalForms)
  <2>1. [start |-> from, end |-> from + length, score |-> 5] \in ProposalForms
    BY DEF ProposalForms
  <2> QED
    BY <2>1 DEF OneProposal
<1> DEFINE fit == Seq(ProposalForms)
           froms == {0, 3, 8, 40}
           lengths == {4, 5, 12, 13}
<1>2. \A from \in froms, length \in lengths : OneProposal(from, length) \in fit
  BY <1>1
<1>3. << >> \in fit
  OBVIOUS
<1>4. Proposals = {<< >>} \cup {OneProposal(from, length) : from \in froms, length \in lengths}
  BY DEF Proposals
<1> HIDE DEF fit, froms, lengths
<1>5. Proposals \subseteq fit
  BY ONLY <1>2, <1>3, <1>4
<1> QED
  BY <1>5 DEF fit

(* A recording with an answer of the model is one.                            *)
LEMMA ProposedShaped ==
  ASSUME NEW length \in Nat \ {0}, NEW scenes \in SUBSET Nat, NEW rest \in Nat,
         NEW proposal \in Seq(ProposalForms)
  PROVE  Proposed(length, scenes, rest, proposal) \in RecordingForms
<1> PICK one : one = Segment(0, length, {})
  OBVIOUS
<1> PICK two : two = Segment(length, 7, Words)
  OBVIOUS
<1>1. one \in SegmentForms /\ one.end = 0 + length
  BY ONLY one = Segment(0, length, {}), length \in Nat \ {0}, SegmentShaped
<1>2. two \in SegmentForms /\ two.start = length
  BY ONLY two = Segment(length, 7, Words), length \in Nat \ {0}, SegmentShaped
<1>3. InOrder(<< one, two >>)
  BY <1>1, <1>2, TwoInOrder
<1> PICK rec : rec = Recording(<< one, two >>, scenes, rest)
  OBVIOUS
<1>4. rec \in RecordingForms
  BY <1>3, RecordingShaped
<1> PICK sent : sent = [rec EXCEPT !.model = "answers", !.proposal = proposal]
  OBVIOUS
<1>5. sent \in RecordingForms
  BY ONLY <1>4, sent = [rec EXCEPT !.model = "answers", !.proposal = proposal],
     proposal \in Seq(ProposalForms) DEF RecordingForms
<1> QED
  BY <1>5 DEF Proposed

(* Every recording that Slice sends has the shape.                            *)
LEMMA RecordingsShaped == Recordings \subseteq RecordingForms
<1>1. Scenes \subseteq SUBSET Nat
  BY DEF Scenes
<1>2. \A segs \in Transcripts, scenes \in Scenes, rest \in {0, 4} :
          Recording(segs, scenes, rest) \in RecordingForms
  BY <1>1, TranscriptsInOrder, RecordingShaped
<1>3. \A length \in {1, 7}, scenes \in Scenes, rest \in {0, 4}, proposal \in Proposals :
          Proposed(length, scenes, rest, proposal) \in RecordingForms
  BY <1>1, ProposalsShaped, ProposedShaped
<1> SUFFICES ASSUME NEW rec \in Recordings
             PROVE  rec \in RecordingForms
  OBVIOUS
<1>4. CASE rec \in {Recording(segs, scenes, rest) : segs \in Transcripts, scenes \in Scenes, rest \in {0, 4}}
  BY ONLY <1>2, <1>4
<1>5. CASE rec \in {Proposed(length, scenes, rest, proposal) :
                         length \in {1, 7}, scenes \in Scenes, rest \in {0, 4}, proposal \in Proposals}
  BY ONLY <1>3, <1>5
<1> QED
  BY <1>4, <1>5 DEF Recordings

(* ------------------------ what the endpoints promise ---------------------- *)

(* Nothing was sent at first.                                                 *)
LEMMA InputsInit == InputInit => InputsInv
  BY DEF InputInit, InputsInv

(* One form is sent, and stays.                                               *)
LEMMA InputsStep == InputsInv /\ [InputNext]_allVars => InputsInv'
<1> SUFFICES ASSUME InputsInv, [InputNext]_allVars
             PROVE  InputsInv'
  OBVIOUS
<1>1. CASE CreateJob
  <2>1. PICK sent \in JobForms : Send("job", sent)
    BY <1>1 DEF CreateJob
  <2>2. endpoint' = "job" /\ form' = sent
    BY <2>1 DEF Send
  <2>3. JobFormShape(sent)
    BY JobFormsShaped
  <2> QED
    BY <2>2, <2>3 DEF InputsInv
<1>2. CASE Upload
  <2>1. PICK store_1 \in Stores, mime \in Mimes, ext \in Exts :
            Send("upload", [store |-> store_1, mime |-> mime, ext |-> ext])
    BY <1>2 DEF Upload
  <2>2. endpoint' = "upload" /\ form' \in UploadForms
    BY <2>1 DEF Send, UploadForms
  <2> QED
    BY <2>2 DEF InputsInv
<1>3. CASE SendDraft
  <2>1. PICK sent \in Payloads : Send("draft", sent)
    BY <1>3 DEF SendDraft
  <2>2. endpoint' = "draft" /\ form' = sent
    BY <2>1 DEF Send
  <2>3. sent \in PayloadForms
    BY PayloadsShaped
  <2> QED
    BY <2>2, <2>3 DEF InputsInv
<1>4. CASE Slice
  <2>1. PICK sent \in Recordings : Send("slice", sent)
    BY <1>4 DEF Slice
  <2>2. endpoint' = "slice" /\ form' = sent
    BY <2>1 DEF Send
  <2>3. sent \in RecordingForms
    BY RecordingsShaped
  <2> QED
    BY <2>2, <2>3 DEF InputsInv
<1>5. CASE Content \/ UNCHANGED allVars
  <2>1. endpoint' = endpoint /\ form' = form
    BY <1>5 DEF Content, inputVars, allVars
  <2> QED
    BY <2>1 DEF InputsInv
<1> QED
  BY <1>1, <1>2, <1>3, <1>4, <1>5 DEF InputNext

(* What was sent has the shape of a form: a job form, a payload of a draft, a *)
(* recording or an upload, of any length.                                     *)
THEOREM InputsInvariance == InputSpec => []InputsInv
<1> QED
  BY InputsInit, InputsStep, PTL DEF InputSpec

(* deleteInputArtifact finds every file that a creation saved, whatever was   *)
(* sent with it.                                                              *)
THEOREM DeletesAllInputs == InputSpec => []InputsAreDeleted
<1>1. InputsAreDeleted
  BY DEF InputsAreDeleted, DeletedFiles, JobKeys, SavedFiles, SavesSecond
<1> QED
  BY <1>1, PTL

(* The fields that the worker looks at are among those of the form.           *)
LEMMA WorkerFields ==
  ASSUME NEW sent, JobFormShape(sent), Accepted(sent)
  PROVE  /\ sent.type = "tts" => Filled(sent).emoControlMethod.n \in 0 .. 3
         /\ sent.type = "live_slice" => Filled(sent).maxClips.n \in Int /\ Filled(sent).maxClips.n > 0
<1>1. CASE sent.type = "tts"
  <2>1. /\ "emoControlMethod" \in DOMAIN RulesOf(sent.type)
        /\ RulesOf(sent.type)["emoControlMethod"] = Rule("parsed", TRUE, 0, 3, 0)
    BY <1>1 DEF RulesOf, TtsRules
  <2>2. Filled(sent)["emoControlMethod"].n \in 0 .. 3
    BY <2>1, AcceptedField DEF Rule
  <2> QED
    BY <1>1, <2>2
<1>2. CASE sent.type = "live_slice"
  <2>1. /\ "maxClips" \in DOMAIN RulesOf(sent.type)
        /\ RulesOf(sent.type)["maxClips"] = Rule("parsed", TRUE, 1, 50, 20)
    BY <1>2 DEF RulesOf, LiveSliceRules
  <2>2. Filled(sent)["maxClips"].n \in Int /\ Filled(sent)["maxClips"].n > 0
    BY <2>1, AcceptedField DEF Rule
  <2> QED
    BY <1>2, <2>2
<1> QED
  BY <1>1, <1>2

(* A job that the API accepts is one that its runner takes, whatever was      *)
(* typed, but for a blank speech text and a fontSize that is no number.       *)
LEMMA AcceptedIsTaken ==
  ASSUME NEW sent, JobFormShape(sent), Accepted(sent)
  PROVE  \/ WorkerTakes(sent)
         \/ sent.type = "tts" /\ sent.text = "blank"
         \/ sent.type = "watermark" /\ ~PythonInt(Filled(sent).fontSize)
<1>0. sent.type \in Types
  BY DEF JobFormShape
<1>1. CASE sent.type = "tts" /\ sent.text # "blank"
  <2>1. Filled(sent).emoControlMethod.n \in 0 .. 3
    BY <1>1, WorkerFields
  <2>2. Filled(sent).emoControlMethod.n = 1 => JobKeys(sent).emoInputKey # "none"
    <3>1. Filled(sent).emoControlMethod.n = 1 => sent.second.sent
      BY <1>1 DEF Accepted, FilesFit, IsA, JobFormShape
    <3> QED
      BY <1>1, <3>1 DEF JobKeys, SavesSecond
  <2>3. Filled(sent).emoControlMethod.n = 2 => VectorGiven(sent)
    BY <1>1 DEF Accepted, TtsFits
  <2> QED
    BY <1>1, <2>1, <2>2, <2>3 DEF WorkerTakes
<1>2. CASE sent.type = "live_slice"
  BY <1>2, WorkerFields DEF WorkerTakes, Accepted, SliceFits
<1>3. CASE sent.type \in {"flashhead", "latentsync"}
  <2>1. JobKeys(sent).audioInputKey # "none"
    BY <1>3 DEF JobKeys, SavesSecond
  <2>2. sent.choice # "other"
    BY DEF Accepted, FormValid
  <2> QED
    BY <1>3, <2>1, <2>2 DEF WorkerTakes
<1>4. CASE sent.type \in {"watermark", "subtitle"}
  BY <1>4 DEF WorkerTakes
<1> QED
  BY <1>0, <1>1, <1>2, <1>3, <1>4 DEF Types

(* The worker's runners refuse no job that the API accepted, in any state.    *)
THEOREM RunnersTakeJobs == InputSpec => []JobIsRunnable
<1>1. InputsInv => JobIsRunnable
  BY AcceptedIsTaken DEF InputsInv, JobIsRunnable
<1> QED
  BY <1>1, InputsInvariance, PTL

(* What the params endpoint advertises of a field is what happens to it, for  *)
(* every number that can be typed.                                            *)
THEOREM SchemaKept == InputSpec => []SchemaIsHonest
<1>1. InputsInv => SchemaIsHonest
  <2> SUFFICES ASSUME InputsInv, endpoint = "job", NEW f \in DOMAIN SchemaOf(form.type)
               PROVE  /\ Invited(form.type, f, form.fields[f]) =>
                            /\ Valid(RulesOf(form.type)[f], Filled(form)[f])
                            /\ Filled(form)[f].n = Promised(form.type, f, form.fields[f])
                      /\ Accepted(form) => /\ SchemaOf(form.type)[f].lo <= Filled(form)[f].n
                                           /\ Filled(form)[f].n <= SchemaOf(form.type)[f].hi
    BY DEF SchemaIsHonest
  <2>1. JobFormShape(form) /\ form.type \in Types
    BY DEF InputsInv, JobFormShape
  <2>2. f \in DOMAIN RulesOf(form.type) /\ SameBounds(RulesOf(form.type)[f], SchemaOf(form.type)[f])
    BY <2>1, SchemaBounds
  <2>3. /\ form.fields[f] \in Raw
        /\ IsRule(RulesOf(form.type)[f])
        /\ Filled(form)[f] = Converted(RulesOf(form.type)[f], form.fields[f])
    BY <2>1, <2>2, FilledField
  <2>4. ASSUME Invited(form.type, f, form.fields[f])
        PROVE  /\ Valid(RulesOf(form.type)[f], Filled(form)[f])
               /\ Filled(form)[f].n = Promised(form.type, f, form.fields[f])
    BY <2>2, <2>3, <2>4, InvitedPasses DEF Invited, Promised, Valid
  <2>5. ASSUME Accepted(form)
        PROVE  /\ SchemaOf(form.type)[f].lo <= Filled(form)[f].n
               /\ Filled(form)[f].n <= SchemaOf(form.type)[f].hi
    BY <2>1, <2>2, <2>5, AcceptedField DEF SameBounds
  <2> QED
    BY <2>4, <2>5
<1> QED
  BY <1>1, InputsInvariance, PTL

(* An upload that is filed under a class is served as of that class, but for  *)
(* what the three tables are known to disagree on.                            *)
LEMMA FiledIsServed ==
  ASSUME NEW place \in Stores, NEW mime \in Mimes, NEW ext \in Exts,
         Taken(place, mime, ext), Agrees(mime, ext)
  PROVE  \/ GuessMimeType(place, StoredExt(mime, ext)) = DetectMaterialType(mime, ext)
         \/ Nameless(mime, ext)
         \/ Unlisted(place, mime, ext)
<1>1. CASE ext = "none"
  <2>1. StoredExt(mime, ext) = MimeToExt(mime)
    BY <1>1 DEF StoredExt
  <2>2. CASE mime = "video/mp4"
    BY <2>1, <2>2 DEF MimeToExt, GuessMimeType, DetectMaterialType, MimeClass, ExtClass, Stores
  <2>3. CASE mime = "video/x-msvideo"
    BY <2>1, <2>3 DEF MimeToExt, GuessMimeType, DetectMaterialType, MimeClass, ExtClass, Stores, Unlisted
  <2>4. CASE mime = "image/png"
    BY <2>1, <2>4 DEF MimeToExt, GuessMimeType, DetectMaterialType, MimeClass, ExtClass, Stores
  <2>5. CASE mime \notin {"video/mp4", "video/x-msvideo", "image/png"}
    BY <1>1, <2>1, <2>5 DEF MimeToExt, Nameless
  <2> QED
    BY <2>2, <2>3, <2>4, <2>5
<1>2. CASE ext # "none"
  <2>1. StoredExt(mime, ext) = ext
    BY <1>2 DEF StoredExt
  <2>2. DetectMaterialType(mime, ext) = ExtClass(ext)
    BY <1>2 DEF Agrees, DetectMaterialType
  <2>3. CASE place = "material"
    BY <2>1, <2>2, <2>3 DEF GuessMimeType
  <2>4. CASE place = "media"
    <3>1. ExtClass(ext) = "video"
      BY <1>2, <2>4 DEF Taken, Agrees
    <3>2. ext \in {".mp4", ".avi"}
      BY <3>1 DEF ExtClass
    <3> QED
      BY <2>1, <2>2, <2>4, <3>2 DEF GuessMimeType, Unlisted
  <2>5. CASE place = "draft"
    <3>1. MimeClass(mime) \in {"video", "image"}
      BY <2>5 DEF Taken, MimeClass
    <3>2. ExtClass(ext) \in {"video", "image"}
      BY <1>2, <3>1 DEF Agrees
    <3>3. ext \in {".mp4", ".avi", ".png", ".bmp"}
      BY <3>2 DEF ExtClass
    <3> QED
      BY <2>1, <2>2, <2>5, <3>3 DEF GuessMimeType, Unlisted
  <2> QED
    BY <2>3, <2>4, <2>5 DEF Stores
<1> QED
  BY <1>1, <1>2

(* Every upload that a store takes plays as it was filed, but for those.      *)
THEOREM UploadsPlay == InputSpec => []PlaysAsFiled
<1>1. InputsInv => PlaysAsFiled
  <2> SUFFICES ASSUME InputsInv, endpoint = "upload"
               PROVE  PlaysAsFiled
    BY DEF PlaysAsFiled
  <2>1. form.store \in Stores /\ form.mime \in Mimes /\ form.ext \in Exts
    BY DEF InputsInv, UploadForms
  <2> QED
    BY <2>1, FiledIsServed DEF PlaysAsFiled
<1> QED
  BY <1>1, InputsInvariance, PTL

(* ------------------------- induction and recursion ------------------------ *)

(* A set of natural numbers has a least element.                              *)
LEMMA LeastNumber ==
  ASSUME NEW T, T \subseteq Nat, T # {}
  PROVE  \E x \in T : \A y \in T : x <= y
<1> DEFINE R == {ss \in Nat \X Nat : ss[1] < ss[2]}
<1>1. IsWellFoundedOn(R, Nat)
  BY NatLessThanWellFounded DEF OpToRel
<1>2. ASSUME NEW x \in Nat, NEW y \in Nat, y < x  PROVE << y, x >> \in R
  <2>1. << y, x >> \in Nat \X Nat /\ << y, x >>[1] < << y, x >>[2]
    BY <1>2
  <2> QED
    BY <2>1
<1> HIDE DEF R
<1>3. PICK x \in T : \A y \in T : ~ (<< y, x >> \in R)
  BY <1>1, WFMin
<1>4. ASSUME NEW y \in T  PROVE x <= y
  <2>1. x \in Nat /\ y \in Nat
    OBVIOUS
  <2>2. ~ (y < x)
    BY <1>2, <1>3, <2>1
  <2> QED
    BY <2>1, <2>2
<1> QED
  BY <1>4

(* Induction up to n: a set with 0 and with the successor of each of its      *)
(* members below n has them all.                                              *)
LEMMA UpTo ==
  ASSUME NEW n \in Nat, NEW S, 0 \in S, \A k \in 1 .. n : k - 1 \in S => k \in S
  PROVE  0 .. n \subseteq S
<1> SUFFICES ASSUME (0 .. n) \ S # {}  PROVE FALSE
  OBVIOUS
<1>1. (0 .. n) \ S \subseteq Nat
  OBVIOUS
<1>2. PICK k \in (0 .. n) \ S : \A y \in (0 .. n) \ S : k <= y
  BY <1>1, LeastNumber
<1> QED
  BY <1>2

(* Recursion up to N: a first value and a step determine a table.             *)
StepTables(N, V) == [1 .. N -> [V -> V]]
Tables(N, V, base, step) ==
    {u \in [0 .. N -> V] : u[0] = base /\ \A n \in 1 .. N : u[n] = step[n][u[n - 1]]}

(* There is such a table, whatever the first value and the step.              *)
LEMMA Recursion ==
  ASSUME NEW N \in Nat, NEW V, NEW base \in V, NEW step \in StepTables(N, V)
  PROVE  Tables(N, V, base, step) # {}
<1> USE DEF StepTables
<1> DEFINE Table(n, u) == u[0] = base /\ \A k \in 1 .. n : u[k] = step[k][u[k - 1]]
           S == {n \in 0 .. N : \E u \in [0 .. n -> V] : Table(n, u)}
<1>1. 0 \in S
  <2> DEFINE u == [k \in 0 .. 0 |-> base]
  <2>1. u \in [0 .. 0 -> V] /\ Table(0, u)
    OBVIOUS
  <2> HIDE DEF u
  <2> QED
    BY <2>1
<1>2. ASSUME NEW n \in 1 .. N, n - 1 \in S  PROVE n \in S
  <2>1. PICK u \in [0 .. n - 1 -> V] : Table(n - 1, u)
    BY <1>2
  <2> DEFINE next == step[n][u[n - 1]]
             v == [k \in 0 .. n |-> IF k < n THEN u[k] ELSE next]
  <2>2. next \in V
    OBVIOUS
  <2> HIDE DEF next
  <2>3. v \in [0 .. n -> V]
    BY <2>2
  <2>4. v[0] = base
    BY <2>1
  <2>5. ASSUME NEW k \in 1 .. n  PROVE v[k] = step[k][v[k - 1]]
    <3>1. v[k - 1] = u[k - 1]
      OBVIOUS
    <3>2. CASE k = n
      BY <3>1, <3>2 DEF next
    <3>3. CASE k < n
      <4>1. v[k] = u[k] /\ k \in 1 .. n - 1
        BY <3>3
      <4> QED
        BY <2>1, <3>1, <4>1
    <3> QED
      BY <3>2, <3>3
  <2> HIDE DEF v
  <2> QED
    BY <2>3, <2>4, <2>5
<1> HIDE DEF S
<1>3. 0 .. N \subseteq S
  BY <1>1, <1>2, UpTo
<1>4. N \in S
  BY <1>3
<1>5. PICK u \in [0 .. N -> V] : Table(N, u)
  BY <1>4 DEF S
<1>6. u \in Tables(N, V, base, step)
  BY <1>5 DEF Tables
<1> QED
  BY <1>6

(* Filtered goes through the list from its first entry to its last.           *)
LEMMA FilteredSteps ==
  ASSUME NEW S, NEW s \in Seq(S), NEW positions
  PROVE  \E u \in [0 .. Len(s) -> Seq(S)] :
            /\ Filtered(s, positions) = u[Len(s)]
            /\ u[0] = << >>
            /\ \A n \in 1 .. Len(s) :
                  u[n] = IF n \in positions THEN Append(u[n - 1], s[n]) ELSE u[n - 1]
<1> DEFINE N == Len(s)
           V == Seq(S)
           Body(u) == [n \in 0 .. N |->
                         IF n = 0 THEN << >>
                         ELSE IF n \in positions THEN Append(u[n - 1], s[n]) ELSE u[n - 1]]
           step == [n \in 1 .. N |->
                      [t \in V |-> IF n \in positions THEN Append(t, s[n]) ELSE t]]
           c == CHOOSE u : u = Body(u)
<1>1. N \in Nat /\ \A n \in 1 .. N : s[n] \in S
  OBVIOUS
<1>2. step \in [1 .. N -> [V -> V]]
  <2>1. \A n \in 1 .. N, t \in V : (IF n \in positions THEN Append(t, s[n]) ELSE t) \in V
    BY <1>1
  <2> QED
    BY <2>1
<1>3. << >> \in V
  OBVIOUS
<1>4. \A n \in 1 .. N, t \in V :
         step[n][t] = IF n \in positions THEN Append(t, s[n]) ELSE t
  OBVIOUS
<1>5. Filtered(s, positions) = c[N]
  BY DEF Filtered
<1> HIDE DEF step, N, V, Body, c
<1>6. N \in Nat
  BY <1>1
<1>7. Tables(N, V, << >>, step) # {}
  <2>1. step \in StepTables(N, V)
    BY <1>2 DEF StepTables
  <2> QED
    BY ONLY <1>3, <1>6, <2>1, Recursion
<1>8. PICK u \in [0 .. N -> V] : u[0] = << >> /\ \A n \in 1 .. N : u[n] = step[n][u[n - 1]]
  BY <1>7 DEF Tables
<1>9. ASSUME NEW n \in 1 .. N
      PROVE  u[n] = IF n \in positions THEN Append(u[n - 1], s[n]) ELSE u[n - 1]
  <2>1. u[n - 1] \in V
    BY <1>6
  <2> QED
    BY <1>4, <1>8, <2>1
<1>10. u = Body(u)
  <2>1. ASSUME NEW n \in 0 .. N  PROVE u[n] = Body(u)[n]
    <3>1. Body(u)[n] = IF n = 0 THEN << >>
                       ELSE IF n \in positions THEN Append(u[n - 1], s[n]) ELSE u[n - 1]
      BY DEF Body
    <3>2. CASE n = 0
      BY <1>8, <3>1, <3>2
    <3>3. CASE n \in 1 .. N
      <4>1. n # 0
        BY <3>3
      <4> QED
        BY <1>9, <3>1, <3>3, <4>1
    <3> QED
      BY <1>6, <3>2, <3>3
  <2>2. u = [n \in 0 .. N |-> u[n]] /\ Body(u) = [n \in 0 .. N |-> Body(u)[n]]
    BY DEF Body
  <2> QED
    BY <2>1, <2>2
<1>11. c = Body(c)
  BY <1>10 DEF c
<1>12. c[0] = << >> /\ c = [n \in 0 .. N |-> c[n]]
  <2>1. DOMAIN c = 0 .. N /\ c[0] = Body(c)[0] /\ 0 \in 0 .. N
    BY <1>6, <1>11 DEF Body
  <2> QED
    BY <1>11, <2>1 DEF Body
<1>13. ASSUME NEW n \in 1 .. N
       PROVE  c[n] = IF n \in positions THEN Append(c[n - 1], s[n]) ELSE c[n - 1]
  <2>1. n \in 0 .. N /\ n # 0 /\ c[n] = Body(c)[n]
    BY <1>6, <1>11
  <2> QED
    BY <2>1 DEF Body
<1>14. c \in [0 .. N -> V]
  <2> DEFINE T == {n \in 0 .. N : c[n] \in V}
  <2>1. 0 \in T
    BY <1>3, <1>6, <1>12
  <2>2. ASSUME NEW n \in 1 .. N, n - 1 \in T  PROVE n \in T
    <3>1. c[n] = step[n][c[n - 1]]
      BY <1>4, <1>13, <2>2
    <3> QED
      BY <1>2, <1>6, <2>2, <3>1
  <2> HIDE DEF T
  <2>3. 0 .. N \subseteq T
    BY ONLY <1>6, <2>1, <2>2, UpTo
  <2> QED
    BY <1>12, <2>3 DEF T
<1> QED
  BY <1>5, <1>12, <1>13, <1>14 DEF N, V

(* t is s at the positions of a set, which at lists in increasing order.      *)
TakenAt(t, s, at, set) ==
    /\ at \in [1 .. Len(t) -> set]
    /\ \A k \in 1 .. Len(t) : t[k] = s[at[k]]
    /\ \A j, k \in 1 .. Len(t) : j < k => at[j] < at[k]
    /\ \A i \in set : \E k \in 1 .. Len(t) : at[k] = i

(* What Filtered leaves of a list: the entries at the positions, in order.    *)
LEMMA FilteredFacts ==
  ASSUME NEW S, NEW s \in Seq(S), NEW positions
  PROVE  /\ Filtered(s, positions) \in Seq(S)
         /\ \E at : TakenAt(Filtered(s, positions), s, at, positions \cap 1 .. Len(s))
<1>1. PICK u \in [0 .. Len(s) -> Seq(S)] :
         /\ Filtered(s, positions) = u[Len(s)]
         /\ u[0] = << >>
         /\ \A n \in 1 .. Len(s) :
               u[n] = IF n \in positions THEN Append(u[n - 1], s[n]) ELSE u[n - 1]
  BY FilteredSteps
<1> DEFINE P(n) == positions \cap 1 .. n
           T == {n \in 0 .. Len(s) : \E at : TakenAt(u[n], s, at, P(n))}
<1>2. 0 \in T
  <2> DEFINE at == [k \in 1 .. 0 |-> 0]
  <2>1. Len(u[0]) = 0 /\ P(0) = {}
    BY <1>1
  <2>2. TakenAt(u[0], s, at, P(0))
    BY <2>1 DEF TakenAt
  <2> HIDE DEF at
  <2> QED
    BY <2>2
<1>3. ASSUME NEW n \in 1 .. Len(s), n - 1 \in T  PROVE n \in T
  <2>1. PICK at : TakenAt(u[n - 1], s, at, P(n - 1))
    BY <1>3
  <2>2. u[n - 1] \in Seq(S) /\ s[n] \in S
    OBVIOUS
  <2>3. CASE n \notin positions
    <3>1. u[n] = u[n - 1]
      BY <1>1, <2>3
    <3>2. P(n) = P(n - 1)
      BY <2>3
    <3> HIDE DEF P
    <3>3. TakenAt(u[n], s, at, P(n))
      BY <2>1, <3>1, <3>2
    <3> QED
      BY <3>3
  <2>4. CASE n \in positions
    <3> DEFINE t == u[n - 1]
               next == [k \in 1 .. Len(t) + 1 |-> IF k = Len(t) + 1 THEN n ELSE at[k]]
    <3>1. /\ u[n] = Append(t, s[n]) /\ t \in Seq(S) /\ Len(t) \in Nat
          /\ P(n) = P(n - 1) \cup {n} /\ \A i \in P(n - 1) : i \in Int /\ i < n
      <4>1. u[n] = Append(t, s[n])
        BY <1>1, <2>4
      <4>2. t \in Seq(S) /\ Len(t) \in Nat
        BY <2>2
      <4>3. P(n) = P(n - 1) \cup {n}
        BY <2>4
      <4>4. \A i \in P(n - 1) : i \in Int /\ i < n
        OBVIOUS
      <4> QED
        BY <4>1, <4>2, <4>3, <4>4
    <3>2. /\ at \in [1 .. Len(t) -> P(n - 1)]
          /\ \A k \in 1 .. Len(t) : t[k] = s[at[k]]
          /\ \A j, k \in 1 .. Len(t) : j < k => at[j] < at[k]
          /\ \A i \in P(n - 1) : \E k \in 1 .. Len(t) : at[k] = i
      BY <2>1 DEF TakenAt
    <3> HIDE DEF t, P
    <3>3. /\ Len(u[n]) = Len(t) + 1 /\ u[n][Len(t) + 1] = s[n]
          /\ \A k \in 1 .. Len(t) : u[n][k] = t[k]
      BY <2>2, <3>1
    <3>4. /\ \A k \in 1 .. Len(t) : next[k] = at[k]
          /\ next[Len(t) + 1] = n
      BY <3>1
    <3>5. next \in [1 .. Len(u[n]) -> P(n)]
      BY <3>1, <3>2, <3>3
    <3> HIDE DEF next
    <3>6. \A k \in 1 .. Len(u[n]) : k = Len(t) + 1 \/ k \in 1 .. Len(t)
      BY <3>1, <3>3
    <3>7. \A k \in 1 .. Len(u[n]) : u[n][k] = s[next[k]]
      BY <3>2, <3>3, <3>4, <3>6
    <3>8. ASSUME NEW j \in 1 .. Len(u[n]), NEW k \in 1 .. Len(u[n]), j < k
          PROVE  next[j] < next[k]
      <4>1. j \in 1 .. Len(t)
        BY <3>1, <3>3, <3>8
      <4>2. at[j] \in P(n - 1)
        BY <3>2, <4>1
      <4>3. CASE k = Len(t) + 1
        BY <3>1, <3>4, <4>1, <4>2, <4>3
      <4>4. CASE k \in 1 .. Len(t)
        BY <3>2, <3>4, <3>8, <4>1, <4>4
      <4> QED
        BY <3>6, <4>3, <4>4
    <3>9. ASSUME NEW i \in P(n)  PROVE \E k \in 1 .. Len(u[n]) : next[k] = i
      <4>1. CASE i = n
        BY <3>1, <3>3, <3>4, <4>1
      <4>2. CASE i \in P(n - 1)
        <5>1. PICK k \in 1 .. Len(t) : at[k] = i
          BY <3>2, <4>2
        <5>2. k \in 1 .. Len(u[n])
          BY <3>1, <3>3
        <5> QED
          BY <3>4, <5>1, <5>2
      <4> QED
        BY <3>1, <4>1, <4>2
    <3>10. TakenAt(u[n], s, next, P(n))
      BY <3>5, <3>7, <3>8, <3>9 DEF TakenAt
    <3> QED
      BY <3>10
  <2> QED
    BY <2>3, <2>4
<1> HIDE DEF T
<1>4. Len(s) \in Nat
  OBVIOUS
<1>5. 0 .. Len(s) \subseteq T
  BY ONLY <1>2, <1>3, <1>4, UpTo
<1>6. \E at : TakenAt(u[Len(s)], s, at, P(Len(s)))
  BY <1>4, <1>5 DEF T
<1> QED
  BY <1>1, <1>4, <1>6

(* A list is left as it is when every position is asked for.                  *)
LEMMA FilteredAll ==
  ASSUME NEW S, NEW s \in Seq(S), NEW positions, 1 .. Len(s) \subseteq positions
  PROVE  Filtered(s, positions) = s
<1>1. PICK u \in [0 .. Len(s) -> Seq(S)] :
         /\ Filtered(s, positions) = u[Len(s)]
         /\ u[0] = << >>
         /\ \A n \in 1 .. Len(s) :
               u[n] = IF n \in positions THEN Append(u[n - 1], s[n]) ELSE u[n - 1]
  BY FilteredSteps
<1> DEFINE T == {n \in 0 .. Len(s) : Len(u[n]) = n /\ \A k \in 1 .. n : u[n][k] = s[k]}
<1>2. 0 \in T
  BY <1>1
<1>3. ASSUME NEW n \in 1 .. Len(s), n - 1 \in T  PROVE n \in T
  <2> DEFINE t == u[n - 1]
  <2>1. /\ t \in Seq(S) /\ s[n] \in S /\ u[n] = Append(t, s[n])
        /\ Len(t) = n - 1 /\ \A k \in 1 .. n - 1 : t[k] = s[k]
    <3>1. n \in positions /\ n - 1 \in 0 .. Len(s)
      OBVIOUS
    <3>2. u[n] = Append(t, s[n])
      BY <1>1, <3>1
    <3>3. t \in Seq(S) /\ s[n] \in S
      BY <3>1
    <3>4. Len(t) = n - 1 /\ \A k \in 1 .. n - 1 : t[k] = s[k]
      BY <1>3
    <3> QED
      BY <3>2, <3>3, <3>4
  <2> HIDE DEF t
  <2>2. /\ Len(u[n]) = n /\ u[n][n] = s[n]
        /\ \A k \in 1 .. n - 1 : u[n][k] = t[k]
    BY <2>1
  <2>3. ASSUME NEW k \in 1 .. n  PROVE u[n][k] = s[k]
    BY <2>1, <2>2
  <2> QED
    BY <2>2, <2>3
<1> HIDE DEF T
<1>4. Len(s) \in Nat
  OBVIOUS
<1>5. 0 .. Len(s) \subseteq T
  BY ONLY <1>2, <1>3, <1>4, UpTo
<1> DEFINE t == u[Len(s)]
<1>6. t \in Seq(S) /\ Len(t) = Len(s) /\ \A k \in 1 .. Len(s) : t[k] = s[k]
  BY <1>4, <1>5 DEF T
<1> HIDE DEF t
<1>7. t = s
  BY <1>6
<1> QED
  BY <1>1, <1>7 DEF t

(* ------------------------ a draft saved twice ----------------------------- *)

(* ---------------------------- drafts saved again -------------------------- *)

(* The first fault is one of them.                                            *)
LEMMA LeastIsOne ==
  ASSUME NEW T, T \subseteq Nat, T # {}
  PROVE  Min(T) \in T
<1>1. \E x \in T : \A y \in T : x <= y
  BY LeastNumber
<1> QED
  BY <1>1 DEF Min

(* What is in a list.                                                         *)
Entries(t) == {t[k] : k \in 1 .. Len(t)}

(* The entries of two lists put end to end are those of the two.              *)
LEMMA EntriesOfBoth ==
  ASSUME NEW S, NEW s \in Seq(S), NEW t \in Seq(S)
  PROVE  Entries(s \o t) = Entries(s) \cup Entries(t)
<1> PICK m : m = Len(s)
  OBVIOUS
<1> PICK n : n = Len(t)
  OBVIOUS
<1> PICK both : both = s \o t
  OBVIOUS
<1>1. m \in Nat /\ n \in Nat /\ Len(both) = m + n
  OBVIOUS
<1>2. \A k \in 1 .. m : both[k] = s[k]
  OBVIOUS
<1>3. \A k \in 1 .. n : both[m + k] = t[k]
  OBVIOUS
<1>4. \A k \in 1 .. m + n : k \in 1 .. m \/ \E j \in 1 .. n : k = m + j
  <2>1. ASSUME NEW k \in 1 .. m + n, k \notin 1 .. m
        PROVE  k - m \in 1 .. n /\ k = m + (k - m)
    BY <1>1, <2>1
  <2> QED
    BY <2>1
<1>5. \A k \in 1 .. m : k \in 1 .. m + n
  BY <1>1
<1>6. \A k \in 1 .. n : m + k \in 1 .. m + n
  BY <1>1
<1>7. ASSUME NEW x \in Entries(both)  PROVE x \in Entries(s) \cup Entries(t)
  <2>1. PICK k \in 1 .. m + n : x = both[k]
    BY <1>1 DEF Entries
  <2>2. CASE k \in 1 .. m
    BY <1>2, <2>1, <2>2 DEF Entries
  <2>3. CASE \E j \in 1 .. n : k = m + j
    BY <1>3, <2>1, <2>3 DEF Entries
  <2> QED
    BY <1>4, <2>2, <2>3
<1>8. ASSUME NEW x \in Entries(s)  PROVE x \in Entries(both)
  <2>1. PICK k \in 1 .. m : x = s[k]
    BY DEF Entries
  <2>2. both[k] = x /\ k \in 1 .. m + n
    BY <1>2, <1>5, <2>1
  <2> QED
    BY <1>1, <2>2 DEF Entries
<1>9. ASSUME NEW x \in Entries(t)  PROVE x \in Entries(both)
  <2>1. PICK k \in 1 .. n : x = t[k]
    BY DEF Entries
  <2>2. both[m + k] = x /\ m + k \in 1 .. m + n
    BY <1>3, <1>6, <2>1
  <2> QED
    BY <1>1, <2>2 DEF Entries
<1> QED
  BY <1>7, <1>8, <1>9

(* What is in a list of lists put end to end is in one of them.               *)
LEMMA FlattenedEntries ==
  ASSUME NEW S, NEW ss \in Seq(Seq(S))
  PROVE  /\ FlattenSeq(ss) \in Seq(S)
         /\ Entries(FlattenSeq(ss)) = UNION {Entries(ss[i]) : i \in 1 .. Len(ss)}
<1> DEFINE N == Len(ss)
           V == Seq(S)
           Body(u) == [i \in 1 .. N |-> IF i = 1 THEN ss[i] ELSE u[i - 1] \o ss[i]]
           c == CHOOSE u : u = Body(u)
           step == [n \in 1 .. N - 1 |-> [t \in V |-> t \o ss[n + 1]]]
<1>1. N \in Nat /\ \A i \in 1 .. N : ss[i] \in V
  OBVIOUS
<1>2. CASE N = 0
  <2>1. FlattenSeq(ss) = ss /\ ss = << >>
    BY <1>2 DEF FlattenSeq
  <2> QED
    BY <1>2, <2>1 DEF Entries
<1>3. CASE N # 0
  <2>1. FlattenSeq(ss) = c[N]
    BY <1>3 DEF FlattenSeq
  <2>2. step \in [1 .. N - 1 -> [V -> V]]
    <3>1. \A n \in 1 .. N - 1, t \in V : t \o ss[n + 1] \in V
      BY <1>1
    <3> QED
      BY <3>1
  <2>3. \A n \in 1 .. N - 1, t \in V : step[n][t] = t \o ss[n + 1]
    OBVIOUS
  <2>4. 1 \in 1 .. N /\ N - 1 \in Nat /\ ss[1] \in V
    BY <1>1, <1>3
  <2> HIDE DEF c, step, N, V, Body
  <2>5. Tables(N - 1, V, ss[1], step) # {}
    <3>1. step \in StepTables(N - 1, V)
      BY <2>2 DEF StepTables
    <3> QED
      BY ONLY <2>4, <3>1, Recursion
  <2>6. PICK u \in [0 .. N - 1 -> V] :
           u[0] = ss[1] /\ \A n \in 1 .. N - 1 : u[n] = step[n][u[n - 1]]
    BY <2>5 DEF Tables
  <2> DEFINE w == [i \in 1 .. N |-> u[i - 1]]
  <2>7. w = Body(w)
    <3>1. ASSUME NEW i \in 1 .. N
          PROVE  w[i] = IF i = 1 THEN ss[i] ELSE w[i - 1] \o ss[i]
      <4>1. CASE i = 1
        BY <2>6, <4>1
      <4>2. CASE i # 1
        <5>1. i - 1 \in 1 .. N - 1 /\ i - 1 \in 1 .. N /\ i - 1 - 1 \in 0 .. N - 1
          BY <1>1, <4>2
        <5>2. w[i] = u[i - 1] /\ w[i - 1] = u[i - 1 - 1] /\ u[i - 1 - 1] \in V
          BY <5>1
        <5>3. u[i - 1] = step[i - 1][u[i - 1 - 1]]
          BY <2>6, <5>1
        <5>4. step[i - 1][u[i - 1 - 1]] = u[i - 1 - 1] \o ss[i - 1 + 1]
          BY <2>3, <5>1, <5>2
        <5>5. i - 1 + 1 = i
          BY <1>1
        <5> QED
          BY <4>2, <5>2, <5>3, <5>4, <5>5
      <4> QED
        BY <4>1, <4>2
    <3> HIDE DEF w
    <3>2. Body(w) = [i \in 1 .. N |-> w[i]]
      BY <3>1 DEF Body
    <3>3. w = [i \in 1 .. N |-> w[i]]
      BY DEF w
    <3> QED
      BY <3>2, <3>3
  <2> HIDE DEF w
  <2>8. c = Body(c)
    BY <2>7 DEF c
  <2>9. \A i \in 1 .. N : c[i] = IF i = 1 THEN ss[i] ELSE c[i - 1] \o ss[i]
    BY <2>8 DEF Body
  <2> DEFINE Good(i) == c[i] \in V /\ Entries(c[i]) = UNION {Entries(ss[k]) : k \in 1 .. i}
             T == {i \in 0 .. N : i = 0 \/ Good(i)}
  <2>10. 0 \in T
    BY <1>1
  <2>11. ASSUME NEW i \in 1 .. N, i - 1 \in T  PROVE i \in T
    <3>1. CASE i = 1
      <4>1. c[i] = ss[1]
        BY <2>9, <3>1
      <4>2. 1 .. i = {1}
        BY <3>1
      <4>3. UNION {Entries(ss[k]) : k \in {1}} = Entries(ss[1])
        OBVIOUS
      <4> QED
        BY <2>4, <4>1, <4>2, <4>3
    <3>2. CASE i # 1
      <4>1. c[i] = c[i - 1] \o ss[i] /\ ss[i] \in V
        BY <1>1, <2>9, <3>2
      <4>2. c[i - 1] \in V /\ Entries(c[i - 1]) = UNION {Entries(ss[k]) : k \in 1 .. i - 1}
        <5>1. i - 1 # 0
          BY <3>2
        <5> QED
          BY <2>11, <5>1
      <4>3. c[i] \in V
        BY <4>1, <4>2 DEF V
      <4>4. Entries(c[i]) = Entries(c[i - 1]) \cup Entries(ss[i])
        BY <4>1, <4>2, EntriesOfBoth DEF V
      <4>5. 1 .. i = (1 .. i - 1) \cup {i}
        OBVIOUS
      <4>6. UNION {Entries(ss[k]) : k \in (1 .. i - 1) \cup {i}}
              = (UNION {Entries(ss[k]) : k \in 1 .. i - 1}) \cup Entries(ss[i])
        OBVIOUS
      <4>7. Good(i)
        BY <4>2, <4>3, <4>4, <4>5, <4>6
      <4> QED
        BY <4>7
    <3> QED
      BY <3>1, <3>2
  <2> HIDE DEF T
  <2>12. 0 .. N \subseteq T
    BY ONLY <1>1, <2>10, <2>11, UpTo
  <2>13. Good(N)
    <3>1. N \in T
      BY <1>1, <2>12
    <3> QED
      BY <1>3, <3>1 DEF T
  <2> QED
    BY <2>1, <2>13 DEF N, V
<1> QED
  BY <1>2, <1>3

(* new Set(ids) has no id twice: that of its list is that list.               *)
LEMMA DistinctTwice ==
  ASSUME NEW S, NEW ids \in Seq(S)
  PROVE  Distinct(ids) \in Seq(S) /\ Distinct(Distinct(ids)) = Distinct(ids)
<1> DEFINE first == {i \in DOMAIN ids : \A j \in 1 .. i - 1 : ids[j] # ids[i]}
<1> PICK d : d = Distinct(ids)
  OBVIOUS
<1>1. d = Filtered(ids, first)
  BY DEF Distinct
<1>2. first \cap 1 .. Len(ids) = first /\ first \subseteq Nat /\ Len(ids) \in Nat
  OBVIOUS
<1>3. \A i, j \in first : j < i => ids[j] # ids[i]
  OBVIOUS
<1> HIDE DEF first
<1>4. d \in Seq(S)
  BY <1>1, FilteredFacts
<1>5. PICK at : TakenAt(d, ids, at, first)
  BY <1>1, <1>2, FilteredFacts
<1>6. ASSUME NEW j \in 1 .. Len(d), NEW k \in 1 .. Len(d), j < k
      PROVE  d[j] # d[k]
  <2>1. at[j] \in first /\ at[k] \in first /\ at[j] < at[k] /\ d[j] = ids[at[j]] /\ d[k] = ids[at[k]]
    BY <1>5, <1>6 DEF TakenAt
  <2> QED
    BY <1>3, <2>1
<1>7. 1 .. Len(d) \subseteq {i \in DOMAIN d : \A j \in 1 .. i - 1 : d[j] # d[i]}
  <2>1. DOMAIN d = 1 .. Len(d)
    BY <1>4
  <2>2. \A i \in 1 .. Len(d) : \A j \in 1 .. i - 1 : j \in 1 .. Len(d) /\ j < i
    BY <1>4
  <2> QED
    BY <1>6, <2>1, <2>2
<1>8. Distinct(d) = d
  BY <1>4, <1>7, FilteredAll DEF Distinct
<1> QED
  BY <1>4, <1>8

(* The overrides that are not null, ...                                       *)
LEMMA GivenFacts ==
  ASSUME NEW overrides \in Seq(OverrideForms)
  PROVE  /\ Given(overrides) \in Seq(OverrideForms)
         /\ \A k \in 1 .. Len(Given(overrides)) :
               /\ Given(overrides)[k].given
               /\ \E i \in 1 .. Len(overrides) : Given(overrides)[k] = overrides[i]
<1> DEFINE asked == {i \in DOMAIN overrides : overrides[i].given}
<1> PICK g : g = Given(overrides)
  OBVIOUS
<1>1. g = Filtered(overrides, asked)
  BY DEF Given
<1>2. asked \cap 1 .. Len(overrides) = asked /\ \A i \in asked : i \in 1 .. Len(overrides) /\ overrides[i].given
  OBVIOUS
<1> HIDE DEF asked
<1>3. g \in Seq(OverrideForms)
  BY <1>1, FilteredFacts
<1>4. PICK at : TakenAt(g, overrides, at, asked)
  BY <1>1, <1>2, FilteredFacts
<1>5. ASSUME NEW k \in 1 .. Len(g)
      PROVE  g[k].given /\ \E i \in 1 .. Len(overrides) : g[k] = overrides[i]
  <2>1. at[k] \in asked /\ g[k] = overrides[at[k]]
    BY <1>4 DEF TakenAt
  <2> QED
    BY <1>2, <2>1
<1> QED
  BY <1>3, <1>5

(* ... each with its cart: ...                                                *)
Carted(o) == [o EXCEPT !.cart = IF @ = "none" THEN "empty" ELSE @]

(* (what else is in it does not change)                                       *)
LEMMA CartOf ==
  ASSUME NEW o \in OverrideForms, NEW cart \in CartClasses,
         NEW c, c = [o EXCEPT !.cart = cart]
  PROVE  /\ c \in OverrideForms /\ c.cart = cart
         /\ (c.given <=> o.given) /\ (c.customized <=> o.customized)
         /\ c.title = o.title /\ c.platform = o.platform
<1>1. c \in OverrideForms
  BY DEF OverrideForms
<1>2. c.cart = cart
  BY DEF OverrideForms
<1>3. (c.given <=> o.given) /\ (c.customized <=> o.customized)
  BY DEF OverrideForms
<1>4. c.title = o.title /\ c.platform = o.platform
  BY DEF OverrideForms
<1> QED
  BY <1>1, <1>2, <1>3, <1>4

(* ... one that has a cart keeps it, ...                                      *)
LEMMA CartedOnce ==
  ASSUME NEW o \in OverrideForms
  PROVE  /\ Carted(o) \in OverrideForms /\ Carted(Carted(o)) = Carted(o)
         /\ (Carted(o).given <=> o.given) /\ OverrideAnswer(Carted(o)) = OverrideAnswer(o)
<1>1. ASSUME NEW p \in OverrideForms, p.cart # "none"
      PROVE  Carted(p) = p
  <2>1. Carted(p) = [p EXCEPT !.cart = p.cart]
    BY <1>1 DEF Carted
  <2> QED
    BY ONLY <2>1, p \in OverrideForms DEF OverrideForms
<1> PICK c : c = Carted(o)
  OBVIOUS
<1>2. \E cart \in CartClasses : cart # "none" /\ c = [o EXCEPT !.cart = cart]
  <2>1. CASE o.cart = "none"
    <3>1. c = [o EXCEPT !.cart = "empty"]
      BY <2>1 DEF Carted
    <3>2. "empty" \in CartClasses /\ "empty" # "none"
      BY DEF CartClasses
    <3> QED
      BY ONLY <3>1, <3>2
  <2>2. CASE o.cart # "none"
    <3>1. c = [o EXCEPT !.cart = o.cart] /\ o.cart \in CartClasses
      BY <2>2 DEF Carted, OverrideForms
    <3> QED
      BY <2>2, <3>1
  <2> QED
    BY <2>1, <2>2
<1>3. PICK cart \in CartClasses : cart # "none" /\ c = [o EXCEPT !.cart = cart]
  BY <1>2
<1>4. c = [o EXCEPT !.cart = cart]
  BY <1>3
<1>5. /\ c \in OverrideForms /\ c.cart = cart
      /\ (c.given <=> o.given) /\ (c.customized <=> o.customized)
      /\ c.title = o.title /\ c.platform = o.platform
  BY ONLY <1>4, o \in OverrideForms, cart \in CartClasses, CartOf
<1>6. Carted(c) = c
  BY <1>1, <1>3, <1>5
<1>7. OverrideAnswer(c) = OverrideAnswer(o)
  BY ONLY <1>5 DEF OverrideAnswer
<1> QED
  BY <1>5, <1>6, <1>7

(* ... normalizePlatformOverrides leaves alone what it made.                  *)
LEMMA OverridesTwice ==
  ASSUME NEW overrides \in Seq(OverrideForms)
  PROVE  /\ NormalOverrides(overrides) \in Seq(OverrideForms)
         /\ NormalOverrides(NormalOverrides(overrides)) = NormalOverrides(overrides)
         /\ \A k \in 1 .. Len(NormalOverrides(overrides)) :
               \E i \in 1 .. Len(overrides) :
                  OverrideAnswer(NormalOverrides(overrides)[k]) = OverrideAnswer(overrides[i])
<1> PICK g : g = Given(overrides)
  OBVIOUS
<1>1. g \in Seq(OverrideForms) /\ \A k \in 1 .. Len(g) :
         g[k].given /\ \E i \in 1 .. Len(overrides) : g[k] = overrides[i]
  BY GivenFacts
<1>2. ASSUME NEW s \in Seq(OverrideForms), Given(s) \in Seq(OverrideForms)
      PROVE  NormalOverrides(s) = [i \in 1 .. Len(Given(s)) |-> Carted(Given(s)[i])]
  <2> PICK kept : kept = Given(s)
    OBVIOUS
  <2>1. DOMAIN kept = 1 .. Len(kept)
    BY <1>2
  <2>2. NormalOverrides(s) = [i \in DOMAIN kept |-> Carted(kept[i])]
    BY DEF NormalOverrides, Carted
  <2> QED
    BY <2>1, <2>2
<1> PICK n : n = NormalOverrides(overrides)
  OBVIOUS
<1>3. n = [i \in 1 .. Len(g) |-> Carted(g[i])]
  BY <1>1, <1>2
<1>4. \A i \in 1 .. Len(g) : g[i] \in OverrideForms
  BY <1>1
<1>5. n \in Seq(OverrideForms) /\ Len(n) = Len(g)
  <2>1. Len(g) \in Nat /\ \A i \in 1 .. Len(g) : Carted(g[i]) \in OverrideForms
    BY <1>1, <1>4, CartedOnce
  <2> QED
    BY <1>3, <2>1
<1>6. \A i \in 1 .. Len(n) : n[i] = Carted(g[i]) /\ n[i].given
  BY <1>1, <1>3, <1>4, <1>5, CartedOnce
<1>7. Given(n) = n
  <2>1. 1 .. Len(n) \subseteq {i \in DOMAIN n : n[i].given}
    BY <1>5, <1>6
  <2> QED
    BY <1>5, <2>1, FilteredAll DEF Given
<1>8. NormalOverrides(n) = n
  <2>1. NormalOverrides(n) = [i \in 1 .. Len(n) |-> Carted(n[i])]
    BY <1>2, <1>5, <1>7
  <2>2. \A i \in 1 .. Len(n) : Carted(n[i]) = n[i]
    BY <1>4, <1>5, <1>6, CartedOnce
  <2>3. n = [i \in 1 .. Len(n) |-> n[i]]
    BY <1>5
  <2> QED
    BY ONLY <2>1, <2>2, <2>3
<1>9. ASSUME NEW k \in 1 .. Len(n)
      PROVE  \E i \in 1 .. Len(overrides) : OverrideAnswer(n[k]) = OverrideAnswer(overrides[i])
  <2>1. k \in 1 .. Len(g) /\ n[k] = Carted(g[k])
    BY <1>5, <1>6
  <2>2. OverrideAnswer(n[k]) = OverrideAnswer(g[k])
    BY <1>4, <2>1, CartedOnce
  <2> QED
    BY <1>1, <2>1, <2>2
<1> QED
  BY <1>5, <1>8, <1>9

(* An item of a draft that is stored as the service stores it.                *)
LEMMA NormalItemFields ==
  ASSUME NEW item \in ItemForms, NEW n, n = NormalItem(item)
  PROVE  /\ n \in ItemForms
         /\ n.clientId = Trimmed(item.clientId) /\ n.path = NormalPath(item.path)
         /\ n.overrides = NormalOverrides(item.overrides) /\ n.accounts = Distinct(item.accounts)
         /\ n.title = item.title /\ (n.listsFit <=> item.listsFit)
         /\ (n.showSchedule <=> item.showSchedule) /\ n.scheduleAt = item.scheduleAt
<1> PICK id : id = Trimmed(item.clientId)
  OBVIOUS
<1> PICK path : path = NormalPath(item.path)
  OBVIOUS
<1> PICK overrides : overrides = NormalOverrides(item.overrides)
  OBVIOUS
<1> PICK accounts : accounts = Distinct(item.accounts)
  OBVIOUS
<1>1. id \in ClientIds
  BY DEF ItemForms, ClientIds, Trimmed
<1>2. path \in PathClasses
  BY DEF ItemForms, NormalPath, PathClasses
<1>3. overrides \in Seq(OverrideForms)
  <2>1. item.overrides \in Seq(OverrideForms)
    BY DEF ItemForms
  <2> QED
    BY <2>1, OverridesTwice
<1>4. accounts \in Seq(Accounts)
  <2>1. item.accounts \in Seq(Accounts)
    BY DEF ItemForms
  <2> QED
    BY <2>1, DistinctTwice
<1>5. n = [item EXCEPT !.clientId = id, !.path = path, !.overrides = overrides, !.accounts = accounts]
  BY DEF NormalItem
<1>6. n \in ItemForms
  BY ONLY <1>1, <1>2, <1>3, <1>4, <1>5, item \in ItemForms DEF ItemForms
<1>7. n.clientId = id /\ n.path = path
  BY ONLY <1>5, item \in ItemForms DEF ItemForms
<1>8. n.overrides = overrides /\ n.accounts = accounts
  BY ONLY <1>5, item \in ItemForms DEF ItemForms
<1>9. n.title = item.title /\ n.scheduleAt = item.scheduleAt
  BY ONLY <1>5, item \in ItemForms DEF ItemForms
<1>10. (n.listsFit <=> item.listsFit) /\ (n.showSchedule <=> item.showSchedule)
  BY ONLY <1>5, item \in ItemForms DEF ItemForms
<1> QED
  BY <1>6, <1>7, <1>8, <1>9, <1>10

(* Storing the item again changes nothing.                                    *)
LEMMA NormalItemTwice ==
  ASSUME NEW item \in ItemForms
  PROVE  NormalItem(NormalItem(item)) = NormalItem(item)
<1> PICK n : n = NormalItem(item)
  OBVIOUS
<1>1. /\ n \in ItemForms
      /\ n.clientId = Trimmed(item.clientId) /\ n.path = NormalPath(item.path)
      /\ n.overrides = NormalOverrides(item.overrides) /\ n.accounts = Distinct(item.accounts)
  BY ONLY n = NormalItem(item), item \in ItemForms, NormalItemFields
<1>2. Trimmed(n.clientId) = n.clientId
  BY <1>1 DEF Trimmed
<1>3. NormalPath(n.path) = n.path
  BY <1>1 DEF NormalPath
<1>4. NormalOverrides(n.overrides) = n.overrides
  <2>1. item.overrides \in Seq(OverrideForms)
    BY DEF ItemForms
  <2> QED
    BY <1>1, <2>1, OverridesTwice
<1>5. Distinct(n.accounts) = n.accounts
  <2>1. item.accounts \in Seq(Accounts)
    BY DEF ItemForms
  <2> QED
    BY <1>1, <2>1, DistinctTwice
<1> PICK m : m = NormalItem(n)
  OBVIOUS
<1>6. m = [n EXCEPT !.clientId = n.clientId, !.path = n.path, !.overrides = n.overrides, !.accounts = n.accounts]
  BY <1>2, <1>3, <1>4, <1>5 DEF NormalItem
<1>7. m = n
  BY ONLY <1>1, <1>6 DEF ItemForms
<1> QED
  BY <1>7

(* The payload as it is stored.                                               *)
LEMMA NormalFields ==
  ASSUME NEW p \in PayloadForms, NEW n, n = NormalPayload(p)
  PROVE  /\ n \in PayloadForms
         /\ n.overrides = NormalOverrides(p.overrides) /\ n.accounts = Distinct(p.accounts)
         /\ Len(n.items) = Len(p.items)
         /\ \A i \in 1 .. Len(p.items) : n.items[i] = NormalItem(p.items[i])
         /\ n.title = p.title /\ (n.listsFit <=> p.listsFit) /\ (n.over <=> p.over)
         /\ (n.showSchedule <=> p.showSchedule) /\ n.scheduleAt = p.scheduleAt
<1> PICK overrides : overrides = NormalOverrides(p.overrides)
  OBVIOUS
<1> PICK accounts : accounts = Distinct(p.accounts)
  OBVIOUS
<1> PICK items : items = [i \in DOMAIN p.items |-> NormalItem(p.items[i])]
  OBVIOUS
<1>1. overrides \in Seq(OverrideForms)
  <2>1. p.overrides \in Seq(OverrideForms)
    BY DEF PayloadForms
  <2> QED
    BY <2>1, OverridesTwice
<1>2. accounts \in Seq(Accounts)
  <2>1. p.accounts \in Seq(Accounts)
    BY DEF PayloadForms
  <2> QED
    BY <2>1, DistinctTwice
<1>3. /\ items \in Seq(ItemForms) /\ Len(items) = Len(p.items)
      /\ \A i \in 1 .. Len(p.items) : items[i] = NormalItem(p.items[i])
  <2>1. p.items \in Seq(ItemForms)
    BY DEF PayloadForms
  <2>2. DOMAIN p.items = 1 .. Len(p.items) /\ Len(p.items) \in Nat
    BY <2>1
  <2>3. \A i \in 1 .. Len(p.items) : NormalItem(p.items[i]) \in ItemForms
    BY <2>1, NormalItemFields
  <2> QED
    BY <2>2, <2>3
<1>4. n = [p EXCEPT !.overrides = overrides, !.accounts = accounts, !.items = items]
  BY DEF NormalPayload
<1>5. n \in PayloadForms
  BY ONLY <1>1, <1>2, <1>3, <1>4, p \in PayloadForms DEF PayloadForms
<1>6. n.overrides = overrides /\ n.accounts = accounts /\ n.items = items
  BY ONLY <1>4, p \in PayloadForms DEF PayloadForms
<1>7. n.title = p.title /\ n.scheduleAt = p.scheduleAt
  BY ONLY <1>4, p \in PayloadForms DEF PayloadForms
<1>8. (n.listsFit <=> p.listsFit) /\ (n.over <=> p.over) /\ (n.showSchedule <=> p.showSchedule)
  BY ONLY <1>4, p \in PayloadForms DEF PayloadForms
<1> QED
  BY <1>3, <1>5, <1>6, <1>7, <1>8

(* Storing the payload again changes nothing.                                 *)
LEMMA NormalTwice ==
  ASSUME NEW p \in PayloadForms
  PROVE  NormalPayload(NormalPayload(p)) = NormalPayload(p)
<1> PICK n : n = NormalPayload(p)
  OBVIOUS
<1>1. /\ n \in PayloadForms
      /\ n.overrides = NormalOverrides(p.overrides) /\ n.accounts = Distinct(p.accounts)
      /\ Len(n.items) = Len(p.items)
      /\ \A i \in 1 .. Len(p.items) : n.items[i] = NormalItem(p.items[i])
  BY ONLY n = NormalPayload(p), p \in PayloadForms, NormalFields
<1>2. NormalOverrides(n.overrides) = n.overrides
  <2>1. p.overrides \in Seq(OverrideForms)
    BY DEF PayloadForms
  <2> QED
    BY <1>1, <2>1, OverridesTwice
<1>3. Distinct(n.accounts) = n.accounts
  <2>1. p.accounts \in Seq(Accounts)
    BY DEF PayloadForms
  <2> QED
    BY <1>1, <2>1, DistinctTwice
<1>4. [i \in DOMAIN n.items |-> NormalItem(n.items[i])] = n.items
  <2>1. p.items \in Seq(ItemForms) /\ n.items \in Seq(ItemForms)
    BY <1>1 DEF PayloadForms
  <2>2. DOMAIN n.items = 1 .. Len(n.items)
    BY <2>1
  <2>3. \A i \in 1 .. Len(p.items) : p.items[i] \in ItemForms
    BY <2>1
  <2>4. \A i \in 1 .. Len(n.items) : NormalItem(n.items[i]) = n.items[i]
    BY <1>1, <2>3, NormalItemTwice
  <2>5. n.items = [i \in 1 .. Len(n.items) |-> n.items[i]]
    BY <2>1
  <2> QED
    BY <2>2, <2>4, <2>5
<1> PICK m : m = NormalPayload(n)
  OBVIOUS
<1>5. m = [n EXCEPT !.overrides = n.overrides, !.accounts = n.accounts, !.items = n.items]
  BY <1>2, <1>3, <1>4 DEF NormalPayload
<1>6. m = n
  BY ONLY <1>1, <1>5 DEF PayloadForms
<1> QED
  BY <1>6

Answers == {"ok", "refused", "broken"}

(* The answers to a part that has the overrides of a draft.                   *)
LEMMA PartAnswersOf ==
  ASSUME NEW part, part.overrides \in Seq(OverrideForms)
  PROVE  /\ PartAnswers(part) \in Seq(Answers)
         /\ Entries(PartAnswers(part)) = {AnswerIf(ScheduleFits(part))}
              \cup {OverrideAnswer(part.overrides[i]) : i \in 1 .. Len(part.overrides)}
<1> DEFINE first == << AnswerIf(ScheduleFits(part)) >>
           rest == [i \in DOMAIN part.overrides |-> OverrideAnswer(part.overrides[i])]
<1>1. first \in Seq(Answers)
  BY DEF AnswerIf, Answers
<1>2. Entries(first) = {AnswerIf(ScheduleFits(part))}
  <2>1. Len(first) = 1 /\ first[1] = AnswerIf(ScheduleFits(part))
    OBVIOUS
  <2> HIDE DEF first
  <2> QED
    BY <2>1 DEF Entries
<1>3. DOMAIN part.overrides = 1 .. Len(part.overrides) /\ Len(part.overrides) \in Nat
  OBVIOUS
<1>4. rest \in Seq(Answers) /\ Len(rest) = Len(part.overrides)
  <2>1. \A i \in 1 .. Len(part.overrides) : OverrideAnswer(part.overrides[i]) \in Answers
    BY DEF OverrideAnswer, Answers
  <2> QED
    BY <1>3, <2>1
<1>5. Entries(rest) = {OverrideAnswer(part.overrides[i]) : i \in 1 .. Len(part.overrides)}
  BY <1>3, <1>4 DEF Entries
<1>6. PartAnswers(part) = first \o rest
  BY DEF PartAnswers
<1> HIDE DEF first, rest
<1>7. first \o rest \in Seq(Answers)
  BY <1>1, <1>4
<1> QED
  BY <1>1, <1>2, <1>4, <1>5, <1>6, <1>7, EntriesOfBoth

(* The answers to one item, its client id first, ...                          *)
ItemAnswers(items, i) == << AnswerIf(ClientIdFits(items, i)) >> \o PartAnswers(items[i])

(* They are the answers to its client id and to its part.                     *)
LEMMA ItemAnswersOf ==
  ASSUME NEW items \in Seq(ItemForms), NEW i \in 1 .. Len(items)
  PROVE  /\ ItemAnswers(items, i) \in Seq(Answers)
         /\ Entries(ItemAnswers(items, i)) =
              {AnswerIf(ClientIdFits(items, i))} \cup Entries(PartAnswers(items[i]))
<1> DEFINE first == << AnswerIf(ClientIdFits(items, i)) >>
<1> PICK rest : rest = PartAnswers(items[i])
  OBVIOUS
<1>1. first \in Seq(Answers)
  BY DEF AnswerIf, Answers
<1>2. Entries(first) = {AnswerIf(ClientIdFits(items, i))}
  <2>1. Len(first) = 1 /\ first[1] = AnswerIf(ClientIdFits(items, i))
    OBVIOUS
  <2> HIDE DEF first
  <2> QED
    BY <2>1 DEF Entries
<1>3. rest \in Seq(Answers)
  <2>1. items[i].overrides \in Seq(OverrideForms)
    <3> PICK item : item = items[i]
      OBVIOUS
    <3>1. item \in ItemForms
      OBVIOUS
    <3> QED
      BY <3>1 DEF ItemForms
  <2> QED
    BY <2>1, PartAnswersOf
<1>4. ItemAnswers(items, i) = first \o rest
  BY DEF ItemAnswers
<1> HIDE DEF first
<1>5. first \o rest \in Seq(Answers)
  BY <1>1, <1>3
<1> QED
  BY <1>1, <1>2, <1>3, <1>4, <1>5, EntriesOfBoth

(* ... and all of validatePayload's.                                          *)
LEMMA ChecksOf ==
  ASSUME NEW p \in PayloadForms
  PROVE  /\ Checks(p) \in Seq(Answers)
         /\ Entries(Checks(p)) = Entries(PartAnswers(p))
              \cup UNION {Entries(ItemAnswers(p.items, i)) : i \in 1 .. Len(p.items)}
<1> PICK own : own = PartAnswers(p)
  OBVIOUS
<1> PICK lists : lists = [i \in DOMAIN p.items |-> ItemAnswers(p.items, i)]
  OBVIOUS
<1>1. p.items \in Seq(ItemForms) /\ p.overrides \in Seq(OverrideForms)
  BY DEF PayloadForms
<1>2. own \in Seq(Answers)
  BY <1>1, PartAnswersOf
<1>3. DOMAIN p.items = 1 .. Len(p.items) /\ Len(p.items) \in Nat
  BY <1>1
<1>4. lists \in Seq(Seq(Answers)) /\ Len(lists) = Len(p.items)
      /\ \A i \in 1 .. Len(p.items) : lists[i] = ItemAnswers(p.items, i)
  <2>1. \A i \in 1 .. Len(p.items) : ItemAnswers(p.items, i) \in Seq(Answers)
    BY <1>1, ItemAnswersOf
  <2> QED
    BY <1>3, <2>1
<1>5. Checks(p) = own \o FlattenSeq(lists)
  BY DEF Checks, ItemAnswers
<1> PICK flat : flat = FlattenSeq(lists)
  OBVIOUS
<1>6. /\ flat \in Seq(Answers)
      /\ Entries(flat) = UNION {Entries(lists[i]) : i \in 1 .. Len(lists)}
  BY <1>4, FlattenedEntries
<1>7. Entries(flat) = UNION {Entries(ItemAnswers(p.items, i)) : i \in 1 .. Len(p.items)}
  BY <1>4, <1>6
<1>8. own \o flat \in Seq(Answers)
  BY <1>2, <1>6
<1> QED
  BY <1>2, <1>5, <1>6, <1>7, <1>8, EntriesOfBoth

(* validatePayload passes a payload when every check does.                    *)
LEMMA ValidWhen ==
  ASSUME NEW p \in PayloadForms
  PROVE  /\ ValidatePayload(p) \in Answers
         /\ ValidatePayload(p) = "ok" <=> Entries(Checks(p)) \subseteq {"ok"}
<1> PICK answers : answers = Checks(p)
  OBVIOUS
<1>1. answers \in Seq(Answers)
  BY ChecksOf
<1> PICK faults : faults = {i \in DOMAIN answers : answers[i] # "ok"}
  OBVIOUS
<1>2. ValidatePayload(p) = IF faults = {} THEN "ok" ELSE answers[Min(faults)]
  BY DEF ValidatePayload
<1>3. DOMAIN answers = 1 .. Len(answers) /\ faults \subseteq Nat
  BY <1>1
<1>4. CASE faults = {}
  <2>1. Entries(answers) \subseteq {"ok"}
    BY <1>3, <1>4 DEF Entries
  <2> QED
    BY <1>2, <1>4, <2>1 DEF Answers
<1>5. CASE faults # {}
  <2>1. Min(faults) \in faults
    BY ONLY <1>3, <1>5, LeastIsOne
  <2> PICK m : m = Min(faults)
    OBVIOUS
  <2>2. m \in 1 .. Len(answers) /\ answers[m] # "ok" /\ answers[m] \in Answers
    BY <1>1, <1>3, <2>1
  <2>3. answers[m] \in Entries(answers)
    BY <2>2 DEF Entries
  <2> QED
    BY <1>2, <1>5, <2>2, <2>3
<1> QED
  BY <1>4, <1>5

(* What a valid payload is, in other words.                                   *)
PartPasses(part) ==
    ScheduleFits(part) /\ \A i \in 1 .. Len(part.overrides) : OverrideAnswer(part.overrides[i]) = "ok"

(* A payload passes when its parts pass and its client ids fit.               *)
LEMMA PassesWhen ==
  ASSUME NEW p \in PayloadForms
  PROVE  ValidatePayload(p) = "ok" <=>
            /\ PartPasses(p)
            /\ \A i \in 1 .. Len(p.items) : ClientIdFits(p.items, i) /\ PartPasses(p.items[i])
<1>1. p.items \in Seq(ItemForms) /\ p.overrides \in Seq(OverrideForms)
  BY DEF PayloadForms
<1>2. ASSUME NEW fits  PROVE AnswerIf(fits) = "ok" <=> fits
  BY DEF AnswerIf
<1>3. ASSUME NEW part, part.overrides \in Seq(OverrideForms)
      PROVE  Entries(PartAnswers(part)) \subseteq {"ok"} <=> PartPasses(part)
  <2>1. Entries(PartAnswers(part)) = {AnswerIf(ScheduleFits(part))}
              \cup {OverrideAnswer(part.overrides[i]) : i \in 1 .. Len(part.overrides)}
    BY <1>3, PartAnswersOf
  <2>2. AnswerIf(ScheduleFits(part)) = "ok" <=> ScheduleFits(part)
    BY <1>2
  <2> QED
    BY <2>1, <2>2 DEF PartPasses
<1>4. ASSUME NEW i \in 1 .. Len(p.items)
      PROVE  Entries(ItemAnswers(p.items, i)) \subseteq {"ok"}
                <=> ClientIdFits(p.items, i) /\ PartPasses(p.items[i])
  <2>1. p.items[i].overrides \in Seq(OverrideForms)
    <3> PICK item : item = p.items[i]
      OBVIOUS
    <3>1. item \in ItemForms
      BY <1>1
    <3> QED
      BY <3>1 DEF ItemForms
  <2>2. Entries(ItemAnswers(p.items, i)) =
           {AnswerIf(ClientIdFits(p.items, i))} \cup Entries(PartAnswers(p.items[i]))
    BY <1>1, ItemAnswersOf
  <2>3. AnswerIf(ClientIdFits(p.items, i)) = "ok" <=> ClientIdFits(p.items, i)
    BY <1>2
  <2>4. Entries(PartAnswers(p.items[i])) \subseteq {"ok"} <=> PartPasses(p.items[i])
    BY <1>3, <2>1
  <2> QED
    BY ONLY <2>2, <2>3, <2>4
<1>5. Entries(PartAnswers(p)) \subseteq {"ok"} <=> PartPasses(p)
  BY <1>1, <1>3
<1>6. ValidatePayload(p) = "ok" <=>
         /\ Entries(PartAnswers(p)) \subseteq {"ok"}
         /\ \A i \in 1 .. Len(p.items) : Entries(ItemAnswers(p.items, i)) \subseteq {"ok"}
  <2>1. Entries(Checks(p)) = Entries(PartAnswers(p))
              \cup UNION {Entries(ItemAnswers(p.items, i)) : i \in 1 .. Len(p.items)}
    BY ChecksOf
  <2>2. ValidatePayload(p) = "ok" <=> Entries(Checks(p)) \subseteq {"ok"}
    BY ValidWhen
  <2> QED
    BY ONLY <2>1, <2>2
<1> QED
  BY ONLY <1>4, <1>5, <1>6

(* Stored again, a part passes as it passed the first time.                   *)
LEMMA PartPassesAgain ==
  ASSUME NEW part, NEW n, part.overrides \in Seq(OverrideForms),
         n.overrides = NormalOverrides(part.overrides),
         n.showSchedule <=> part.showSchedule, n.scheduleAt = part.scheduleAt,
         PartPasses(part)
  PROVE  PartPasses(n)
<1>1. ScheduleFits(n)
  BY DEF PartPasses, ScheduleFits
<1>2. \A k \in 1 .. Len(n.overrides) :
         \E i \in 1 .. Len(part.overrides) : OverrideAnswer(n.overrides[k]) = OverrideAnswer(part.overrides[i])
  <2> PICK old : old = part.overrides
    OBVIOUS
  <2> PICK new : new = NormalOverrides(old)
    OBVIOUS
  <2>1. old \in Seq(OverrideForms)
    OBVIOUS
  <2>2. \A k \in 1 .. Len(new) : \E i \in 1 .. Len(old) : OverrideAnswer(new[k]) = OverrideAnswer(old[i])
    BY ONLY <2>1, new = NormalOverrides(old), OverridesTwice
  <2>3. n.overrides = new
    OBVIOUS
  <2> QED
    BY <2>2, <2>3
<1> QED
  BY <1>1, <1>2 DEF PartPasses

(* A draft of any payload that the API saves is stored as it would be stored  *)
(* again, whatever the lengths of its lists.                                  *)
THEOREM DraftStays ==
  ASSUME NEW p \in PayloadForms, SaveAnswer(p, Bound) = "saved"
  PROVE  /\ NormalPayload(NormalPayload(p)) = NormalPayload(p)
         /\ SaveAnswer(NormalPayload(p), Bound) = "saved" \/ SameButForBlanks(p.items)
<1> PICK n : n = NormalPayload(p)
  OBVIOUS
<1>1. /\ n \in PayloadForms
      /\ n.overrides = NormalOverrides(p.overrides)
      /\ Len(n.items) = Len(p.items)
      /\ \A i \in 1 .. Len(p.items) : n.items[i] = NormalItem(p.items[i])
      /\ n.title = p.title /\ (n.listsFit <=> p.listsFit) /\ (n.over <=> p.over)
      /\ (n.showSchedule <=> p.showSchedule) /\ n.scheduleAt = p.scheduleAt
  BY ONLY n = NormalPayload(p), p \in PayloadForms, NormalFields
<1>2. NormalPayload(n) = n
  BY NormalTwice
<1>3. p.items \in Seq(ItemForms) /\ n.items \in Seq(ItemForms) /\ p.overrides \in Seq(OverrideForms)
  BY <1>1 DEF PayloadForms
<1>4. /\ DOMAIN p.items = 1 .. Len(p.items) /\ DOMAIN n.items = 1 .. Len(p.items)
      /\ \A i \in 1 .. Len(p.items) : p.items[i] \in ItemForms
  BY <1>1, <1>3
<1>5. /\ PayloadValid(p) /\ ValidatePayload(p) = "ok"
      /\ \A i \in DOMAIN p.items : ~PathRefused(p.items[i].path)
      /\ AccountsBound(CollectAccountIds(n), Bound)
  <2>1. PayloadValid(p)
    BY DEF SaveAnswer
  <2>2. ValidatePayload(p) = "ok"
    <3>1. ValidatePayload(p) # "saved"
      <4>1. ValidatePayload(p) \in Answers
        BY ValidWhen
      <4> QED
        BY <4>1 DEF Answers
    <3> QED
      BY <2>1, <3>1 DEF SaveAnswer
  <2> QED
    BY <2>1, <2>2 DEF SaveAnswer
<1>6. ASSUME NEW i \in 1 .. Len(p.items)
      PROVE  LET item == p.items[i]  again == n.items[i]
             IN  /\ again.clientId = Trimmed(item.clientId) /\ again.path = NormalPath(item.path)
                 /\ again.overrides = NormalOverrides(item.overrides)
                 /\ item.overrides \in Seq(OverrideForms)
                 /\ again.title = item.title /\ (again.listsFit <=> item.listsFit)
                 /\ (again.showSchedule <=> item.showSchedule) /\ again.scheduleAt = item.scheduleAt
  <2> PICK item : item = p.items[i]
    OBVIOUS
  <2> PICK again : again = n.items[i]
    OBVIOUS
  <2>1. item \in ItemForms /\ again = NormalItem(item)
    BY <1>1, <1>4
  <2>2. item.overrides \in Seq(OverrideForms)
    BY <2>1 DEF ItemForms
  <2>3. /\ again.clientId = Trimmed(item.clientId) /\ again.path = NormalPath(item.path)
        /\ again.overrides = NormalOverrides(item.overrides)
        /\ again.title = item.title /\ (again.listsFit <=> item.listsFit)
        /\ (again.showSchedule <=> item.showSchedule) /\ again.scheduleAt = item.scheduleAt
    BY ONLY <2>1, NormalItemFields
  <2> QED
    BY <2>2, <2>3
<1>7. PayloadValid(n)
  <2>1. PartValid(n) /\ ~n.over
    BY <1>1, <1>5 DEF PayloadValid, PartValid
  <2>2. ASSUME NEW i \in DOMAIN n.items  PROVE PartValid(n.items[i])
    <3>1. PartValid(p.items[i])
      BY <1>4, <1>5 DEF PayloadValid
    <3>2. n.items[i].title = p.items[i].title /\ (n.items[i].listsFit <=> p.items[i].listsFit)
      BY <1>4, <1>6
    <3> QED
      BY <3>1, <3>2 DEF PartValid
  <2> QED
    BY <2>1, <2>2 DEF PayloadValid
<1>8. \A i \in DOMAIN n.items : ~PathRefused(n.items[i].path)
  BY <1>4, <1>5, <1>6 DEF PathRefused, NormalPath
<1>9. /\ PartPasses(p)
      /\ \A i \in 1 .. Len(p.items) : ClientIdFits(p.items, i) /\ PartPasses(p.items[i])
  BY <1>5, PassesWhen
<1>10. PartPasses(n)
  BY <1>1, <1>3, <1>9, PartPassesAgain
<1>11. ASSUME NEW i \in 1 .. Len(p.items)  PROVE PartPasses(n.items[i])
  BY <1>6, <1>9, PartPassesAgain
<1>12. ASSUME ~SameButForBlanks(p.items), NEW i \in 1 .. Len(p.items)
       PROVE  ClientIdFits(n.items, i)
  <2>1. n.items[i].clientId = Trimmed(p.items[i].clientId)
    BY <1>6
  <2>2. n.items[i].clientId.text # ""
    <3>1. p.items[i].clientId.text # ""
      BY <1>9 DEF ClientIdFits
    <3>2. Trimmed(p.items[i].clientId).text = p.items[i].clientId.text
      BY DEF Trimmed
    <3> QED
      BY <2>1, <3>1, <3>2
  <2>3. ASSUME NEW j \in 1 .. i - 1  PROVE n.items[j].clientId # n.items[i].clientId
    <3>1. j \in 1 .. Len(p.items) /\ j # i
      BY <1>3
    <3>2. n.items[j].clientId = Trimmed(p.items[j].clientId)
      BY <1>6, <3>1
    <3>3. Trimmed(p.items[j].clientId) # Trimmed(p.items[i].clientId)
      BY <1>4, <1>12, <3>1 DEF SameButForBlanks
    <3> QED
      BY <2>1, <3>2, <3>3
  <2> QED
    BY <2>2, <2>3 DEF ClientIdFits
<1>13. ASSUME ~SameButForBlanks(p.items)  PROVE SaveAnswer(n, Bound) = "saved"
  <2>1. ValidatePayload(n) = "ok"
    BY <1>1, <1>10, <1>11, <1>12, <1>13, PassesWhen
  <2> QED
    BY <1>2, <1>5, <1>7, <1>8, <2>1 DEF SaveAnswer
<1> QED
  BY <1>2, <1>13

(* What PublishDraftsService.create stored is what an update would store: the *)
(* detail of a draft can be sent back and changes nothing.                    *)
THEOREM SavedAgain == InputSpec => []SavedSavesAgain
<1>1. InputsInv => SavedSavesAgain
  <2> SUFFICES ASSUME InputsInv, endpoint = "draft", SaveAnswer(form, Bound) = "saved"
               PROVE  /\ NormalPayload(NormalPayload(form)) = NormalPayload(form)
                      /\ SaveAnswer(NormalPayload(form), Bound) = "saved" \/ SameButForBlanks(form.items)
    BY DEF SavedSavesAgain
  <2>1. form \in PayloadForms
    BY DEF InputsInv
  <2> QED
    BY <2>1, DraftStays
<1> QED
  BY <1>1, InputsInvariance, PTL

(* -------------------------------- clips ----------------------------------- *)

(* The highlights that analyze_highlights may find: no shorter than asked.    *)
HighlightSet(lo) == {h \in ProposalForms : h.end - h.start >= lo}

(* Those that the model proposed and that were wanted, ...                    *)
LEMMA WantedFit ==
  ASSUME NEW clips \in Seq(ProposalForms), NEW lo \in Nat, NEW hi \in Nat
  PROVE  Wanted(clips, lo, hi) \in Seq(HighlightSet(lo))
<1> DEFINE at == {i \in DOMAIN clips : clips[i].end - clips[i].start >= lo
                                        /\ 5 * (clips[i].end - clips[i].start) <= 6 * hi}
<1> PICK w : w = Wanted(clips, lo, hi)
  OBVIOUS
<1>1. w = Filtered(clips, at)
  BY DEF Wanted
<1>2. at \cap 1 .. Len(clips) = at /\ \A i \in at : i \in 1 .. Len(clips) /\ clips[i].end - clips[i].start >= lo
  OBVIOUS
<1> HIDE DEF at
<1>3. w \in Seq(ProposalForms)
  BY ONLY <1>1, clips \in Seq(ProposalForms), FilteredFacts
<1>4. \E take : TakenAt(w, clips, take, at)
  <2>1. \E take : TakenAt(w, clips, take, at \cap 1 .. Len(clips))
    BY ONLY <1>1, clips \in Seq(ProposalForms), FilteredFacts
  <2> QED
    BY ONLY <1>2, <2>1
<1>5. PICK take : TakenAt(w, clips, take, at)
  BY <1>4
<1>6. ASSUME NEW k \in 1 .. Len(w)  PROVE w[k] \in HighlightSet(lo)
  <2>1. take[k] \in at /\ w[k] = clips[take[k]]
    BY <1>5 DEF TakenAt
  <2>2. w[k] \in ProposalForms
    BY <1>3
  <2>3. w[k].end - w[k].start >= lo
    BY <1>2, <2>1
  <2> QED
    BY <2>2, <2>3 DEF HighlightSet
<1> QED
  BY <1>3, <1>6

(* ... a window that the rules flush, ...                                     *)
LEMMA FlushedFit ==
  ASSUME NEW segs \in Seq(SegmentForms), NEW from \in 1 .. Len(segs), NEW to \in 1 .. Len(segs),
         NEW lo \in Nat, NEW hi \in Nat, lo <= hi
  PROVE  Flushed(segs, from, to, lo, hi) \in Seq(HighlightSet(lo))
<1> PICK start : start = segs[from].start
  OBVIOUS
<1> PICK end : end = segs[to].end
  OBVIOUS
<1> PICK score : score = Cardinality(UNION {segs[k].keywords : k \in from .. to})
  OBVIOUS
<1>1. \A k \in 1 .. Len(segs) : segs[k] \in SegmentForms
  OBVIOUS
<1>2. start \in Int /\ end \in Int
  BY <1>1 DEF SegmentForms
<1>3. score \in Int
  <2> PICK said : said = UNION {segs[k].keywords : k \in from .. to}
    OBVIOUS
  <2>1. \A k \in from .. to : segs[k].keywords \in SUBSET Words
    BY <1>1 DEF SegmentForms
  <2>2. said \in SUBSET Words
    BY <2>1
  <2>3. IsFiniteSet(said)
    BY <2>2, WordsAreFinite, FS_Subset
  <2>4. Cardinality(said) \in Nat
    BY <2>3, FS_CardinalityType
  <2> QED
    BY <2>4
<1> PICK h : h = [start |-> start, end |-> Sooner(end, start + hi), score |-> score]
  OBVIOUS
<1>4. Flushed(segs, from, to, lo, hi) = IF end - start < lo THEN << >> ELSE << h >>
  BY DEF Flushed
<1>5. h \in ProposalForms /\ h.start = start /\ h.end = Sooner(end, start + hi)
  BY <1>2, <1>3 DEF ProposalForms, Sooner
<1>6. CASE end - start < lo
  BY <1>4, <1>6
<1>7. CASE ~ (end - start < lo)
  <2>1. h \in HighlightSet(lo)
    BY <1>2, <1>5, <1>7 DEF HighlightSet, Sooner
  <2> QED
    BY <1>4, <1>7, <2>1
<1> QED
  BY <1>6, <1>7

(* ... and all that the rules find.                                           *)
LEMMA RuleBasedFit ==
  ASSUME NEW segs \in Seq(SegmentForms), NEW lo \in Nat, NEW hi \in Nat, lo <= hi
  PROVE  RuleBased(segs, lo, hi) \in Seq(HighlightSet(lo))
<1> DEFINE N == Len(segs)
           H == Seq(HighlightSet(lo))
           V == [from : 1 .. N + 1, found : H]
           Closes(p, n) == (\E k \in p.from .. n : segs[k].keywords # {})
                              /\ segs[n].end - segs[p.from].start >= lo
           Next1(p, n) == IF Closes(p, n)
                          THEN [from |-> n + 1, found |-> p.found \o Flushed(segs, p.from, n, lo, hi)]
                          ELSE p
           first == [from |-> 1, found |-> << >>]
           Body(u) == [n \in 0 .. N |-> IF n = 0 THEN first ELSE Next1(u[n - 1], n)]
           c == CHOOSE u : u = Body(u)
           Guarded(p, n) == IF p.from <= n THEN Next1(p, n) ELSE p
           step == [n \in 1 .. N |-> [p \in V |-> Guarded(p, n)]]
<1>1. N \in Nat
  OBVIOUS
<1>2. RuleBased(segs, lo, hi) =
        IF c[N].from > N THEN c[N].found ELSE c[N].found \o Flushed(segs, c[N].from, N, lo, hi)
  BY DEF RuleBased
<1>3. first \in V
  BY <1>1
<1>4. ASSUME NEW n \in 1 .. N, NEW p \in V, p.from <= n
      PROVE  Next1(p, n) \in V /\ Next1(p, n).from <= n + 1
  <2>1. p.from \in 1 .. N /\ p.found \in H
    BY <1>4
  <2>2. Flushed(segs, p.from, n, lo, hi) \in H
    BY <2>1, FlushedFit
  <2>3. p.found \o Flushed(segs, p.from, n, lo, hi) \in H
    BY <2>1, <2>2
  <2> HIDE DEF H, Closes
  <2>4. [from |-> n + 1, found |-> p.found \o Flushed(segs, p.from, n, lo, hi)] \in V
    BY <2>3
  <2> QED
    BY <1>4, <2>4
<1>5. ASSUME NEW n \in 1 .. N, NEW p \in V  PROVE Guarded(p, n) \in V
  <2> HIDE DEF Next1, V
  <2> QED
    BY <1>4
<1>6. step \in [1 .. N -> [V -> V]]
  <2> HIDE DEF Guarded, V
  <2> QED
    BY <1>5
<1>7. \A n \in 1 .. N, p \in V : step[n][p] = Guarded(p, n)
  <2> HIDE DEF Guarded, V
  <2> QED
    OBVIOUS
<1>8. \A p \in V : p.from \in 1 .. N + 1 /\ p.found \in H
  <2> HIDE DEF H, N
  <2> QED
    OBVIOUS
<1>9. first.from = 1
  OBVIOUS
<1>10. Body(c) = [n \in 0 .. N |-> IF n = 0 THEN first ELSE Next1(c[n - 1], n)]
  OBVIOUS
<1> HIDE DEF N, V, H, Next1, first, Body, c, step
<1>11. Tables(N, V, first, step) # {}
  <2>1. step \in StepTables(N, V)
    BY <1>6 DEF StepTables
  <2> QED
    BY ONLY <1>1, <1>3, <2>1, Recursion
<1>12. PICK u \in [0 .. N -> V] : u[0] = first /\ \A n \in 1 .. N : u[n] = step[n][u[n - 1]]
  BY <1>11 DEF Tables
<1>13. \A n \in 0 .. N : u[n].from <= n + 1
  <2> DEFINE T == {n \in 0 .. N : u[n].from <= n + 1}
  <2>1. 0 \in T
    BY <1>1, <1>9, <1>12
  <2>2. ASSUME NEW n \in 1 .. N, n - 1 \in T  PROVE n \in T
    <3>1. u[n - 1] \in V /\ u[n - 1].from <= n
      BY <1>1, <2>2
    <3>2. u[n] = Guarded(u[n - 1], n)
      BY <1>7, <1>12, <3>1
    <3>3. u[n] = Next1(u[n - 1], n)
      BY <3>1, <3>2
    <3>4. u[n].from <= n + 1
      BY <1>4, <3>1, <3>3
    <3> QED
      BY <3>4
  <2> HIDE DEF T
  <2>3. 0 .. N \subseteq T
    BY ONLY <1>1, <2>1, <2>2, UpTo
  <2> QED
    BY <2>3 DEF T
<1>14. ASSUME NEW n \in 1 .. N  PROVE u[n] = Next1(u[n - 1], n)
  <2>1. n - 1 \in 0 .. N /\ n - 1 + 1 = n
    BY <1>1
  <2>2. u[n - 1] \in V /\ u[n - 1].from <= n
    BY <1>13, <2>1
  <2>3. u[n] = Guarded(u[n - 1], n)
    BY <1>7, <1>12, <2>2
  <2> QED
    BY <2>2, <2>3
<1>15. u = Body(u)
  <2>1. ASSUME NEW n \in 0 .. N  PROVE u[n] = Body(u)[n]
    <3>1. Body(u)[n] = IF n = 0 THEN first ELSE Next1(u[n - 1], n)
      BY DEF Body
    <3>2. CASE n = 0
      BY <1>12, <3>1, <3>2
    <3>3. CASE n \in 1 .. N
      <4>1. n # 0
        BY <3>3
      <4> QED
        BY <1>14, <3>1, <3>3, <4>1
    <3> QED
      BY <1>1, <3>2, <3>3
  <2>2. u = [n \in 0 .. N |-> u[n]] /\ Body(u) = [n \in 0 .. N |-> Body(u)[n]]
    BY DEF Body
  <2> QED
    BY <2>1, <2>2
<1>16. c = Body(c)
  BY <1>15 DEF c
<1>17. c[0] = first
  <2>1. 0 \in 0 .. N
    BY <1>1
  <2> QED
    BY <1>10, <1>16, <2>1
<1>18. ASSUME NEW n \in 1 .. N  PROVE c[n] = Next1(c[n - 1], n)
  <2>1. n \in 0 .. N /\ n # 0
    BY <1>1
  <2> QED
    BY <1>10, <1>16, <2>1
<1>19. c[N] \in V
  <2> DEFINE T == {n \in 0 .. N : c[n] \in V /\ c[n].from <= n + 1}
  <2>1. 0 \in T
    BY <1>1, <1>3, <1>9, <1>17
  <2>2. ASSUME NEW n \in 1 .. N, n - 1 \in T  PROVE n \in T
    <3>1. c[n - 1] \in V /\ c[n - 1].from <= n
      BY <1>1, <2>2
    <3>2. c[n] = Next1(c[n - 1], n)
      BY <1>18
    <3>3. c[n] \in V /\ c[n].from <= n + 1
      BY <1>4, <3>1, <3>2
    <3> QED
      BY <3>3
  <2> HIDE DEF T
  <2>3. 0 .. N \subseteq T
    BY ONLY <1>1, <2>1, <2>2, UpTo
  <2>4. N \in T
    BY <1>1, <2>3
  <2> QED
    BY <2>4 DEF T
<1> PICK last : last = c[N]
  OBVIOUS
<1>20. last.from \in 1 .. N + 1 /\ last.found \in H
  BY <1>8, <1>19
<1>21. CASE last.from > N
  BY <1>2, <1>20, <1>21 DEF H
<1>22. CASE ~ (last.from > N)
  <2>1. last.from \in 1 .. Len(segs) /\ N \in 1 .. Len(segs)
    BY <1>1, <1>20, <1>22 DEF N
  <2>2. Flushed(segs, last.from, N, lo, hi) \in H
    BY <2>1, FlushedFit DEF H
  <2>3. last.found \o Flushed(segs, last.from, N, lo, hi) \in H
    BY <1>20, <2>2 DEF H
  <2> QED
    BY <1>2, <1>22, <2>3 DEF H
<1> QED
  BY <1>21, <1>22

(* A total order on the numbers up to n gives each of them a rank.            *)
TotalOrder(n, R) ==
    /\ \A i \in 1 .. n : << i, i >> \notin R
    /\ \A i, j \in 1 .. n : i # j => << i, j >> \in R \/ << j, i >> \in R
    /\ \A i, j, k \in 1 .. n : << i, j >> \in R /\ << j, k >> \in R => << i, k >> \in R
Below(n, R, j) == {i \in 1 .. n : << i, j >> \in R}

(* Each rank up to n is that of one of them.                                  *)
LEMMA EachRankTaken ==
  ASSUME NEW n \in Nat, NEW R, TotalOrder(n, R), NEW k \in 1 .. n
  PROVE  \E j \in 1 .. n : 1 + Cardinality(Below(n, R, j)) = k
<1> DEFINE Rank(j) == 1 + Cardinality(Below(n, R, j))
           f == [j \in 1 .. n |-> Rank(j)]
<1>1. IsFiniteSet(1 .. n) /\ Cardinality(1 .. n) = n
  BY FS_Interval
<1>2. \A j \in 1 .. n : Below(n, R, j) \in SUBSET (1 .. n)
  BY DEF Below
<1>3. ASSUME NEW j \in 1 .. n
      PROVE  IsFiniteSet(Below(n, R, j)) /\ Cardinality(Below(n, R, j)) \in Nat
                /\ Cardinality(Below(n, R, j)) < n
  <2>1. IsFiniteSet(Below(n, R, j)) /\ Cardinality(Below(n, R, j)) <= n
    BY <1>1, <1>2, FS_Subset
  <2>2. Cardinality(Below(n, R, j)) \in Nat
    BY <2>1, FS_CardinalityType
  <2>3. Cardinality(Below(n, R, j)) # n
    <3>1. SUFFICES ASSUME Cardinality(Below(n, R, j)) = n  PROVE FALSE
      OBVIOUS
    <3>2. Below(n, R, j) = 1 .. n
      BY <1>1, <1>2, <3>1, FS_Subset
    <3>3. j \in Below(n, R, j)
      BY <3>2
    <3> QED
      BY <3>3 DEF Below, TotalOrder
  <2> QED
    BY <2>1, <2>2, <2>3
<1>4. ASSUME NEW i \in 1 .. n, NEW j \in 1 .. n, << i, j >> \in R
      PROVE  Cardinality(Below(n, R, i)) # Cardinality(Below(n, R, j))
  <2>1. Below(n, R, i) \in SUBSET Below(n, R, j)
    BY <1>4 DEF Below, TotalOrder
  <2>2. i \in Below(n, R, j) /\ i \notin Below(n, R, i)
    BY <1>4 DEF Below, TotalOrder
  <2>3. IsFiniteSet(Below(n, R, j))
    BY <1>3
  <2>4. Cardinality(Below(n, R, j)) = Cardinality(Below(n, R, i)) => Below(n, R, j) = Below(n, R, i)
    BY ONLY <2>1, <2>3, FS_Subset
  <2> QED
    BY <2>2, <2>4
<1>5. f \in [1 .. n -> 1 .. n]
  BY <1>3
<1>6. \A i, j \in 1 .. n : f[i] = f[j] => i = j
  <2>1. ASSUME NEW i \in 1 .. n, NEW j \in 1 .. n, i # j  PROVE f[i] # f[j]
    <3>1. Cardinality(Below(n, R, i)) # Cardinality(Below(n, R, j))
      BY <1>4, <2>1 DEF TotalOrder
    <3> QED
      BY <1>3, <3>1
  <2> QED
    BY <2>1
<1>7. \A j \in 1 .. n : f[j] = Rank(j)
  OBVIOUS
<1> HIDE DEF f
<1>8. f \in Injection(1 .. n, 1 .. n)
  BY <1>5, <1>6 DEF Injection, IsInjective
<1>9. f \in Surjection(1 .. n, 1 .. n)
  BY <1>1, <1>8, FS_Injection
<1>10. PICK j \in 1 .. n : f[j] = k
  BY <1>9 DEF Surjection
<1> QED
  BY <1>7, <1>10

(* Sorted by their scores, highlights are still highlights.                   *)
LEMMA ByScoreFit ==
  ASSUME NEW lo \in Nat, NEW hs \in Seq(HighlightSet(lo))
  PROVE  ByScore(hs) \in Seq(HighlightSet(lo)) /\ Len(ByScore(hs)) = Len(hs)
<1> PICK n : n = Len(hs)
  OBVIOUS
<1> DEFINE Before(i, j) == hs[i].score > hs[j].score \/ (hs[i].score = hs[j].score /\ i < j)
           R == {ij \in (1 .. n) \X (1 .. n) : Before(ij[1], ij[2])}
<1>1. n \in Nat /\ DOMAIN hs = 1 .. n /\ \A i \in 1 .. n : hs[i] \in HighlightSet(lo)
  OBVIOUS
<1>2. \A i \in 1 .. n : hs[i].score \in Int
  BY <1>1 DEF HighlightSet, ProposalForms
<1>3. \A i, j \in 1 .. n : << i, j >> \in R <=> Before(i, j)
  OBVIOUS
<1>4. TotalOrder(n, R)
  <2>1. \A i \in 1 .. n : ~Before(i, i)
    BY <1>1, <1>2
  <2>2. \A i, j \in 1 .. n : i # j => Before(i, j) \/ Before(j, i)
    BY <1>1, <1>2
  <2>3. \A i, j, k \in 1 .. n : Before(i, j) /\ Before(j, k) => Before(i, k)
    BY <1>1, <1>2
  <2> HIDE DEF R, Before
  <2> QED
    BY <1>3, <2>1, <2>2, <2>3 DEF TotalOrder
<1>5. \A j \in 1 .. n : {i \in DOMAIN hs : Before(i, j)} = Below(n, R, j)
  <2> HIDE DEF R, Before
  <2> QED
    BY <1>1, <1>3 DEF Below
<1>6. ByScore(hs) = [k \in DOMAIN hs |->
        hs[CHOOSE j \in DOMAIN hs : 1 + Cardinality({i \in DOMAIN hs : Before(i, j)}) = k]]
  BY DEF ByScore
<1> HIDE DEF R, Before
<1>7. ASSUME NEW k \in 1 .. n
      PROVE  hs[CHOOSE j \in DOMAIN hs : 1 + Cardinality({i \in DOMAIN hs : Before(i, j)}) = k]
                \in HighlightSet(lo)
  <2>1. \E j \in 1 .. n : 1 + Cardinality(Below(n, R, j)) = k
    BY <1>1, <1>4, EachRankTaken
  <2>2. \E j \in DOMAIN hs : 1 + Cardinality({i \in DOMAIN hs : Before(i, j)}) = k
    BY <1>1, <1>5, <2>1
  <2> PICK ranked : ranked = CHOOSE j \in DOMAIN hs : 1 + Cardinality({i \in DOMAIN hs : Before(i, j)}) = k
    OBVIOUS
  <2>3. ranked \in DOMAIN hs
    BY <2>2
  <2>4. hs[ranked] \in HighlightSet(lo)
    BY <1>1, <2>3
  <2> QED
    BY <2>4
<1> PICK sorted : sorted = ByScore(hs)
  OBVIOUS
<1>8. /\ \A k \in 1 .. n : sorted[k] \in HighlightSet(lo)
      /\ DOMAIN sorted = 1 .. n
      /\ sorted = [k \in 1 .. n |-> sorted[k]]
  BY <1>1, <1>6, <1>7
<1>9. sorted \in Seq(HighlightSet(lo)) /\ Len(sorted) = n
  BY ONLY <1>1, <1>8
<1> QED
  BY <1>9

(* What analyze_highlights finds in any recording.                            *)
LEMMA HighlightsFit ==
  ASSUME NEW rec \in RecordingForms
  PROVE  Highlights(rec) \in Seq(HighlightSet(rec.lo))
<1> DEFINE proposed == IF rec.model = "none" THEN << >> ELSE Wanted(rec.proposal, rec.lo, rec.hi)
           found == IF proposed = << >> THEN RuleBased(rec.segments, rec.lo, rec.hi) ELSE proposed
<1>1. /\ rec.segments \in Seq(SegmentForms) /\ rec.proposal \in Seq(ProposalForms)
      /\ rec.lo \in Nat /\ rec.hi \in Nat /\ rec.lo <= rec.hi /\ rec.maxClips \in Nat
  BY DEF RecordingForms
<1>2. proposed = << >> \/ proposed = Wanted(rec.proposal, rec.lo, rec.hi)
  OBVIOUS
<1>3. Highlights(rec) = SubSeq(ByScore(found), 1, Sooner(rec.maxClips, Len(found)))
  BY DEF Highlights
<1>4. found = RuleBased(rec.segments, rec.lo, rec.hi) \/ found = Wanted(rec.proposal, rec.lo, rec.hi)
  BY <1>2
<1> HIDE DEF found
<1>5. found \in Seq(HighlightSet(rec.lo))
  BY <1>1, <1>4, RuleBasedFit, WantedFit
<1> PICK sorted : sorted = ByScore(found)
  OBVIOUS
<1>6. sorted \in Seq(HighlightSet(rec.lo)) /\ Len(sorted) = Len(found)
  BY <1>1, <1>5, ByScoreFit
<1> PICK m : m = Sooner(rec.maxClips, Len(found))
  OBVIOUS
<1>7. m \in Nat /\ m <= Len(sorted)
  BY <1>1, <1>5, <1>6 DEF Sooner
<1>8. SubSeq(sorted, 1, m) \in Seq(HighlightSet(rec.lo))
  BY ONLY <1>6, <1>7
<1> QED
  BY <1>3, <1>8

(* snap_to_scene: a moment moves to a scene boundary at most Tolerance away,  *)
(* or stays.                                                                  *)
LEMMA SnappedNear ==
  ASSUME NEW value \in Int, NEW boundaries, boundaries \subseteq Int
  PROVE  /\ Snapped(value, boundaries) \in Int
         /\ Snapped(value, boundaries) \in boundaries \cup {value}
         /\ Apart(Snapped(value, boundaries), value) <= Tolerance
<1> DEFINE near == {b \in boundaries : Apart(b, value) <= Tolerance}
           First(b) == \A c \in near : \/ Apart(b, value) < Apart(c, value)
                                       \/ Apart(b, value) = Apart(c, value) /\ b <= c
<1>1. CASE near = {}
  <2>1. Snapped(value, boundaries) = value
    BY <1>1 DEF Snapped
  <2> QED
    BY <2>1 DEF Apart, Tolerance
<1>2. CASE near # {}
  <2>1. \A b \in near : b \in value - 2 .. value + 2
    BY DEF Apart, Tolerance
  <2>2. \E b \in near : First(b)
    <3>1. CASE value \in near
      <4>1. First(value)
        BY <2>1 DEF Apart
      <4> QED
        BY <3>1, <4>1
    <3>2. CASE value \notin near /\ value - 1 \in near
      <4>1. First(value - 1)
        BY <2>1, <3>2 DEF Apart
      <4> QED
        BY <3>2, <4>1
    <3>3. CASE value \notin near /\ value - 1 \notin near /\ value + 1 \in near
      <4>1. First(value + 1)
        BY <2>1, <3>3 DEF Apart
      <4> QED
        BY <3>3, <4>1
    <3>4. CASE near \cap {value - 1, value, value + 1} = {} /\ value - 2 \in near
      <4>1. First(value - 2)
        BY <2>1, <3>4 DEF Apart
      <4> QED
        BY <3>4, <4>1
    <3>5. CASE near \cap {value - 2, value - 1, value, value + 1} = {}
      <4>0. \A b \in near : b = value + 2
        BY <2>1, <3>5
      <4>1. near = {value + 2}
        BY ONLY <1>2, <4>0
      <4>2. First(value + 2)
        BY <4>1 DEF Apart
      <4> QED
        BY <4>1, <4>2
    <3> QED
      BY <3>1, <3>2, <3>3, <3>4, <3>5
  <2>3. Snapped(value, boundaries) = CHOOSE b \in near : First(b)
    BY <1>2 DEF Snapped
  <2>4. Snapped(value, boundaries) \in near
    BY <2>2, <2>3
  <2> QED
    BY <2>4
<1> QED
  BY <1>1, <1>2

(* The clip of a highlight of any recording: a highlight that lies in the     *)
(* video and is longer than the tolerance of a scene boundary gives a clip    *)
(* that lies in the video, is no longer than the longest, and no shorter than *)
(* the shortest unless the video ends first.                                  *)
THEOREM ClipInVideo ==
  ASSUME NEW h, NEW rec, h.start \in Int, h.end \in Int, InVideo(h, rec), h.end - h.start > Tolerance,
         rec.source \in Int, rec.boundaries \subseteq 0 .. rec.source,
         rec.lo \in Nat \ {0}, rec.hi \in Nat, rec.lo <= rec.hi
  PROVE  /\ 0 <= ClipOf(h, rec).start /\ ClipOf(h, rec).start < ClipOf(h, rec).end
         /\ ClipOf(h, rec).end <= rec.source
         /\ ClipOf(h, rec).end - ClipOf(h, rec).start <= rec.hi
         /\ \/ ClipOf(h, rec).end - ClipOf(h, rec).start >= rec.lo
            \/ ClipOf(h, rec).end = rec.source
<1>1. rec.boundaries \subseteq Int
  OBVIOUS
<1> PICK start : start = Snapped(h.start, rec.boundaries)
  OBVIOUS
<1> PICK snapped : snapped = Snapped(h.end, rec.boundaries)
  OBVIOUS
<1>2. /\ start \in Int /\ 0 <= start /\ start <= h.start + Tolerance
      /\ snapped \in Int /\ snapped <= rec.source
  <2>1. /\ start \in Int /\ start \in rec.boundaries \cup {h.start}
        /\ Apart(start, h.start) <= Tolerance
    BY <1>1, SnappedNear
  <2>2. snapped \in Int /\ snapped \in rec.boundaries \cup {h.end}
    BY <1>1, SnappedNear
  <2> QED
    BY <2>1, <2>2 DEF Apart, Tolerance, InVideo
<1> DEFINE after == IF snapped <= start THEN h.end ELSE snapped
           long == IF after - start < rec.lo THEN Prolonged(start, rec.lo, rec.source) ELSE after
<1>3. after \in Int /\ start < after /\ after <= rec.source
  BY <1>2 DEF InVideo, Tolerance
<1> HIDE DEF after
<1>4. /\ long \in Int /\ start < long /\ long <= rec.source
      /\ long - start >= rec.lo \/ long = rec.source
  BY <1>2, <1>3 DEF Prolonged, Sooner
<1>5. /\ ClipOf(h, rec).start = start
      /\ ClipOf(h, rec).end = IF long - start > rec.hi THEN start + rec.hi ELSE long
  BY DEF ClipOf, after
<1> HIDE DEF long
<1> QED
  BY <1>2, <1>4, <1>5

(* The cue of a segment that is heard in a clip lies in the clip, and those   *)
(* of two segments one after the other are one after the other, for any       *)
(* times: what ClipPlays asks of the cues, before they are put in a row.      *)
THEOREM CuesInClip ==
  ASSUME NEW clip, clip.start \in Int, clip.end \in Int,
         NEW seg, seg.start \in Int, seg.end \in Int, seg.start < seg.end, Heard(seg, clip),
         NEW later, later.start \in Int, later.end \in Int, later.start < later.end, Heard(later, clip),
         seg.end <= later.start
  PROVE  /\ \A s \in {seg, later} :
               /\ 0 <= CueOf(s, clip).from /\ CueOf(s, clip).from < CueOf(s, clip).to
               /\ CueOf(s, clip).to <= clip.end - clip.start
         /\ CueOf(seg, clip).to <= CueOf(later, clip).from
<1>1. ASSUME NEW s, s.start \in Int, s.end \in Int, s.start < s.end, Heard(s, clip), clip.start < clip.end
      PROVE  /\ 0 <= CueOf(s, clip).from /\ CueOf(s, clip).from < CueOf(s, clip).to
             /\ CueOf(s, clip).to <= clip.end - clip.start
  BY <1>1 DEF CueOf, Heard, Sooner
<1>2. clip.start < clip.end
  BY DEF Heard
<1>3. CueOf(seg, clip).to <= CueOf(later, clip).from
  BY DEF CueOf, Heard, Sooner
<1> QED
  BY <1>1, <1>2, <1>3

(* The cues of a clip lie in it, one after another, however many they are.    *)
LEMMA CuesFitClip ==
  ASSUME NEW clip, clip.start \in Int, clip.end \in Int, clip.start < clip.end, NEW segs \in Seq(SegmentForms),
         \A i, j \in 1 .. Len(segs) : i < j => segs[i].end <= segs[j].start
  PROVE  CuesFit(Cues(clip, segs), clip)
<1> DEFINE at == {i \in DOMAIN segs : Heard(segs[i], clip)}
<1> PICK heard : heard = Filtered(segs, at)
  OBVIOUS
<1> PICK cues : cues = Cues(clip, segs)
  OBVIOUS
<1>1. cues = [k \in DOMAIN heard |-> CueOf(heard[k], clip)]
  BY DEF Cues
<1>2. at \cap 1 .. Len(segs) = at /\ \A i \in at : i \in 1 .. Len(segs) /\ Heard(segs[i], clip)
  OBVIOUS
<1> HIDE DEF at
<1>3. heard \in Seq(SegmentForms)
  BY ONLY heard = Filtered(segs, at), segs \in Seq(SegmentForms), FilteredFacts
<1>4. \E take : TakenAt(heard, segs, take, at)
  <2>1. \E take : TakenAt(heard, segs, take, at \cap 1 .. Len(segs))
    BY ONLY heard = Filtered(segs, at), segs \in Seq(SegmentForms), FilteredFacts
  <2> QED
    BY ONLY <1>2, <2>1
<1>5. PICK take : TakenAt(heard, segs, take, at)
  BY <1>4
<1>6. \A k \in 1 .. Len(heard) : heard[k] = segs[take[k]] /\ take[k] \in 1 .. Len(segs) /\ Heard(heard[k], clip)
  BY <1>2, <1>5 DEF TakenAt
<1>7. \A j, k \in 1 .. Len(heard) : j < k => take[j] < take[k]
  BY <1>5 DEF TakenAt
<1>8. DOMAIN cues = 1 .. Len(heard) /\ \A k \in 1 .. Len(heard) : cues[k] = CueOf(heard[k], clip)
  BY <1>1, <1>3
<1>9. \A k \in 1 .. Len(heard) :
         heard[k].start \in Int /\ heard[k].end \in Int /\ heard[k].start < heard[k].end
  <2>1. ASSUME NEW k \in 1 .. Len(heard)
        PROVE  heard[k].start \in Int /\ heard[k].end \in Int /\ heard[k].start < heard[k].end
    <3>1. heard[k] \in SegmentForms
      BY <1>3
    <3> QED
      BY <3>1 DEF SegmentForms
  <2> QED
    BY <2>1
<1>10. ASSUME NEW k \in 1 .. Len(heard)
       PROVE  cues[k].from < cues[k].to /\ cues[k].to <= clip.end - clip.start
  <2> PICK seg : seg = heard[k]
    OBVIOUS
  <2>1. seg.start \in Int /\ seg.end \in Int /\ seg.start < seg.end /\ Heard(seg, clip) /\ cues[k] = CueOf(seg, clip)
    BY <1>6, <1>8, <1>9
  <2>2. CueOf(seg, clip).from < CueOf(seg, clip).to /\ CueOf(seg, clip).to <= clip.end - clip.start
    BY ONLY <2>1, clip.start \in Int, clip.end \in Int, clip.start < clip.end DEF CueOf, Heard, Sooner
  <2> QED
    BY <2>1, <2>2
<1>11. ASSUME NEW k \in 1 .. Len(heard), k > 1
       PROVE  cues[k - 1].to <= cues[k].from
  <2>1. k - 1 \in 1 .. Len(heard) /\ k - 1 < k
    BY <1>11
  <2> PICK seg : seg = heard[k - 1]
    OBVIOUS
  <2> PICK later : later = heard[k]
    OBVIOUS
  <2>2. take[k - 1] < take[k]
    BY <1>7, <2>1
  <2>3. seg.end <= later.start
    BY <1>6, <2>1, <2>2
  <2>4. /\ seg.start \in Int /\ seg.end \in Int /\ seg.start < seg.end /\ Heard(seg, clip)
        /\ later.start \in Int /\ later.end \in Int /\ later.start < later.end /\ Heard(later, clip)
    BY <1>6, <1>9, <2>1
  <2>5. CueOf(seg, clip).to <= CueOf(later, clip).from
    BY ONLY <2>3, <2>4, clip.start \in Int, clip.end \in Int, CuesInClip
  <2> QED
    BY <1>8, <2>1, <2>5
<1> QED
  BY <1>8, <1>10, <1>11 DEF CuesFit

(* Every clip that the worker cuts from any recording plays: the highlights   *)
(* of any transcript and any answer of the model, snapped to any boundaries.  *)
THEOREM AnyClipPlays ==
  ASSUME NEW rec \in RecordingForms, NEW k \in DOMAIN Highlights(rec),
         InVideo(Highlights(rec)[k], rec)
  PROVE  LET clip == ClipOf(Highlights(rec)[k], rec)  length == clip.end - clip.start
         IN  /\ 0 <= clip.start /\ clip.start < clip.end /\ clip.end <= rec.source
             /\ length <= rec.hi /\ (length >= rec.lo \/ clip.end = rec.source)
             /\ CuesFit(Cues(clip, rec.segments), clip)
<1> PICK h : h = Highlights(rec)[k]
  OBVIOUS
<1> PICK clip : clip = ClipOf(h, rec)
  OBVIOUS
<1>1. /\ rec.segments \in Seq(SegmentForms)
      /\ rec.source \in Int /\ rec.boundaries \subseteq 0 .. rec.source
      /\ rec.lo \in Nat /\ Tolerance < rec.lo /\ rec.hi \in Nat /\ rec.lo <= rec.hi
      /\ \A i, j \in 1 .. Len(rec.segments) : i < j => rec.segments[i].end <= rec.segments[j].start
  BY DEF RecordingForms
<1>2. h \in HighlightSet(rec.lo)
  BY HighlightsFit
<1>3. h.start \in Int /\ h.end \in Int /\ h.end - h.start > Tolerance
  BY <1>1, <1>2 DEF HighlightSet, ProposalForms, Tolerance
<1>4. rec.lo \in Nat \ {0}
  BY <1>1 DEF Tolerance
<1>5. /\ 0 <= clip.start /\ clip.start < clip.end /\ clip.end <= rec.source
      /\ clip.end - clip.start <= rec.hi
      /\ clip.end - clip.start >= rec.lo \/ clip.end = rec.source
  BY <1>1, <1>3, <1>4, ClipInVideo
<1>6. clip.start \in Int /\ clip.end \in Int
  <2> PICK start : start = Snapped(h.start, rec.boundaries)
    OBVIOUS
  <2> PICK snapped : snapped = Snapped(h.end, rec.boundaries)
    OBVIOUS
  <2>1. start \in Int /\ snapped \in Int
    <3>1. rec.boundaries \subseteq Int
      BY <1>1
    <3> QED
      BY <1>3, <3>1, SnappedNear
  <2> DEFINE after == IF snapped <= start THEN h.end ELSE snapped
             long == IF after - start < rec.lo THEN Prolonged(start, rec.lo, rec.source) ELSE after
  <2>2. /\ clip.start = start
        /\ clip.end = IF long - start > rec.hi THEN start + rec.hi ELSE long
    BY DEF ClipOf
  <2>3. long \in Int
    BY <1>1, <1>3, <2>1 DEF Prolonged, Sooner
  <2> HIDE DEF long
  <2> QED
    BY <1>1, <2>1, <2>2, <2>3
<1>7. CuesFit(Cues(clip, rec.segments), clip)
  BY <1>1, <1>5, <1>6, CuesFitClip
<1> QED
  BY <1>5, <1>7

(* Every clip of a recording plays: it lies in the video, is as long as was asked *)
(* for unless the video ends first, and has its cues in it one after another. *)
THEOREM ClipsPlay == InputSpec => []ClipPlays
<1>1. InputsInv => ClipPlays
  <2> SUFFICES ASSUME InputsInv, endpoint = "slice", NEW k \in DOMAIN Highlights(form),
                      InVideo(Highlights(form)[k], form)
               PROVE  LET clip == ClipOf(Highlights(form)[k], form)  length == clip.end - clip.start
                      IN  /\ 0 <= clip.start /\ clip.start < clip.end /\ clip.end <= form.source
                          /\ length <= form.hi /\ (length >= form.lo \/ clip.end = form.source)
                          /\ CuesFit(Cues(clip, form.segments), clip)
    BY DEF ClipPlays
  <2>1. form \in RecordingForms
    BY DEF InputsInv
  <2> QED
    BY <2>1, AnyClipPlays
<1> QED
  BY <1>1, InputsInvariance, PTL

(* ------------------------------ the drafts -------------------------------- *)

(* The fields of a request at rest, of no draft and of an empty one.          *)
LEMMA IdleFacts ==
  /\ Idle \in RequestStates /\ NoDraft \in DraftRows /\ Empty \in DraftRows
  /\ Idle.op = "none" /\ Idle.at = "idle" /\ Idle.d = None /\ Idle.kind = "video"
  /\ Idle.held = NoDraft /\ Idle.new = None /\ Idle.old = {}
  /\ NoDraft.status = "none" /\ NoDraft.video = None
  /\ Empty.status = "draft" /\ Empty.video = None
  /\ NoAsset.draft = None /\ NoAsset \in [draft : Drafts \cup {None}, kind : Kinds]
  BY DEF Idle, NoDraft, Empty, NoAsset, RequestStates, DraftRows, Kinds, Steps, Ops

(* A request at rest has the shape of its step.                               *)
LEMMA ShapeIdle == Shape(Idle)
  BY IdleFacts DEF Shape, Finding, Filing

(* What Becomes does to the requests.                                         *)
LEMMA DraftBecomes ==
  ASSUME req \in [Requests -> RequestStates],
         NEW q \in Requests, NEW r \in RequestStates, Becomes(q, r)
  PROVE  /\ req' \in [Requests -> RequestStates]
         /\ req'[q] = r
         /\ \A o \in Requests \ {q} : req'[o] = req[o]
  BY DEF Becomes

(* A step of request q at draft d, which makes it r: the bookkeeping ...      *)
Turns(q, r, d) ==
    /\ Becomes(q, r)
    /\ r \in RequestStates /\ Shape(r)
    /\ d \in Drafts /\ req[q].d \in {d, None} /\ r.d \in {d, None}
    /\ used \subseteq used' /\ used' \subseteq Drafts \cup Assets /\ d \in used'
    /\ overlapped \subseteq overlapped' /\ overlapped' \subseteq overlapped \cup {d}
    /\ marred \subseteq marred' /\ marred' \subseteq marred \cup {d}
    /\ d \notin overlapped' => \A o \in Requests \ {q} : req[o].d # d
    /\ \A o \in Requests \ {q} : At(o, "inserting") => req[o].d # d
    /\ r.at = "inserting" => ~Exists(d)' /\ \A o \in Requests \ {q} : req[o].d # d

(* ... and what it may touch: what belongs to d.                              *)
Touches(r, d, home, next) ==
    /\ next \in [Assets -> Drafts \cup {None}]
    /\ \A a \in Assets : next[a] = home[a] \/ (home[a] = None /\ next[a] = d /\ a \in used')
    /\ draft' \in [Drafts -> DraftRows]
    /\ asset' \in [Assets -> [draft : Drafts \cup {None}, kind : Kinds]]
    /\ file' \in [Assets -> Drafts \cup {None}]
    /\ \A e \in Drafts \ {d} : draft'[e] = draft[e]
    /\ \A a \in Assets : next[a] # d => asset'[a] = asset[a] /\ file'[a] = file[a]
    /\ \A a \in Assets : next[a] = d => asset'[a].draft \in {None, d} /\ file'[a] \in {None, d}
    /\ \A a \in Assets : asset'[a].draft = d => Exists(d)'
    /\ draft'[d].video # None => next[draft'[d].video] = d
    /\ ~Exists(d)' => draft'[d] = NoDraft
    /\ \A a \in Assets : a = r.new \/ a \in r.old \/ a = r.held.video => next[a] = d

(* A step that turns one request and touches one draft keeps the types.       *)
LEMMA TypeFrame ==
  ASSUME TypeOK, NEW home, OwnedBy(home), NEW q \in Requests, NEW r, NEW d, NEW next,
         Turns(q, r, d), Touches(r, d, home, next)
  PROVE  TypeOK'
<1>1. req' \in [Requests -> RequestStates]
  BY DraftBecomes DEF TypeOK, Turns
<1>2. ASSUME NEW a \in Assets, Recorded(a)'
      PROVE  Exists(asset[a].draft)'
  <2>1. CASE asset'[a].draft = d
    BY <2>1 DEF Touches, Exists
  <2>2. CASE asset'[a].draft # d
    <3>1. next[a] # d
      BY <1>2, <2>2 DEF Touches, Recorded
    <3>2. asset'[a] = asset[a]
      BY <3>1 DEF Touches
    <3>3. asset[a].draft \in Drafts /\ Exists(asset[a].draft)
      BY <1>2, <3>2 DEF Recorded, TypeOK
    <3> QED
      BY <2>2, <3>2, <3>3 DEF Touches, Exists
  <2> QED
    BY <2>1, <2>2
<1>3. overlapped' \subseteq Drafts /\ marred' \subseteq Drafts /\ used' \subseteq Drafts \cup Assets
  BY DEF TypeOK, Turns
<1> QED
  BY <1>1, <1>2, <1>3 DEF TypeOK, Touches

(* ... and every other request's shape, ...                                   *)
LEMMA ShapeFrame ==
  ASSUME TypeOK, ShapeInv, NEW home, NEW q \in Requests, NEW r, NEW d, NEW next,
         Turns(q, r, d), Touches(r, d, home, next)
  PROVE  ShapeInv'
<1>1. ASSUME NEW o \in Requests
      PROVE  Shape(req'[o])
  <2>1. req'[o] = r \/ req'[o] = req[o]
    BY DraftBecomes DEF TypeOK, Turns
  <2> QED
    BY <2>1 DEF ShapeInv, Turns
<1>2. ASSUME NEW e \in Drafts, ~Exists(e)'
      PROVE  draft'[e] = NoDraft
  <2>1. CASE e = d
    BY <1>2, <2>1 DEF Touches
  <2>2. CASE e # d
    BY <1>2, <2>2 DEF Touches, ShapeInv, Exists
  <2> QED
    BY <2>1, <2>2
<1> QED
  BY <1>1, <1>2 DEF ShapeInv

(* ... leaves each asset, file and naming request at home, ...                *)
LEMMA OwnFrame ==
  ASSUME TypeOK, ShapeInv, NEW home \in [Assets -> Drafts \cup {None}], OwnedBy(home),
         NEW q \in Requests, NEW r, NEW d, NEW next, Turns(q, r, d), Touches(r, d, home, next)
  PROVE  OwnedBy(next)'
<1>1. \A a \in Assets : home[a] # None => next[a] = home[a]
  BY DEF Touches
<1>2. ASSUME NEW a \in Assets
      PROVE  /\ next[a] # None => a \in used'
             /\ asset'[a].draft \in {None, next[a]} /\ file'[a] \in {None, next[a]}
  <2>1. next[a] # None => a \in used'
    BY DEF Touches, Turns, OwnedBy
  <2>2. CASE next[a] = d
    BY <2>1, <2>2 DEF Touches
  <2>3. CASE next[a] # d
    <3>1. asset'[a] = asset[a] /\ file'[a] = file[a] /\ next[a] = home[a]
      BY <2>3 DEF Touches
    <3> QED
      BY <2>1, <3>1 DEF OwnedBy
  <2> QED
    BY <2>2, <2>3
<1>3. ASSUME NEW e \in Drafts, draft'[e].video # None
      PROVE  next[draft'[e].video] = e
  <2>1. CASE e = d
    BY <1>3, <2>1 DEF Touches
  <2>2. CASE e # d
    <3>1. draft'[e] = draft[e]
      BY <2>2 DEF Touches
    <3>2. draft[e].video \in Assets /\ home[draft[e].video] = e
      BY <1>3, <3>1 DEF OwnedBy, TypeOK, DraftRows
    <3>3. e # None
      BY PublishDraftAssumption
    <3> QED
      BY <1>1, <3>1, <3>2, <3>3
  <2> QED
    BY <2>1, <2>2
<1>4. ASSUME NEW o \in Requests, NEW a \in Assets,
             a = req'[o].new \/ a \in req'[o].old \/ a = req'[o].held.video
      PROVE  next[a] = req'[o].d
  <2>1. CASE o = q
    <3>1. req'[o] = r
      BY <2>1, DraftBecomes DEF TypeOK, Turns
    <3>2. next[a] = d
      BY <1>4, <3>1 DEF Touches
    <3>3. r.at # "idle"
      BY <1>4, <3>1, IdleFacts, PublishDraftAssumption DEF Turns, Shape
    <3> QED
      BY <3>1, <3>2, <3>3 DEF Turns, Shape
  <2>2. CASE o # q
    <3>1. req'[o] = req[o]
      BY <2>2, DraftBecomes DEF TypeOK, Turns
    <3>2. home[a] = req[o].d
      BY <1>4, <3>1 DEF OwnedBy, Holds
    <3>3. req[o].d # None
      BY <1>4, <3>1, IdleFacts, PublishDraftAssumption DEF ShapeInv, Shape
    <3> QED
      BY <1>1, <3>1, <3>2, <3>3
  <2> QED
    BY <2>1, <2>2
<1> QED
  BY <1>2, <1>3, <1>4 DEF OwnedBy, Holds

(* ... gives out no id twice, ...                                             *)
LEMMA UsedFrame ==
  ASSUME TypeOK, UsedInv, NEW home, NEW q \in Requests, NEW r, NEW d, NEW next,
         Turns(q, r, d), Touches(r, d, home, next)
  PROVE  UsedInv'
<1> SUFFICES ASSUME NEW e \in Drafts, e # d, Exists(e)' \/ Busy(e, Requests)'
             PROVE  e \in used'
  BY DEF UsedInv, Turns
<1>1. CASE Exists(e)'
  BY <1>1 DEF Exists, Touches, UsedInv, Turns
<1>2. CASE Busy(e, Requests)'
  <2>1. PICK o \in Requests : req'[o].d = e
    BY <1>2 DEF Busy
  <2>2. o # q
    BY <2>1, DraftBecomes, PublishDraftAssumption DEF TypeOK, Turns
  <2>3. req[o].d = e
    BY <2>1, <2>2, DraftBecomes DEF TypeOK, Turns
  <2> QED
    BY <2>3 DEF UsedInv, Busy, Turns
<1> QED
  BY <1>1, <1>2

(* ... leaves the requests that share a draft marked as such, ...             *)
LEMMA LoneFrame ==
  ASSUME TypeOK, LoneInv, NEW home, NEW q \in Requests, NEW r, NEW d, NEW next,
         Turns(q, r, d), Touches(r, d, home, next), TypeOK', ShapeInv'
  PROVE  LoneInv'
<1>1. /\ req'[q] = r
      /\ \A o \in Requests \ {q} : req'[o] = req[o]
  BY DraftBecomes DEF TypeOK, Turns
<1>2. ASSUME NEW p \in Requests, NEW o \in Requests \ {p},
             req'[p].d = req'[o].d, req'[p].d # None
      PROVE  req'[p].d \in overlapped'
  <2>1. CASE p = q
    BY <1>1, <1>2, <2>1 DEF Turns
  <2>2. CASE o = q
    BY <1>1, <1>2, <2>2 DEF Turns
  <2>3. CASE p # q /\ o # q
    BY <1>1, <1>2, <2>3 DEF LoneInv, Turns
  <2> QED
    BY <2>1, <2>2, <2>3
<1>3. ASSUME NEW p \in Requests, req'[p].at = "inserting",
             NEW e \in Drafts, req'[p].d = e
      PROVE  ~Exists(e)' /\ \A o \in Requests \ {p} : req'[o].d # e
  <2>0. d # None /\ e # None
    BY PublishDraftAssumption DEF Turns
  <2>1. CASE p = q
    <3>1. r.d = e /\ e = d /\ r.at = "inserting"
      BY <1>1, <1>3, <2>0, <2>1 DEF Turns
    <3>2. ~Exists(d)' /\ \A o \in Requests \ {q} : req[o].d # d
      BY <3>1 DEF Turns
    <3> QED
      BY <1>1, <2>1, <3>1, <3>2
  <2>2. CASE p # q
    <3>1. req[p].d = e /\ At(p, "inserting") /\ e # d
      BY <1>1, <1>3, <2>2 DEF At, Turns
    <3>2. ~Exists(e) /\ \A o \in Requests \ {p} : req[o].d # e
      BY <3>1 DEF LoneInv
    <3>3. ~Exists(e)'
      BY <3>1, <3>2 DEF Exists, Touches
    <3>4. r.d # e
      BY <2>0, <3>1 DEF Turns
    <3> QED
      BY <1>1, <3>2, <3>3, <3>4
  <2> QED
    BY <2>1, <2>2
<1>4. ASSUME NEW p \in Requests, req'[p].at = "inserting"
      PROVE  req'[p].d \in Drafts
  <2>1. Shape(req'[p])
    BY DEF ShapeInv
  <2>2. req'[p].d \in Drafts \cup {None}
    BY DEF TypeOK, RequestStates
  <2> QED
    BY <1>4, <2>1, <2>2 DEF Shape
<1>5. ASSUME NEW p \in Requests, At(p, "inserting")'
      PROVE  ~Exists(req[p].d)' /\ (\A o \in Requests \ {p} : req[o].d # req[p].d)'
  <2>1. PICK e \in Drafts : req'[p].d = e
    BY <1>4, <1>5 DEF At
  <2>2. ~Exists(e)' /\ \A o \in Requests \ {p} : req'[o].d # e
    BY <1>3, <1>5, <2>1 DEF At
  <2> QED
    BY <2>1, <2>2 DEF Exists
<1> QED
  BY <1>2, <1>5 DEF LoneInv

(* The step leaves every other draft as tidy as it was.                       *)
LEMMA TidyElsewhere ==
  ASSUME TypeOK, NEW home \in [Assets -> Drafts \cup {None}], OwnedBy(home),
         NEW r, NEW d \in Drafts, NEW next, Touches(r, d, home, next), marred \subseteq marred',
         NEW e \in Drafts \ {d}, NEW s \in RequestStates, Shape(s), Tidy(e, s),
         \A a \in Assets : a = s.new \/ a \in s.old => home[a] = e
  PROVE  Tidy(e, s)'
<1>0. e # None /\ d # None
  BY PublishDraftAssumption
<1>1. draft'[e] = draft[e]
  BY DEF Touches
<1>2. ASSUME NEW a \in Assets, home[a] = e
      PROVE  asset'[a] = asset[a] /\ file'[a] = file[a]
  BY <1>0, <1>2 DEF Touches
<1>3. ASSUME NEW a \in Assets, asset'[a].draft = e \/ asset[a].draft = e \/ file'[a] = e \/ file[a] = e
      PROVE  home[a] = e
  <2>1. asset[a].draft = e \/ file[a] = e => home[a] = e
    BY <1>0 DEF OwnedBy
  <2>2. asset'[a].draft = e \/ file'[a] = e => asset'[a] = asset[a] /\ file'[a] = file[a]
    BY <1>0 DEF Touches
  <2> QED
    BY <1>3, <2>1, <2>2
<1>4. Listed(e)' = Listed(e) /\ \A p : Covers(e, p)' = Covers(e, p)
  <2>1. \A a \in Assets : asset'[a].draft = e <=> asset[a].draft = e
    BY <1>2, <1>3
  <2>2. ASSUME NEW p, NEW a \in Assets
        PROVE  asset'[a] = [draft |-> e, kind |-> p] <=> asset[a] = [draft |-> e, kind |-> p]
    BY <1>2, <1>3
  <2> QED
    BY <2>1, <2>2 DEF Listed, Covers
<1>5. s.new \in Assets \cup {None} /\ s.old \subseteq Assets
  BY DEF RequestStates
<1>6. RowKept(e, s)'
  BY <1>1, <1>4 DEF Tidy, RowKept, Exists
<1>7. NewKept(e, s)'
  <2>1. Filing(s) => s.new \in Assets /\ home[s.new] = e
    BY <1>5 DEF Shape
  <2>2. Filing(s) => asset'[s.new] = asset[s.new] /\ file'[s.new] = file[s.new]
    BY <1>2, <2>1
  <2>3. Filed(s) => Filing(s)
    BY DEF Filed
  <2> QED
    BY <2>2, <2>3 DEF Tidy, NewKept, Recorded
<1>8. OldKept(e, s)'
  <2>1. \A a \in s.old : asset'[a] = asset[a] /\ file'[a] = file[a]
    BY <1>2, <1>5
  <2> QED
    BY <1>1, <2>1 DEF Tidy, OldKept
<1>9. VideoTidy(e)'
  <2>1. draft[e].video # None => draft[e].video \in Assets /\ home[draft[e].video] = e
    BY DEF TypeOK, DraftRows, OwnedBy
  <2> QED
    BY <1>1, <1>2, <2>1 DEF Tidy, VideoTidy
<1>10. CoversTidy(e, s) => CoversTidy(e, s)'
  <2>1. \A p : \A a \in Covers(e, p) : file'[a] = file[a]
    BY <1>2, <1>3 DEF Covers
  <2>2. \A a : Leaving(s, a)' <=> Leaving(s, a)
    BY DEF Leaving
  <2> QED
    BY <1>4, <2>1, <2>2 DEF CoversTidy
<1>11. FilesTidy(e, s) => FilesTidy(e, s)'
  <2>1. ASSUME NEW a \in Assets, file'[a] = e
        PROVE  file[a] = e /\ asset'[a] = asset[a]
    BY <1>2, <1>3, <2>1
  <2> QED
    BY <2>1 DEF FilesTidy
<1> QED
  BY <1>6, <1>7, <1>8, <1>9, <1>10, <1>11 DEF Tidy

(* ... and leaves every other draft tidy, so that its own is all there is to  *)
(* show.                                                                      *)
LEMMA TidyFrame ==
  ASSUME TypeOK, ShapeInv, NEW home \in [Assets -> Drafts \cup {None}], OwnedBy(home), LoneInv, TidyInv,
         NEW q \in Requests, NEW r, NEW d, NEW next,
         Turns(q, r, d), Touches(r, d, home, next),
         d \notin overlapped' => Tidy(d, r)'
  PROVE  TidyInv'
<1>0. d \in Drafts /\ d # None /\ marred \subseteq marred'
  BY PublishDraftAssumption DEF Turns
<1>1. /\ req'[q] = r /\ r \in RequestStates /\ Shape(r)
      /\ \A o \in Requests \ {q} : req'[o] = req[o]
  BY DraftBecomes DEF TypeOK, Turns
<1>2. ASSUME d \notin overlapped'
      PROVE  /\ \A o \in Requests : req'[o].d = d => Tidy(d, req[o])'
             /\ ~Busy(d, Requests)' => Tidy(d, Idle)'
  <2>1. Tidy(d, r)'
    BY <1>2
  <2>2. ASSUME NEW o \in Requests, req'[o].d = d
        PROVE  Tidy(d, req[o])'
    <3>1. o = q
      BY <1>1, <1>2, <2>2 DEF Turns
    <3>2. r = req'[o]
      BY <1>1, <3>1
    <3> QED
      BY <2>1, <3>2
  <2>3. ASSUME ~Busy(d, Requests)'
        PROVE  Tidy(d, Idle)'
    <3>1. r.d = None
      BY <1>1, <2>3 DEF Busy, Turns
    <3>2. r = Idle
      BY <1>1, <3>1 DEF Shape
    <3> QED
      BY <2>1, <3>2
  <2> QED
    BY <2>2, <2>3
<1>3. ASSUME NEW e \in Drafts \ {d}, e \notin overlapped'
      PROVE  /\ \A o \in Requests : req'[o].d = e => Tidy(e, req[o])'
             /\ ~Busy(e, Requests)' => Tidy(e, Idle)'
  <2>0. e # None /\ e \notin overlapped
    BY <1>3, PublishDraftAssumption DEF Turns
  <2>1. ASSUME NEW o \in Requests, req'[o].d = e
        PROVE  Tidy(e, req[o])'
    <3>1. o # q
      BY <1>1, <2>0, <2>1 DEF Turns
    <3>2. PICK s \in RequestStates : s = req[o] /\ s = req'[o]
      BY <1>1, <3>1 DEF TypeOK
    <3>3. Shape(s) /\ Tidy(e, s)
      BY <2>0, <2>1, <3>2 DEF ShapeInv, TidyInv
    <3>4. \A a \in Assets : a = s.new \/ a \in s.old => home[a] = e
      BY <2>1, <3>2 DEF OwnedBy, Holds
    <3>5. Tidy(e, s)'
      BY <1>0, <3>3, <3>4, TidyElsewhere
    <3> QED
      BY <3>2, <3>5
  <2>2. ASSUME ~Busy(e, Requests)'
        PROVE  Tidy(e, Idle)'
    <3>1. ~Busy(e, Requests)
      <4>1. req[q].d # e
        BY <1>0, <2>0 DEF Turns
      <4> QED
        BY <1>1, <2>2, <4>1 DEF Busy
    <3>2. Tidy(e, Idle)
      BY <2>0, <3>1 DEF TidyInv
    <3>3. Idle \in RequestStates /\ Idle.new = None /\ Idle.old = {} /\ None \notin Assets
      BY IdleFacts, PublishDraftAssumption
    <3>4. \A a \in Assets : a = Idle.new \/ a \in Idle.old => home[a] = e
      BY <3>3
    <3> QED
      BY <1>0, <3>2, <3>3, <3>4, ShapeIdle, TidyElsewhere
  <2> QED
    BY <2>1, <2>2
<1> QED
  BY <1>2, <1>3 DEF TidyInv

(* A step that is such a step, and leaves its own draft tidy, is safe.        *)
LEMMA DraftFrame ==
  ASSUME DraftInv, NEW home \in [Assets -> Drafts \cup {None}], OwnedBy(home),
         NEW q \in Requests, NEW r, NEW d, NEW next,
         Turns(q, r, d), Touches(r, d, home, next),
         d \notin overlapped' => Tidy(d, r)'
  PROVE  DraftInv'
<1> USE DEF DraftInv
<1>1. TypeOK'
  BY TypeFrame
<1>2. ShapeInv'
  BY ShapeFrame
<1>3. OwnInv'
  <2>1. OwnedBy(next)'
    BY OwnFrame
  <2>2. next \in [Assets -> Drafts \cup {None}]
    BY DEF Touches
  <2> QED
    BY <2>1, <2>2 DEF OwnInv
<1>4. UsedInv'
  BY UsedFrame
<1>5. LoneInv'
  BY <1>1, <1>2, LoneFrame
<1>6. TidyInv'
  BY TidyFrame
<1> QED
  BY <1>1, <1>2, <1>3, <1>4, <1>5, <1>6

(* What a request in progress may count on.                                   *)
LEMMA Ongoing ==
  ASSUME DraftInv, NEW q \in Requests, req[q].at # "idle", NEW d, d = req[q].d
  PROVE  /\ d \in Drafts /\ d \in used /\ Shape(req[q]) /\ req[q] \in RequestStates
         /\ d \notin overlapped => Tidy(d, req[q]) /\ \A o \in Requests \ {q} : req[o].d # d
         /\ \A o \in Requests \ {q} : At(o, "inserting") => req[o].d # d
<1>1. Shape(req[q]) /\ req[q] \in RequestStates
  BY DEF DraftInv, ShapeInv, TypeOK
<1>2. d \in Drafts /\ d # None
  BY <1>1 DEF Shape, RequestStates
<1>3. d \in used
  BY <1>2 DEF DraftInv, UsedInv, Busy
<1>4. d \notin overlapped => Tidy(d, req[q]) /\ \A o \in Requests \ {q} : req[o].d # d
  BY <1>2 DEF DraftInv, TidyInv, LoneInv
<1>5. \A o \in Requests \ {q} : At(o, "inserting") => req[o].d # d
  BY <1>2 DEF DraftInv, LoneInv
<1> QED
  BY <1>1, <1>2, <1>3, <1>4, <1>5

(* A request in the middle of its work keeps the invariant when it leaves its *)
(* own draft tidy.                                                            *)
LEMMA OngoingStep ==
  ASSUME DraftInv, NEW home \in [Assets -> Drafts \cup {None}], OwnedBy(home),
         NEW q \in Requests, NEW s, s = req[q], s.at # "idle", NEW d, d = s.d,
         NEW r \in RequestStates, Becomes(q, r), Shape(r), r.d \in {d, None}, r.at # "inserting",
         UNCHANGED <<used, overlapped>>, marred' \in {marred, marred \cup {d}},
         Touches(r, d, home, home),
         d \notin overlapped /\ Tidy(d, s) => Tidy(d, r)'
  PROVE  DraftInv'
<1>1. /\ d \in Drafts /\ d \in used
      /\ d \notin overlapped => Tidy(d, s) /\ \A o \in Requests \ {q} : req[o].d # d
      /\ \A o \in Requests \ {q} : At(o, "inserting") => req[o].d # d
  BY Ongoing
<1>2. used' = used /\ overlapped' = overlapped /\ used \subseteq Drafts \cup Assets
  BY DEF DraftInv, TypeOK
<1>3. Turns(q, r, d)
  BY <1>1, <1>2 DEF Turns
<1> QED
  BY <1>1, <1>2, <1>3, DraftFrame

(* Nothing is touched.                                                        *)
LEMMA TouchesNothing ==
  ASSUME DraftInv, NEW home \in [Assets -> Drafts \cup {None}], OwnedBy(home),
         NEW d \in Drafts, UNCHANGED store, NEW r,
         \A a \in Assets : a = r.new \/ a \in r.old \/ a = r.held.video => home[a] = d
  PROVE  Touches(r, d, home, home)
<1>1. draft' = draft /\ asset' = asset /\ file' = file
  BY DEF store
<1>2. \A a \in Assets : asset[a].draft = d => Exists(d)
  BY PublishDraftAssumption DEF DraftInv, TypeOK, Recorded
<1>3. \A a \in Assets : home[a] = d => asset[a].draft \in {None, d} /\ file[a] \in {None, d}
  BY DEF OwnedBy
<1>4. draft[d].video # None => home[draft[d].video] = d
  BY DEF OwnedBy
<1>5. ~Exists(d) => draft[d] = NoDraft
  BY DEF DraftInv, ShapeInv
<1> QED
  BY <1>1, <1>2, <1>3, <1>4, <1>5 DEF Touches, DraftInv, TypeOK, Exists

(* When the store stays, tidiness is that of the request's next state.        *)
LEMMA TidySame ==
  ASSUME NEW d, NEW r, UNCHANGED store,
         RowKept(d, r), NewKept(d, r), OldKept(d, r), VideoTidy(d),
         d \notin marred' => CoversTidy(d, r) /\ FilesTidy(d, r)
  PROVE  Tidy(d, r)'
<1>1. draft' = draft /\ asset' = asset /\ file' = file
  BY DEF store
<1>2. RowKept(d, r)' /\ NewKept(d, r)' /\ OldKept(d, r)' /\ VideoTidy(d)'
  <2>1. Listed(d)' = Listed(d)
    BY <1>1 DEF Listed
  <2> QED
    BY <1>1, <2>1 DEF RowKept, NewKept, OldKept, VideoTidy, Exists, Recorded
<1>3. CoversTidy(d, r) => CoversTidy(d, r)'
  <2>1. \A p : Covers(d, p)' = Covers(d, p)
    BY <1>1 DEF Covers
  <2> QED
    BY <1>1, <2>1 DEF CoversTidy, Leaving
<1>4. FilesTidy(d, r) => FilesTidy(d, r)'
  BY <1>1 DEF FilesTidy
<1> QED
  BY <1>2, <1>3, <1>4 DEF Tidy

(* A step of a handler that only looks, or ends, or breaks off.               *)
LEMMA LookingStep ==
  ASSUME DraftInv, NEW q \in Requests, NEW s, s = req[q], s.at # "idle", NEW d, d = s.d,
         NEW r \in RequestStates, Becomes(q, r), Shape(r), r.d \in {d, None}, r.at # "inserting",
         UNCHANGED <<store, used, overlapped>>, marred' \in {marred, marred \cup {d}},
         r.new \in {None, s.new}, r.held \in {NoDraft, s.held},
         \A a \in r.old : a \in s.old \/ asset[a].draft = d,
         d \notin overlapped /\ Tidy(d, s) => RowKept(d, r) /\ NewKept(d, r) /\ OldKept(d, r),
         d \notin overlapped /\ Tidy(d, s) /\ d \notin marred' => CoversTidy(d, r) /\ FilesTidy(d, r)
  PROVE  DraftInv'
<1>1. PICK home \in [Assets -> Drafts \cup {None}] : OwnedBy(home)
  BY DEF DraftInv, OwnInv
<1>2. d \in Drafts /\ d # None
  BY Ongoing, PublishDraftAssumption
<1>3. ASSUME NEW a \in Assets, a = r.new \/ a \in r.old \/ a = r.held.video
      PROVE  home[a] = d
  <2>1. a # None /\ NoDraft.video = None
    BY IdleFacts, PublishDraftAssumption
  <2>2. CASE asset[a].draft = d
    BY <1>1, <1>2, <2>2 DEF OwnedBy
  <2>3. CASE asset[a].draft # d
    <3>1. a = s.new \/ a \in s.old \/ a = s.held.video
      BY <1>3, <2>1, <2>3
    <3> QED
      BY <1>1, <3>1 DEF OwnedBy, Holds
  <2> QED
    BY <2>2, <2>3
<1>4. UNCHANGED store /\ UNCHANGED <<used, overlapped>>
  OBVIOUS
<1>5. Touches(r, d, home, home)
  BY <1>1, <1>2, <1>3, <1>4, TouchesNothing
<1>6. d \notin overlapped /\ Tidy(d, s) => Tidy(d, r)'
  <2> SUFFICES ASSUME d \notin overlapped, Tidy(d, s) PROVE Tidy(d, r)'
    OBVIOUS
  <2>1. VideoTidy(d)
    BY DEF Tidy
  <2> QED
    BY <1>4, <2>1, TidySame
<1> QED
  BY <1>1, <1>4, <1>5, <1>6, OngoingStep

(* remove reads the assets of the draft.                                      *)
LEMMA ListDraft ==
  ASSUME DraftInv, NEW q \in Requests, ListAssets(q)
  PROVE  DraftInv'
<1>1. PICK s : s = req[q]
  OBVIOUS
<1>2. PICK d : d = s.d
  OBVIOUS
<1>3. PICK r : r = [s EXCEPT !.at = "removing", !.old = Listed(d)]
  OBVIOUS
<1>4. s.at = "listing" /\ Becomes(q, r) /\ UNCHANGED <<store, used, history>>
  BY <1>1, <1>2, <1>3 DEF ListAssets, At
<1>5. s \in RequestStates /\ Shape(s) /\ d \in Drafts
  BY <1>1, <1>2, <1>4, Ongoing
<1>6. Listed(d) \subseteq Assets /\ \A a \in Listed(d) : asset[a].draft = d
  BY DEF Listed
<1>7. /\ r \in RequestStates
      /\ r.op = s.op /\ r.at = "removing" /\ r.d = d /\ r.kind = s.kind
      /\ r.held = s.held /\ r.new = s.new /\ r.old = Listed(d)
  BY ONLY <1>2, <1>3, <1>5, <1>6 DEF RequestStates, Steps
<1>8. Shape(r)
  BY ONLY <1>4, <1>5, <1>7, <1>2 DEF Shape, Finding, Filing
<1>9. s.held.status = "none" /\ s.new = None /\ s.held.video = None
  BY ONLY <1>4, <1>5 DEF Shape, Finding, Filing
<1>10. RowKept(d, r) /\ NewKept(d, r) /\ OldKept(d, r)
  BY ONLY <1>7 DEF RowKept, NewKept, OldKept, Finding, Filing, Filed
<1>11. CoversTidy(d, s) /\ FilesTidy(d, s) => CoversTidy(d, r) /\ FilesTidy(d, r)
  BY ONLY <1>4, <1>5, <1>7 DEF CoversTidy, FilesTidy, Leaving, Listed, Shape
<1> QED
  BY <1>1, <1>2, <1>4, <1>6, <1>7, <1>8, <1>10, <1>11, LookingStep DEF history, Tidy

(* The cover of the platform is looked for among the assets of the draft.     *)
LEMMA SeekDraft ==
  ASSUME DraftInv, NEW q \in Requests, SeekCover(q)
  PROVE  DraftInv'
<1>1. PICK s : s = req[q]
  OBVIOUS
<1>2. PICK d : d = s.d
  OBVIOUS
<1>3. s.at = "seeking" /\ UNCHANGED <<store, used, history>>
  BY <1>1 DEF SeekCover, At
<1>4. s \in RequestStates /\ Shape(s) /\ d \in Drafts
  BY <1>1, <1>2, <1>3, Ongoing
<1>5. s.old = {} /\ s.kind \in Platforms /\ s.kind # "video" /\ s.op \in {"upload", "uncover"}
  BY ONLY <1>3, <1>4 DEF Shape, RequestStates, Kinds
<1>6. ASSUME NEW old \in SUBSET Assets, NEW step \in {"recording", "retiring", "pointing"},
             old = {} => Covers(d, s.kind) = {}, old # {} => \E a \in Covers(d, s.kind) : old = {a},
             s.op = "upload" => step = "recording",
             s.op = "uncover" => step = IF old = {} THEN "pointing" ELSE "retiring",
             NEW r, r = [s EXCEPT !.at = step, !.old = old], Becomes(q, r)
      PROVE  DraftInv'
  <2>1. /\ r \in RequestStates
        /\ r.op = s.op /\ r.at = step /\ r.d = d /\ r.kind = s.kind
        /\ r.held = s.held /\ r.new = s.new /\ r.old = old
    BY ONLY <1>2, <1>4, <1>6 DEF RequestStates, Steps
  <2>2. \A a \in old : a \in Assets /\ asset[a] = [draft |-> d, kind |-> s.kind]
    BY <1>6 DEF Covers
  <2>3. Shape(r)
    BY ONLY <1>2, <1>3, <1>4, <1>5, <1>6, <2>1, <2>2 DEF Shape, Finding, Filing
  <2>4. Tidy(d, s) => RowKept(d, r) /\ NewKept(d, r)
    <3>1. /\ Finding(s) /\ Finding(r) /\ (Filing(s) <=> s.op = "upload") /\ ~Filed(s)
          /\ Filed(r) => Filing(r)
      BY ONLY <1>3, <1>5, <1>6, <2>1 DEF Finding, Filing, Filed
    <3>2. Filing(r) <=> Filing(s) /\ ~Filed(r)
      BY ONLY <1>3, <1>5, <1>6, <2>1, <3>1 DEF Filing, Filed
    <3>3. Filing(s) /\ NewKept(d, s) => s.new \notin old
      BY ONLY <1>4, <2>2, <3>1, PublishDraftAssumption DEF NewKept, Recorded
    <3> QED
      BY ONLY <1>6, <2>1, <3>1, <3>2, <3>3 DEF RowKept, NewKept, Tidy
  <2>5. OldKept(d, r)
    BY ONLY <1>5, <1>6, <2>1, <2>2 DEF OldKept
  <2>6. CoversTidy(d, s) /\ FilesTidy(d, s) => CoversTidy(d, r) /\ FilesTidy(d, r)
    <3>1. FilesTidy(d, s) => FilesTidy(d, r)
      BY ONLY <1>5, <2>1 DEF FilesTidy
    <3>2. \A a : ~Leaving(s, a)
      BY ONLY <1>3 DEF Leaving
    <3>3. CoversTidy(d, s) => Covers(d, s.kind) \subseteq old
      BY <1>5, <1>6, <3>2 DEF CoversTidy
    <3> QED
      BY ONLY <2>1, <3>1, <3>2, <3>3 DEF CoversTidy
  <2>7. \A a \in r.old : asset[a].draft = d
    BY <2>1, <2>2
  <2>8. UNCHANGED <<store, used, overlapped>> /\ marred' = marred
    BY <1>3 DEF history
  <2>9. r.at # "inserting" /\ s.at # "idle"
    BY <1>3, <2>1
  <2>10. /\ Tidy(d, s) => RowKept(d, r) /\ NewKept(d, r) /\ OldKept(d, r)
         /\ Tidy(d, s) /\ d \notin marred => CoversTidy(d, r) /\ FilesTidy(d, r)
    BY <2>4, <2>5, <2>6 DEF Tidy
  <2>11. Becomes(q, r) /\ q \in Requests /\ DraftInv /\ r \in RequestStates
    BY <1>6, <2>1
  <2>12. r.d \in {d, None} /\ r.new \in {None, s.new} /\ r.held \in {NoDraft, s.held}
    BY <2>1
  <2> QED
    BY ONLY <1>1, <1>2, <2>3, <2>7, <2>8, <2>9, <2>10, <2>11, <2>12, LookingStep
<1>7. CASE Covers(d, s.kind) = {} /\ Moves(q, IF s.op = "upload" THEN "recording" ELSE "pointing")
  <2>1. PICK step : step = IF s.op = "upload" THEN "recording" ELSE "pointing"
    OBVIOUS
  <2>2. PICK r : r = [s EXCEPT !.at = step]
    OBVIOUS
  <2>3. r = [s EXCEPT !.at = step, !.old = {}]
    BY ONLY <1>4, <1>5, <2>2 DEF RequestStates
  <2>4. Becomes(q, r)
    BY <1>1, <1>7, <2>1, <2>2 DEF Moves
  <2> QED
    BY <1>5, <1>6, <1>7, <2>1, <2>3, <2>4
<1>8. ASSUME NEW a \in Covers(d, s.kind),
             Becomes(q, [s EXCEPT !.at = IF s.op = "upload" THEN "recording" ELSE "retiring", !.old = {a}])
      PROVE  DraftInv'
  <2>1. PICK step : step = IF s.op = "upload" THEN "recording" ELSE "retiring"
    OBVIOUS
  <2>2. a \in Assets
    BY DEF Covers
  <2> QED
    BY <1>5, <1>6, <1>8, <2>1, <2>2
<1> QED
  BY <1>1, <1>2, <1>7, <1>8 DEF SeekCover

(* A handler that ends, having nothing left to do, or breaks off.             *)
LEMMA EndingStep ==
  ASSUME DraftInv, NEW q \in Requests, NEW s, s = req[q], s.at # "idle", NEW d, d = s.d,
         Ends(q), UNCHANGED <<store, used, overlapped>>, marred' \in {marred, marred \cup {d}},
         d \notin overlapped /\ Tidy(d, s) /\ d \notin marred' =>
             /\ s.at \notin {"retiring", "forgetting"}
             /\ \A a \in Assets : (a = s.new \/ a \in s.old) /\ file[a] = d => asset[a].draft = d
  PROVE  DraftInv'
<1>1. PICK r : r = Idle
  OBVIOUS
<1>2. /\ r \in RequestStates /\ Shape(r) /\ Becomes(q, r)
      /\ r.at = "idle" /\ r.d = None /\ r.held = NoDraft /\ r.new = None /\ r.old = {}
      /\ r.op = "none" /\ r.kind = "video"
  BY <1>1, IdleFacts, ShapeIdle DEF Ends
<1>3. RowKept(d, r) /\ NewKept(d, r) /\ OldKept(d, r)
  BY ONLY <1>2 DEF RowKept, NewKept, OldKept, Finding, Filing, Filed
<1>4. ASSUME d \notin overlapped, Tidy(d, s), d \notin marred'
      PROVE  CoversTidy(d, r) /\ FilesTidy(d, r)
  <2>1. d \notin marred
    BY <1>4
  <2>2. CoversTidy(d, s) /\ FilesTidy(d, s)
    BY <1>4, <2>1 DEF Tidy
  <2>3. \A a : ~Leaving(s, a)
    BY <1>4 DEF Leaving
  <2> QED
    BY <1>2, <1>4, <2>2, <2>3 DEF CoversTidy, FilesTidy
<1> QED
  BY <1>2, <1>3, <1>4, LookingStep

(* The removal of a cover has nothing to write in the draft, and ends.        *)
LEMMA NoPointDraft ==
  ASSUME DraftInv, NEW q \in Requests, NothingToPoint(q)
  PROVE  DraftInv'
<1>1. PICK s : s = req[q]
  OBVIOUS
<1>2. PICK d : d = s.d
  OBVIOUS
<1>3. s.at = "pointing" /\ s.op = "uncover" /\ Ends(q) /\ UNCHANGED <<store, used, history>>
  BY <1>1 DEF NothingToPoint, At
<1>4. Shape(s) /\ s \in RequestStates /\ d # None
  BY <1>1, <1>2, <1>3, Ongoing, PublishDraftAssumption
<1>5. s.new = None /\ None \notin Assets
  BY <1>3, <1>4, PublishDraftAssumption DEF Shape, Filing
<1>6. Tidy(d, s) => \A a \in s.old : file[a] = None
  BY <1>3 DEF Tidy, OldKept
<1> QED
  BY <1>1, <1>2, <1>3, <1>4, <1>5, <1>6, EndingStep DEF history

(* The process dies at any step of a request.                                 *)
LEMMA DieDraft ==
  ASSUME DraftInv, NEW q \in Requests, RequestDies(q)
  PROVE  DraftInv'
<1>1. req[q].at # "idle"
  BY DEF RequestDies, DraftInv, ShapeInv, Shape
<1> QED
  BY <1>1, EndingStep DEF RequestDies, Breaks

(* A video upload looks for the asset of the video it replaced.               *)
LEMMA LookDraft ==
  ASSUME DraftInv, NEW q \in Requests, LookForOld(q)
  PROVE  DraftInv'
<1>1. PICK s : s = req[q]
  OBVIOUS
<1>2. PICK d : d = s.d
  OBVIOUS
<1>3. s.at = "looking" /\ UNCHANGED <<store, used, history>>
  BY <1>1 DEF LookForOld, At
<1>4. s \in RequestStates /\ Shape(s) /\ d \in Drafts /\ d # None
  BY <1>1, <1>2, <1>3, Ongoing, PublishDraftAssumption
<1>5. s.new = None /\ s.kind = "video" /\ s.op = "upload" /\ s.held.status = "none"
  BY ONLY <1>3, <1>4 DEF Shape, Finding, Filing
<1>6. CASE Ends(q) /\ ~\E a \in s.old : Recorded(a)
  <2>1. PICK a \in Assets : s.old = {a}
    BY <1>3, <1>4 DEF Shape
  <2>2. ~Tidy(d, s)
    BY <1>2, <1>3, <1>4, <1>6, <2>1 DEF Tidy, OldKept, Recorded
  <2> QED
    BY <1>1, <1>2, <1>3, <1>6, <2>2, EndingStep DEF history
<1>7. CASE Moves(q, "retiring")
  <2>1. PICK r : r = [s EXCEPT !.at = "retiring"]
    OBVIOUS
  <2>2. /\ r \in RequestStates
        /\ r.op = s.op /\ r.at = "retiring" /\ r.d = d /\ r.kind = s.kind
        /\ r.held = s.held /\ r.new = s.new /\ r.old = s.old
    BY ONLY <1>2, <1>4, <2>1 DEF RequestStates, Steps
  <2>3. Shape(r)
    BY ONLY <1>2, <1>3, <1>4, <1>5, <2>2 DEF Shape, Finding, Filing
  <2>4. Tidy(d, s) => RowKept(d, r) /\ NewKept(d, r) /\ OldKept(d, r)
    BY ONLY <1>3, <1>5, <2>2 DEF Tidy, RowKept, NewKept, OldKept, Finding, Filing, Filed
  <2>5. CoversTidy(d, s) /\ FilesTidy(d, s) => CoversTidy(d, r) /\ FilesTidy(d, r)
    BY ONLY <1>3, <1>5, <2>2 DEF CoversTidy, FilesTidy, Leaving
  <2>6. Becomes(q, r)
    BY <1>1, <1>7, <2>1 DEF Moves
  <2> QED
    BY <1>1, <1>2, <1>3, <2>2, <2>3, <2>4, <2>5, <2>6, LookingStep DEF history, Tidy
<1> QED
  BY <1>1, <1>6, <1>7 DEF LookForOld

(* A request at rest relies on nothing that it read.                          *)
LEMMA IdleKept ==
  ASSUME NEW d
  PROVE  /\ RowKept(d, Idle) /\ NewKept(d, Idle) /\ OldKept(d, Idle)
         /\ (RowKept(d, Idle) /\ NewKept(d, Idle) /\ OldKept(d, Idle))'
<1>1. PICK r : r = Idle
  OBVIOUS
<1>2. r.at = "idle" /\ r.op = "none" /\ r.kind = "video"
  BY <1>1, IdleFacts
<1>3. /\ RowKept(d, r) /\ NewKept(d, r) /\ OldKept(d, r)
      /\ (RowKept(d, r) /\ NewKept(d, r) /\ OldKept(d, r))'
  BY <1>2 DEF RowKept, NewKept, OldKept, Finding, Filing, Filed
<1> QED
  BY <1>1, <1>3

(* What a request names is of its draft.                                      *)
LEMMA Claims ==
  ASSUME NEW home, OwnedBy(home), NEW q \in Requests, NEW a \in Assets,
         a = req[q].new \/ a \in req[q].old \/ a = req[q].held.video
  PROVE  home[a] = req[q].d
  BY DEF OwnedBy, Holds

(* ... and names no asset.                                                    *)
LEMMA NoClaims ==
  \A a \in Assets : ~(a = Idle.new \/ a \in Idle.old \/ a = Idle.held.video)
  BY IdleFacts, PublishDraftAssumption

(* Only the row of the draft changes.                                         *)
LEMMA RowTouch ==
  ASSUME DraftInv, NEW home \in [Assets -> Drafts \cup {None}], OwnedBy(home),
         NEW d \in Drafts, NEW row \in DraftRows, SaveDraft(d, row), UNCHANGED <<asset, file>>,
         row.status # "none", row.video # None => home[row.video] = d, NEW r,
         \A a \in Assets : a = r.new \/ a \in r.old \/ a = r.held.video => home[a] = d
  PROVE  Touches(r, d, home, home)
<1>1. draft' \in [Drafts -> DraftRows] /\ draft'[d] = row /\ \A e \in Drafts \ {d} : draft'[e] = draft[e]
  BY DEF SaveDraft, DraftInv, TypeOK
<1>2. \A a \in Assets : home[a] = d => asset[a].draft \in {None, d} /\ file[a] \in {None, d}
  BY DEF OwnedBy
<1>3. Exists(d)'
  BY <1>1 DEF Exists
<1>4. draft'[d].video # None => home[draft'[d].video] = d
  BY <1>1
<1> QED
  BY <1>1, <1>2, <1>3, <1>4 DEF Touches, DraftInv, TypeOK

(* Only a file of the draft goes.                                             *)
LEMMA FileTouch ==
  ASSUME DraftInv, NEW home \in [Assets -> Drafts \cup {None}], OwnedBy(home),
         NEW d \in Drafts, NEW b \in Assets, home[b] = d, Unlink(b), UNCHANGED <<draft, asset>>, NEW r,
         \A a \in Assets : a = r.new \/ a \in r.old \/ a = r.held.video => home[a] = d
  PROVE  Touches(r, d, home, home)
<1>1. /\ file' \in [Assets -> Drafts \cup {None}] /\ file'[b] = None
      /\ \A a \in Assets \ {b} : file'[a] = file[a]
  BY DEF Unlink, DraftInv, TypeOK
<1>2. \A a \in Assets : home[a] = d => asset[a].draft \in {None, d} /\ file[a] \in {None, d}
  BY DEF OwnedBy
<1>3. \A a \in Assets : asset[a].draft = d => Exists(d)
  BY PublishDraftAssumption DEF DraftInv, TypeOK, Recorded
<1>4. draft[d].video # None => home[draft[d].video] = d
  BY DEF OwnedBy
<1>5. ~Exists(d) => draft[d] = NoDraft
  BY DEF DraftInv, ShapeInv
<1>6. \A a \in Assets : home[a] # d => file'[a] = file[a]
  BY <1>1
<1>7. \A a \in Assets : home[a] = d => file'[a] \in {None, d}
  BY <1>1, <1>2
<1> QED
  BY <1>1, <1>2, <1>3, <1>4, <1>5, <1>6, <1>7 DEF Touches, DraftInv, TypeOK, Exists

(* Only asset rows of the draft change.                                       *)
LEMMA AssetTouch ==
  ASSUME DraftInv, NEW home \in [Assets -> Drafts \cup {None}], OwnedBy(home),
         NEW d \in Drafts, UNCHANGED <<draft, file>>,
         asset' \in [Assets -> [draft : Drafts \cup {None}, kind : Kinds]],
         \A a \in Assets : home[a] # d => asset'[a] = asset[a],
         \A a \in Assets : home[a] = d => asset'[a].draft \in {None, d},
         \A a \in Assets : asset'[a].draft = d => Exists(d), NEW r,
         \A a \in Assets : a = r.new \/ a \in r.old \/ a = r.held.video => home[a] = d
  PROVE  Touches(r, d, home, home)
<1>1. \A a \in Assets : home[a] = d => file[a] \in {None, d}
  BY DEF OwnedBy
<1>2. draft[d].video # None => home[draft[d].video] = d
  BY DEF OwnedBy
<1>3. ~Exists(d) => draft[d] = NoDraft
  BY DEF DraftInv, ShapeInv
<1> QED
  BY <1>1, <1>2, <1>3 DEF Touches, DraftInv, TypeOK, Exists

(* create inserts the row of the draft.                                       *)
LEMMA InsertStep ==
  ASSUME DraftInv, NEW q \in Requests, InsertDraft(q)
  PROVE  DraftInv'
<1>1. PICK s : s = req[q]
  OBVIOUS
<1>2. PICK d : d = s.d
  OBVIOUS
<1>3. /\ s.at = "inserting" /\ SaveDraft(d, Empty) /\ Becomes(q, Idle)
      /\ UNCHANGED <<asset, file, used, history>>
  BY <1>1, <1>2 DEF InsertDraft, At, SaveDraft, Ends
<1>4. s \in RequestStates /\ Shape(s) /\ d \in Drafts /\ d # None
  BY <1>1, <1>2, <1>3, Ongoing, PublishDraftAssumption
<1>5. s.new = None /\ s.old = {}
  BY ONLY <1>3, <1>4 DEF Shape, Finding, Filing
<1>6. ~Exists(d)
  BY <1>1, <1>2, <1>3 DEF DraftInv, LoneInv, At
<1>7. \A a \in Assets : asset[a].draft # d
  BY <1>4, <1>6 DEF DraftInv, TypeOK, Recorded
<1>8. PICK home \in [Assets -> Drafts \cup {None}] : OwnedBy(home)
  BY DEF DraftInv, OwnInv
<1>9. Touches(Idle, d, home, home)
  BY <1>3, <1>4, <1>8, IdleFacts, NoClaims, RowTouch
<1>10. draft'[d] = Empty
  BY <1>3, <1>4 DEF SaveDraft, DraftInv, TypeOK
<1>11. ASSUME Tidy(d, s)
       PROVE  Tidy(d, Idle)'
  <2>1. VideoTidy(d)'
    BY <1>10, IdleFacts DEF VideoTidy
  <2>2. CoversTidy(d, Idle)'
    <3>1. \A p : Covers(d, p)' = {}
      BY <1>3, <1>7 DEF Covers
    <3> QED
      BY <3>1, IdleFacts DEF CoversTidy
  <2>3. d \notin marred' => FilesTidy(d, Idle)'
    BY <1>3, <1>5, <1>11, PublishDraftAssumption DEF history, Tidy, FilesTidy
  <2> QED
    BY <2>1, <2>2, <2>3, IdleKept DEF Tidy
<1>12. s.at # "idle" /\ UNCHANGED <<used, overlapped>> /\ marred' = marred
  BY <1>3 DEF history
<1> QED
  BY <1>1, <1>2, <1>3, <1>8, <1>9, <1>11, <1>12, IdleFacts, ShapeIdle, OngoingStep


(* The row that a request saves is one that it found.                         *)
LEMMA HeldRow ==
  ASSUME DraftInv, NEW s \in RequestStates, Shape(s), Finding(s)
  PROVE  s.held \in DraftRows /\ s.held.status # "none" /\ s.held.video \in Assets \cup {None}
  BY DEF Shape, RequestStates, DraftRows

(* A request that has nothing in its hands leaves the draft tidy.             *)
LEMMA LetGo ==
  ASSUME NEW d, NEW s, Tidy(d, s), s.at \notin {"retiring", "forgetting"},
         \A a \in Assets : (a = s.new \/ a \in s.old) /\ file[a] = d => asset[a].draft = d
  PROVE  Tidy(d, Idle)
<1>1. CoversTidy(d, s) => CoversTidy(d, Idle)
  <2>1. \A a : ~Leaving(s, a)
    BY DEF Leaving
  <2> QED
    BY <2>1, IdleFacts DEF CoversTidy
<1>2. FilesTidy(d, s) => FilesTidy(d, Idle)
  BY DEF FilesTidy
<1> QED
  BY <1>1, <1>2, IdleKept DEF Tidy

(* A step that stores nothing leaves a draft tidy.                            *)
LEMMA TidyStays ==
  ASSUME NEW d, NEW r, UNCHANGED store, marred' = marred, Tidy(d, r)
  PROVE  Tidy(d, r)'
<1>1. /\ RowKept(d, r) /\ NewKept(d, r) /\ OldKept(d, r) /\ VideoTidy(d)
      /\ d \notin marred' => CoversTidy(d, r) /\ FilesTidy(d, r)
  BY DEF Tidy
<1> QED
  BY <1>1, TidySame

(* Saving a row as it is changes nothing.                                     *)
LEMMA SavedAsIs ==
  ASSUME TypeOK, NEW d \in Drafts, SaveDraft(d, draft[d]), UNCHANGED <<asset, file>>
  PROVE  UNCHANGED store
<1>1. draft' = draft
  BY DEF SaveDraft, TypeOK
<1> QED
  BY <1>1 DEF store

(* update writes back the row that it read.                                   *)
LEMMA UpdateStep ==
  ASSUME DraftInv, NEW q \in Requests, SaveUpdate(q)
  PROVE  DraftInv'
<1>1. PICK s : s = req[q]
  OBVIOUS
<1>2. PICK d : d = s.d
  OBVIOUS
<1>3. /\ s.at = "updating" /\ SaveDraft(d, s.held) /\ Becomes(q, Idle)
      /\ UNCHANGED <<asset, file, used, history>>
  BY <1>1, <1>2 DEF SaveUpdate, At, Ends, Updated
<1>4. s \in RequestStates /\ Shape(s) /\ d \in Drafts
  BY <1>1, <1>2, <1>3, Ongoing
<1>5. s.new = None /\ s.old = {} /\ Finding(s)
  BY ONLY <1>3, <1>4 DEF Shape, Finding, Filing
<1>6. PICK home \in [Assets -> Drafts \cup {None}] : OwnedBy(home)
  BY DEF DraftInv, OwnInv
<1>7. /\ s.held \in DraftRows /\ s.held.status # "none"
      /\ s.held.video # None => home[s.held.video] = d
  BY <1>1, <1>2, <1>4, <1>5, <1>6, HeldRow, Claims
<1>8. Touches(Idle, d, home, home)
  BY <1>3, <1>4, <1>6, <1>7, NoClaims, RowTouch
<1>9. ASSUME Tidy(d, s)
      PROVE  Tidy(d, Idle)'
  <2>1. draft[d] = s.held
    BY <1>5, <1>9 DEF Tidy, RowKept
  <2>2. UNCHANGED store /\ marred' = marred
    BY <1>3, <1>4, <2>1, SavedAsIs DEF DraftInv, history
  <2>3. Tidy(d, Idle)
    BY <1>3, <1>5, <1>9, LetGo, PublishDraftAssumption
  <2> QED
    BY <2>2, <2>3, TidyStays
<1>10. s.at # "idle" /\ UNCHANGED <<used, overlapped>> /\ marred' = marred
  BY <1>3 DEF history
<1> QED
  BY <1>1, <1>2, <1>3, <1>6, <1>8, <1>9, <1>10, IdleFacts, ShapeIdle, OngoingStep

(* remove deletes the row and those of the assets.                            *)
LEMMA RemoveStep ==
  ASSUME DraftInv, NEW q \in Requests, RemoveDraft(q)
  PROVE  DraftInv'
<1>1. PICK s : s = req[q]
  OBVIOUS
<1>2. PICK d : d = s.d
  OBVIOUS
<1>3. PICK r : r = [s EXCEPT !.at = "unlinking"]
  OBVIOUS
<1>4. /\ s.at = "removing" /\ draft' = [draft EXCEPT ![d] = NoDraft] /\ asset' = AssetsWithout(d)
      /\ Becomes(q, r) /\ UNCHANGED <<file, used, history>>
  BY <1>1, <1>2, <1>3 DEF RemoveDraft, At, Moves
<1>5. s \in RequestStates /\ Shape(s) /\ d \in Drafts /\ d # None
  BY <1>1, <1>2, <1>4, Ongoing, PublishDraftAssumption
<1>6. /\ r \in RequestStates
      /\ r.op = s.op /\ r.at = "unlinking" /\ r.d = d /\ r.kind = s.kind
      /\ r.held = s.held /\ r.new = s.new /\ r.old = s.old
  BY ONLY <1>2, <1>3, <1>5 DEF RequestStates, Steps
<1>7. Shape(r)
  BY ONLY <1>2, <1>4, <1>5, <1>6 DEF Shape, Finding, Filing
<1>8. PICK home \in [Assets -> Drafts \cup {None}] : OwnedBy(home)
  BY DEF DraftInv, OwnInv
<1>9. /\ draft' \in [Drafts -> DraftRows] /\ draft'[d] = NoDraft
      /\ \A e \in Drafts \ {d} : draft'[e] = draft[e]
  BY <1>4, <1>5, IdleFacts DEF DraftInv, TypeOK
<1>10. /\ asset' \in [Assets -> [draft : Drafts \cup {None}, kind : Kinds]]
       /\ \A a \in Assets : asset'[a] = IF asset[a].draft = d THEN NoAsset ELSE asset[a]
  BY <1>4, IdleFacts DEF AssetsWithout, DraftInv, TypeOK
<1>11. \A a \in Assets : asset'[a].draft # d
  BY <1>5, <1>10, IdleFacts
<1>12. Touches(r, d, home, home)
  <2>1. \A a \in Assets : home[a] # d => asset'[a] = asset[a]
    BY <1>5, <1>8, <1>10 DEF OwnedBy
  <2>2. \A a \in Assets : home[a] = d => asset'[a].draft \in {None, d} /\ file[a] \in {None, d}
    BY <1>8, <1>10, IdleFacts DEF OwnedBy
  <2>3. \A a \in Assets : a = r.new \/ a \in r.old \/ a = r.held.video => home[a] = d
    BY <1>1, <1>2, <1>6, <1>8, Claims
  <2> QED
    BY <1>4, <1>9, <1>10, <1>11, <2>1, <2>2, <2>3, IdleFacts DEF Touches, DraftInv, TypeOK
<1>13. ASSUME Tidy(d, s)
       PROVE  Tidy(d, r)'
  <2>1. ~Exists(d)'
    BY <1>9, IdleFacts DEF Exists
  <2>2. RowKept(d, r)' /\ NewKept(d, r)' /\ OldKept(d, r)'
    BY ONLY <1>6, <2>1 DEF RowKept, NewKept, OldKept, Finding, Filing, Filed
  <2>3. VideoTidy(d)'
    BY <1>9, IdleFacts DEF VideoTidy
  <2>4. CoversTidy(d, r)'
    <3>1. \A p : Covers(d, p)' = {}
      BY <1>11 DEF Covers
    <3> QED
      BY <1>6, <3>1 DEF CoversTidy
  <2>5. d \notin marred' => FilesTidy(d, r)'
    <3>1. d \notin marred' => FilesTidy(d, s)
      BY <1>4, <1>13 DEF history, Tidy
    <3>2. \A a \in Assets : asset[a].draft = d => a \in s.old
      BY <1>4, <1>13 DEF Tidy, RowKept, Listed
    <3> QED
      BY <1>4, <1>6, <3>1, <3>2 DEF FilesTidy
  <2> QED
    BY <2>2, <2>3, <2>4, <2>5 DEF Tidy
<1>14. s.at # "idle" /\ UNCHANGED <<used, overlapped>> /\ marred' = marred
  BY <1>4 DEF history
<1> QED
  BY <1>1, <1>2, <1>4, <1>6, <1>7, <1>8, <1>12, <1>13, <1>14, OngoingStep

(* The files of a removed draft are unlinked one by one.                      *)
LEMMA UnlinkStep ==
  ASSUME DraftInv, NEW q \in Requests, UnlinkListed(q)
  PROVE  DraftInv'
<1>1. PICK s : s = req[q]
  OBVIOUS
<1>2. PICK d : d = s.d
  OBVIOUS
<1>3. s.at = "unlinking" /\ UNCHANGED <<draft, asset, used, history>>
  BY <1>1 DEF UnlinkListed, At
<1>4. s \in RequestStates /\ Shape(s) /\ d \in Drafts /\ d # None
  BY <1>1, <1>2, <1>3, Ongoing, PublishDraftAssumption
<1>5. s.new = None /\ None \notin Assets
  BY <1>3, <1>4, PublishDraftAssumption DEF Shape, Finding, Filing
<1>6. CASE s.old = {} /\ Ends(q) /\ UNCHANGED file
  <2>1. UNCHANGED <<store, used, overlapped>> /\ marred' = marred
    BY <1>3, <1>6 DEF store, history
  <2> QED
    BY <1>1, <1>2, <1>3, <1>5, <1>6, <2>1, EndingStep
<1>7. ASSUME NEW b \in s.old, Unlink(b), Becomes(q, [s EXCEPT !.old = @ \ {b}])
      PROVE  DraftInv'
  <2>1. PICK r : r = [s EXCEPT !.old = @ \ {b}]
    OBVIOUS
  <2>2. /\ r \in RequestStates
        /\ r.op = s.op /\ r.at = "unlinking" /\ r.d = d /\ r.kind = s.kind
        /\ r.held = s.held /\ r.new = s.new /\ r.old = s.old \ {b}
    BY ONLY <1>2, <1>3, <1>4, <2>1 DEF RequestStates
  <2>3. Shape(r)
    BY ONLY <1>2, <1>3, <1>4, <2>2 DEF Shape, Finding, Filing
  <2>4. PICK home \in [Assets -> Drafts \cup {None}] : OwnedBy(home)
    BY DEF DraftInv, OwnInv
  <2>5. b \in Assets /\ home[b] = d
    BY <1>1, <1>2, <1>4, <1>7, <2>4, Claims DEF RequestStates
  <2>6. \A a \in Assets : a = r.new \/ a \in r.old \/ a = r.held.video => home[a] = d
    BY <1>1, <1>2, <2>2, <2>4, Claims
  <2>7. Touches(r, d, home, home)
    BY <1>3, <1>4, <1>7, <2>4, <2>5, <2>6, FileTouch
  <2>8. ASSUME Tidy(d, s)
        PROVE  Tidy(d, r)'
    <3>1. ~Exists(d) /\ draft[d] = NoDraft
      BY <1>3, <1>4, <2>8 DEF Tidy, RowKept, DraftInv, ShapeInv
    <3>2. RowKept(d, r)' /\ NewKept(d, r)' /\ OldKept(d, r)'
      BY ONLY <1>3, <2>2, <3>1 DEF RowKept, NewKept, OldKept, Finding, Filing, Filed, Exists
    <3>3. VideoTidy(d)'
      BY <1>3, <3>1, IdleFacts DEF VideoTidy
    <3>4. CoversTidy(d, r)'
      <4>1. \A a \in Assets : asset'[a].draft # d
        BY <1>3, <1>4, <3>1 DEF DraftInv, TypeOK, Recorded
      <4>2. \A p : Covers(d, p)' = {}
        BY <4>1 DEF Covers
      <4> QED
        BY <2>2, <4>2 DEF CoversTidy
    <3>5. d \notin marred' => FilesTidy(d, r)'
      <4>1. d \notin marred' => FilesTidy(d, s)
        BY <1>3, <2>8 DEF history, Tidy
      <4>2. file'[b] = None /\ \A a \in Assets \ {b} : file'[a] = file[a]
        BY <1>7, <2>5 DEF Unlink, DraftInv, TypeOK
      <4> QED
        BY <1>3, <1>4, <2>2, <4>1, <4>2 DEF FilesTidy
    <3> QED
      BY <3>2, <3>3, <3>4, <3>5 DEF Tidy
  <2>9. s.at # "idle" /\ UNCHANGED <<used, overlapped>> /\ marred' = marred
    BY <1>3 DEF history
  <2> QED
    BY <1>1, <1>2, <1>7, <2>1, <2>2, <2>3, <2>4, <2>7, <2>8, <2>9, OngoingStep
<1> QED
  BY <1>1, <1>6, <1>7 DEF UnlinkListed

(* An upload records its asset, after the file is written.                    *)
LEMMA RecordStep ==
  ASSUME DraftInv, NEW q \in Requests, RecordAsset(q)
  PROVE  DraftInv'
<1>1. PICK s : s = req[q]
  OBVIOUS
<1>2. PICK d : d = s.d
  OBVIOUS
<1>3. PICK step : step = AfterRecord(s)
  OBVIOUS
<1>4. PICK r : r = [s EXCEPT !.at = step]
  OBVIOUS
<1>5. /\ s.at = "recording" /\ Exists(d) /\ Becomes(q, r)
      /\ asset' = [asset EXCEPT ![s.new] = [draft |-> d, kind |-> s.kind]]
      /\ UNCHANGED <<draft, file, used, history>>
  BY <1>1, <1>2, <1>3, <1>4 DEF RecordAsset, At, Moves
<1>6. s \in RequestStates /\ Shape(s) /\ d \in Drafts /\ d # None
  BY <1>1, <1>2, <1>5, Ongoing, PublishDraftAssumption
<1>7. step = IF s.kind = "video" \/ s.old = {} THEN "pointing" ELSE "retiring"
  BY <1>3 DEF AfterRecord
<1>8. /\ r \in RequestStates
      /\ r.op = s.op /\ r.at = step /\ r.d = d /\ r.kind = s.kind
      /\ r.held = s.held /\ r.new = s.new /\ r.old = s.old
  BY ONLY <1>2, <1>4, <1>6, <1>7 DEF RequestStates, Steps
<1>9. /\ s.op = "upload" /\ Finding(s) /\ Filing(s) /\ ~Filed(s)
      /\ Finding(r) /\ Filing(r) /\ Filed(r)
  BY ONLY <1>5, <1>6, <1>7, <1>8 DEF Shape, Finding, Filing, Filed
<1>10. Shape(r)
  BY ONLY <1>2, <1>5, <1>6, <1>7, <1>8, <1>9 DEF Shape, Finding, Filing
<1>11. s.new \in Assets /\ s.kind \in Kinds /\ s.new # s.held.video
  BY ONLY <1>6, <1>9 DEF Shape, RequestStates
<1>12. /\ asset' \in [Assets -> [draft : Drafts \cup {None}, kind : Kinds]]
       /\ asset'[s.new] = [draft |-> d, kind |-> s.kind]
       /\ \A a \in Assets \ {s.new} : asset'[a] = asset[a]
  BY <1>5, <1>6, <1>11 DEF DraftInv, TypeOK
<1>13. PICK home \in [Assets -> Drafts \cup {None}] : OwnedBy(home)
  BY DEF DraftInv, OwnInv
<1>14. Touches(r, d, home, home)
  <2>1. home[s.new] = d
    BY <1>1, <1>2, <1>11, <1>13, Claims
  <2>2. \A a \in Assets : a = r.new \/ a \in r.old \/ a = r.held.video => home[a] = d
    BY <1>1, <1>2, <1>8, <1>13, Claims
  <2>3. \A a \in Assets : home[a] # d => asset'[a] = asset[a]
    BY <1>12, <2>1
  <2>4. \A a \in Assets : home[a] = d => asset'[a].draft \in {None, d}
    BY <1>12, <1>13 DEF OwnedBy
  <2>5. UNCHANGED <<draft, file>> /\ \A a \in Assets : asset'[a].draft = d => Exists(d)
    BY <1>5
  <2> QED
    BY <1>6, <1>12, <1>13, <2>2, <2>3, <2>4, <2>5, AssetTouch
<1>15. ASSUME Tidy(d, s)
       PROVE  Tidy(d, r)'
  <2>1. draft[d] = s.held /\ file[s.new] = d /\ s.new \notin s.old /\ asset[s.new].draft = None
    BY <1>9, <1>15 DEF Tidy, RowKept, NewKept, Recorded
  <2>2. RowKept(d, r)'
    BY <1>5, <1>7, <1>8, <2>1 DEF RowKept
  <2>3. NewKept(d, r)'
    BY <1>5, <1>8, <1>9, <1>12, <2>1 DEF NewKept
  <2>4. OldKept(d, r)'
    <3>1. \A a \in s.old : asset'[a] = [draft |-> d, kind |-> s.kind]
      <4>1. s.old \subseteq Assets
        BY <1>6 DEF RequestStates
      <4> QED
        BY <1>5, <1>12, <1>15, <2>1, <4>1 DEF Tidy, OldKept
    <3>2. s.kind = "video" => s.old = {} /\ step = "pointing"
      BY <1>5, <1>6, <1>7 DEF Shape
    <3>3. step = "pointing" => s.old = {}
      BY <1>7, <3>2
    <3> QED
      BY <1>7, <1>8, <3>1, <3>2, <3>3 DEF OldKept
  <2>5. VideoTidy(d)'
    <3>1. draft[d].video # None => draft[d].video \in Assets \ {s.new}
      BY <1>6, <1>11, <2>1 DEF DraftInv, TypeOK, DraftRows
    <3> QED
      BY <1>5, <1>12, <1>15, <3>1 DEF Tidy, VideoTidy
  <2>6. d \notin marred' => CoversTidy(d, s) /\ FilesTidy(d, s)
    BY <1>5, <1>15 DEF history, Tidy
  <2>7. CoversTidy(d, s) => CoversTidy(d, r)'
    <3> SUFFICES ASSUME CoversTidy(d, s) PROVE CoversTidy(d, r)'
      OBVIOUS
    <3>1. \A a : ~Leaving(s, a)
      BY <1>5 DEF Leaving
    <3>2. \A p \in Platforms \ {s.kind} : Covers(d, p)' = Covers(d, p)
      BY <1>12, <2>1, IdleFacts, <1>6 DEF Covers
    <3>3. Covers(d, s.kind)' \subseteq Covers(d, s.kind) \cup {s.new}
      BY <1>12 DEF Covers
    <3>4. \A p \in Platforms : \A a \in Covers(d, p) : a \in Assets
      BY DEF Covers
    <3>5. ASSUME s.kind \in Platforms
          PROVE  \A a \in Covers(d, s.kind)' : a = s.new \/ Leaving(r, a)
      <4>1. Covers(d, s.kind) \subseteq s.old /\ s.kind # "video"
        BY <1>5, <3>5, PublishDraftAssumption DEF CoversTidy
      <4> QED
        BY <1>7, <1>8, <3>3, <4>1 DEF Leaving
    <3>6. ASSUME NEW p \in Platforms, p # s.kind
          PROVE  /\ \A a, b \in Covers(d, p)' : a = b
                 /\ \A a \in Covers(d, p)' : file'[a] = d
      BY <1>5, <3>1, <3>2, <3>6 DEF CoversTidy
    <3>7. ASSUME NEW p \in Platforms
          PROVE  /\ \A a, b \in Covers(d, p)' : a = b \/ Leaving(r, a) \/ Leaving(r, b)
                 /\ \A a \in Covers(d, p)' : file'[a] = d \/ Leaving(r, a)
      BY <1>5, <2>1, <3>5, <3>6
    <3>8. r.at # "recording"
      BY <1>7, <1>8
    <3> QED
      BY <3>7, <3>8 DEF CoversTidy, Leaving
  <2>8. FilesTidy(d, s) => FilesTidy(d, r)'
    BY <1>5, <1>8, <1>12 DEF FilesTidy
  <2> QED
    BY <2>2, <2>3, <2>4, <2>5, <2>6, <2>7, <2>8 DEF Tidy
<1>16. s.at # "idle" /\ r.at # "inserting" /\ UNCHANGED <<used, overlapped>> /\ marred' = marred
  BY <1>5, <1>7, <1>8 DEF history
<1> QED
  BY <1>1, <1>2, <1>5, <1>8, <1>10, <1>13, <1>14, <1>15, <1>16, OngoingStep

(* The draft is gone, and the new file is unlinked.                           *)
LEMMA RecordFailsStep ==
  ASSUME DraftInv, NEW q \in Requests, RecordFails(q)
  PROVE  DraftInv'
<1>1. PICK s : s = req[q]
  OBVIOUS
<1>2. PICK d : d = s.d
  OBVIOUS
<1>3. /\ s.at = "recording" /\ ~Exists(d) /\ Unlink(s.new) /\ Becomes(q, Idle)
      /\ UNCHANGED <<draft, asset, used, history>>
  BY <1>1, <1>2 DEF RecordFails, At, Ends
<1>4. s \in RequestStates /\ Shape(s) /\ d \in Drafts
  BY <1>1, <1>2, <1>3, Ongoing
<1>5. Finding(s) /\ s.new \in Assets /\ s.held.status # "none"
  BY ONLY <1>3, <1>4 DEF Shape, RequestStates, Finding, Filing
<1>6. ~Tidy(d, s)
  BY <1>3, <1>5 DEF Tidy, RowKept, Exists
<1>7. PICK home \in [Assets -> Drafts \cup {None}] : OwnedBy(home)
  BY DEF DraftInv, OwnInv
<1>8. home[s.new] = d
  BY <1>1, <1>2, <1>5, <1>7, Claims
<1>9. Touches(Idle, d, home, home)
  BY <1>3, <1>4, <1>5, <1>7, <1>8, NoClaims, FileTouch
<1>10. s.at # "idle" /\ UNCHANGED <<used, overlapped>> /\ marred' = marred
  BY <1>3 DEF history
<1> QED
  BY <1>1, <1>2, <1>3, <1>6, <1>7, <1>9, <1>10, IdleFacts, ShapeIdle, OngoingStep

(* The old cover cannot be removed: the new file is unlinked, and the draft   *)
(* is marked.                                                                 *)
LEMMA ReplaceFailsStep ==
  ASSUME DraftInv, NEW q \in Requests, ReplaceFails(q)
  PROVE  DraftInv'
<1>1. PICK s : s = req[q]
  OBVIOUS
<1>2. PICK d : d = s.d
  OBVIOUS
<1>3. /\ s.at \in {"retiring", "forgetting"} /\ s.op = "upload" /\ s.kind # "video"
      /\ Unlink(s.new) /\ Becomes(q, Idle) /\ marred' = marred \cup {d}
      /\ UNCHANGED <<draft, asset, used, overlapped>>
  BY <1>1, <1>2 DEF ReplaceFails, Breaks, Ends
<1>4. s \in RequestStates /\ Shape(s) /\ d \in Drafts
  BY <1>1, <1>2, <1>3, Ongoing
<1>5. Finding(s) /\ s.new \in Assets /\ s.new # s.held.video
  BY ONLY <1>3, <1>4 DEF Shape, RequestStates, Finding, Filing
<1>6. PICK home \in [Assets -> Drafts \cup {None}] : OwnedBy(home)
  BY DEF DraftInv, OwnInv
<1>7. home[s.new] = d
  BY <1>1, <1>2, <1>5, <1>6, Claims
<1>8. Touches(Idle, d, home, home)
  BY <1>3, <1>4, <1>5, <1>6, <1>7, NoClaims, FileTouch
<1>9. ASSUME Tidy(d, s)
      PROVE  Tidy(d, Idle)'
  <2>1. draft[d] = s.held
    BY <1>5, <1>9 DEF Tidy, RowKept
  <2>2. \A a \in Assets \ {s.new} : file'[a] = file[a]
    BY <1>3 DEF Unlink, DraftInv, TypeOK
  <2>3. draft[d].video # None => draft[d].video \in Assets \ {s.new}
    BY <1>4, <1>5, <2>1 DEF DraftInv, TypeOK, DraftRows
  <2>4. VideoTidy(d)'
    BY <1>3, <1>9, <2>2, <2>3 DEF Tidy, VideoTidy
  <2> QED
    BY <1>3, <2>4, IdleKept DEF Tidy
<1>10. s.at # "idle" /\ UNCHANGED <<used, overlapped>>
  BY <1>3
<1> QED
  BY <1>1, <1>2, <1>3, <1>6, <1>8, <1>9, <1>10, IdleFacts, ShapeIdle, OngoingStep

(* An asset that is being replaced is not the video of the draft, and not     *)
(* the asset that replaces it.                                                *)
LEMMA ReplacedIsOld ==
  ASSUME NEW s, NEW d, s.at \in {"retiring", "forgetting"}, Shape(s), Tidy(d, s), NEW b, s.old = {b}
  PROVE  /\ draft[d].video # None => draft[d].video # b
         /\ Filing(s) => s.new # b
<1>1. asset[b] = [draft |-> d, kind |-> s.kind]
  BY DEF Tidy, OldKept
<1>2. s.kind = "video" => draft[d].video # b
  BY DEF Tidy, OldKept
<1>3. s.kind # "video" /\ draft[d].video # None => draft[d].video # b
  BY <1>1 DEF Tidy, VideoTidy
<1>4. Filing(s) => s.new # b
  BY DEF Tidy, NewKept
<1> QED
  BY <1>2, <1>3, <1>4

(* The file of the replaced asset is unlinked.                                *)
LEMMA RetireStep ==
  ASSUME DraftInv, NEW q \in Requests, RetireFile(q)
  PROVE  DraftInv'
<1>1. PICK s : s = req[q]
  OBVIOUS
<1>2. PICK d : d = s.d
  OBVIOUS
<1>3. PICK r : r = [s EXCEPT !.at = "forgetting"]
  OBVIOUS
<1>4. /\ s.at = "retiring" /\ Becomes(q, r) /\ \E a \in s.old : Unlink(a)
      /\ UNCHANGED <<draft, asset, used, history>>
  BY <1>1, <1>2, <1>3 DEF RetireFile, At, Moves
<1>5. s \in RequestStates /\ Shape(s) /\ d \in Drafts /\ d # None
  BY <1>1, <1>2, <1>4, Ongoing, PublishDraftAssumption
<1>6. /\ r \in RequestStates
      /\ r.op = s.op /\ r.at = "forgetting" /\ r.d = d /\ r.kind = s.kind
      /\ r.held = s.held /\ r.new = s.new /\ r.old = s.old
  BY ONLY <1>2, <1>3, <1>5 DEF RequestStates, Steps
<1>7. /\ Finding(r) <=> Finding(s)
      /\ Filing(r) <=> Filing(s)
      /\ Filed(r) <=> Filed(s)
      /\ Filing(s) => Filed(s)
  BY ONLY <1>4, <1>6 DEF Finding, Filing, Filed
<1>8. Shape(r)
  BY ONLY <1>2, <1>4, <1>5, <1>6, <1>7 DEF Shape
<1>9. PICK b \in Assets : s.old = {b}
  BY <1>4, <1>5 DEF Shape
<1>10. Unlink(b) /\ file'[b] = None /\ \A a \in Assets \ {b} : file'[a] = file[a]
  BY <1>4, <1>9 DEF Unlink, DraftInv, TypeOK
<1>11. PICK home \in [Assets -> Drafts \cup {None}] : OwnedBy(home)
  BY DEF DraftInv, OwnInv
<1>12. Touches(r, d, home, home)
  <2>1. home[b] = d
    BY <1>1, <1>2, <1>9, <1>11, Claims
  <2>2. \A a \in Assets : a = r.new \/ a \in r.old \/ a = r.held.video => home[a] = d
    BY <1>1, <1>2, <1>6, <1>11, Claims
  <2> QED
    BY <1>4, <1>5, <1>10, <1>11, <2>1, <2>2, FileTouch
<1>13. ASSUME Tidy(d, s)
       PROVE  Tidy(d, r)'
  <2>0. /\ draft[d].video # None => draft[d].video \in Assets \ {b}
        /\ Filing(s) => s.new \in Assets \ {b}
    <3>1. Filing(s) => s.new \in Assets
      BY <1>5 DEF Shape, RequestStates
    <3>2. draft[d].video # None => draft[d].video \in Assets
      BY <1>5 DEF DraftInv, TypeOK, DraftRows
    <3> QED
      BY <1>4, <1>5, <1>9, <1>13, <3>1, <3>2, ReplacedIsOld
  <2>1. RowKept(d, r)'
    BY <1>4, <1>6, <1>7, <1>13 DEF Tidy, RowKept
  <2>2. NewKept(d, r)'
    BY <1>4, <1>6, <1>7, <1>10, <1>13, <2>0 DEF Tidy, NewKept
  <2>3. OldKept(d, r)'
    BY <1>4, <1>6, <1>9, <1>10, <1>13 DEF Tidy, OldKept
  <2>4. VideoTidy(d)'
    BY <1>4, <1>10, <1>13, <2>0 DEF Tidy, VideoTidy
  <2>5. d \notin marred' => CoversTidy(d, s) /\ FilesTidy(d, s)
    BY <1>4, <1>13 DEF history, Tidy
  <2>6. CoversTidy(d, s) => CoversTidy(d, r)'
    <3>1. \A p : Covers(d, p)' = Covers(d, p) /\ Covers(d, p) \subseteq Assets
      BY <1>4 DEF Covers
    <3>2. \A a : (Leaving(r, a)' <=> a = b) /\ (Leaving(s, a) <=> a = b)
      BY <1>4, <1>6, <1>9 DEF Leaving
    <3> QED
      BY <1>6, <1>10, <3>1, <3>2 DEF CoversTidy
  <2>7. FilesTidy(d, s) => FilesTidy(d, r)'
    BY <1>4, <1>5, <1>6, <1>10 DEF FilesTidy
  <2> QED
    BY <2>1, <2>2, <2>3, <2>4, <2>5, <2>6, <2>7 DEF Tidy
<1>14. s.at # "idle" /\ r.at # "inserting" /\ UNCHANGED <<used, overlapped>> /\ marred' = marred
  BY <1>4, <1>6 DEF history
<1> QED
  BY <1>1, <1>2, <1>4, <1>6, <1>8, <1>11, <1>12, <1>13, <1>14, OngoingStep


(* The row of the replaced asset is deleted.                                  *)
LEMMA ForgetStep ==
  ASSUME DraftInv, NEW q \in Requests, ForgetAsset(q)
  PROVE  DraftInv'
<1>1. PICK s : s = req[q]
  OBVIOUS
<1>2. PICK d : d = s.d
  OBVIOUS
<1>3. /\ s.at = "forgetting"
      /\ asset' = [a \in Assets |-> IF a \in s.old THEN NoAsset ELSE asset[a]]
      /\ UNCHANGED <<draft, file, used, history>>
  BY <1>1, <1>2 DEF ForgetAsset, At
<1>4. s \in RequestStates /\ Shape(s) /\ d \in Drafts /\ d # None
  BY <1>1, <1>2, <1>3, Ongoing, PublishDraftAssumption
<1>5. PICK b \in Assets : s.old = {b}
  BY <1>3, <1>4 DEF Shape
<1>6. /\ asset' \in [Assets -> [draft : Drafts \cup {None}, kind : Kinds]]
      /\ asset'[b] = NoAsset /\ \A a \in Assets \ {b} : asset'[a] = asset[a]
  BY <1>3, <1>5, IdleFacts DEF DraftInv, TypeOK
<1>7. PICK home \in [Assets -> Drafts \cup {None}] : OwnedBy(home)
  BY DEF DraftInv, OwnInv
<1>8. ASSUME NEW r, \A a \in Assets : a = r.new \/ a \in r.old \/ a = r.held.video => home[a] = d
      PROVE  Touches(r, d, home, home)
  <2>1. home[b] = d
    BY <1>1, <1>2, <1>5, <1>7, Claims
  <2>2. \A a \in Assets : home[a] # d => asset'[a] = asset[a]
    BY <1>6, <2>1
  <2>3. \A a \in Assets : home[a] = d => asset'[a].draft \in {None, d}
    BY <1>6, <1>7, IdleFacts DEF OwnedBy
  <2>4. \A a \in Assets : asset'[a].draft = d => Exists(d)
    <3>1. \A a \in Assets : asset[a].draft = d => Exists(d)
      BY <1>4 DEF DraftInv, TypeOK, Recorded
    <3> QED
      BY <1>4, <1>6, <3>1, IdleFacts
  <2>5. UNCHANGED <<draft, file>>
    BY <1>3
  <2> QED
    BY <1>4, <1>6, <1>7, <1>8, <2>2, <2>3, <2>4, <2>5, AssetTouch
<1>9. ASSUME Tidy(d, s)
      PROVE  /\ VideoTidy(d)' /\ file[b] = None
             /\ Filing(s) => s.new \in Assets \ {b} /\ asset'[s.new] = asset[s.new]
  <2>1. /\ draft[d].video # None => draft[d].video \in Assets \ {b}
        /\ Filing(s) => s.new \in Assets \ {b}
    <3>1. Filing(s) => s.new \in Assets
      BY <1>4 DEF Shape, RequestStates
    <3>2. draft[d].video # None => draft[d].video \in Assets
      BY <1>4 DEF DraftInv, TypeOK, DraftRows
    <3> QED
      BY <1>3, <1>4, <1>5, <1>9, <3>1, <3>2, ReplacedIsOld
  <2>2. VideoTidy(d)'
    BY <1>3, <1>6, <1>9, <2>1 DEF Tidy, VideoTidy
  <2>3. file[b] = None
    BY <1>3, <1>5, <1>9 DEF Tidy, OldKept
  <2> QED
    BY <1>6, <2>1, <2>2, <2>3
<1>10. ASSUME Tidy(d, s), d \notin marred', NEW r, r.at \in {"idle", "pointing"},
              \A a \in Assets : a = s.new => a = r.new \/ asset[a].draft = d
       PROVE  CoversTidy(d, r)' /\ FilesTidy(d, r)'
  <2>1. CoversTidy(d, s) /\ FilesTidy(d, s)
    BY <1>3, <1>10 DEF history, Tidy
  <2>2. \A p : Covers(d, p)' \subseteq Covers(d, p) \ {b}
    BY <1>4, <1>6, IdleFacts DEF Covers
  <2>3. \A a : Leaving(s, a) <=> a = b
    BY <1>3, <1>5 DEF Leaving
  <2>4. CoversTidy(d, r)'
    BY <1>3, <1>10, <2>1, <2>2, <2>3 DEF CoversTidy
  <2>5. FilesTidy(d, r)'
    <3>1. file[b] # d
      BY <1>4, <1>9, <1>10
    <3> QED
      BY <1>3, <1>5, <1>6, <1>10, <2>1, <3>1 DEF FilesTidy
  <2> QED
    BY <2>4, <2>5
<1>11. s.at # "idle" /\ UNCHANGED <<used, overlapped>> /\ marred' = marred
  BY <1>3 DEF history
<1>12. CASE s.kind # "video"
  <2>0. PICK r : r = [s EXCEPT !.at = "pointing"]
    OBVIOUS
  <2>1. /\ r \in RequestStates
        /\ r.op = s.op /\ r.at = "pointing" /\ r.d = d /\ r.kind = s.kind
        /\ r.held = s.held /\ r.new = s.new /\ r.old = s.old
    BY ONLY <1>2, <1>4, <2>0 DEF RequestStates, Steps
  <2>2. /\ Finding(r) /\ Finding(s)
        /\ Filing(r) <=> Filing(s)
        /\ Filed(r) <=> Filed(s)
        /\ Filing(s) <=> Filed(s)
    BY ONLY <1>3, <1>12, <2>1 DEF Finding, Filing, Filed
  <2>3. Shape(r)
    BY ONLY <1>2, <1>3, <1>4, <1>12, <2>1, <2>2 DEF Shape
  <2>4. Becomes(q, r)
    BY <1>1, <1>12, <2>0 DEF ForgetAsset, Moves
  <2>5. Touches(r, d, home, home)
    BY <1>1, <1>2, <1>7, <1>8, <2>1, Claims
  <2>6. ASSUME Tidy(d, s)
        PROVE  Tidy(d, r)'
    <3>1. RowKept(d, r)'
      BY <1>3, <2>1, <2>2, <2>6 DEF Tidy, RowKept
    <3>2. NewKept(d, r)'
      <4>1. Filing(s) => asset'[s.new] = asset[s.new]
        BY <1>9, <2>6
      <4>2. file' = file /\ NewKept(d, s)
        BY <1>3, <2>6 DEF Tidy
      <4> QED
        BY ONLY <2>1, <2>2, <4>1, <4>2 DEF NewKept
    <3>3. OldKept(d, r)'
      BY <1>3, <1>5, <1>9, <2>1, <2>6 DEF OldKept
    <3>4. d \notin marred' => CoversTidy(d, r)' /\ FilesTidy(d, r)'
      BY <1>10, <2>1, <2>6
    <3> QED
      BY <1>9, <2>6, <3>1, <3>2, <3>3, <3>4 DEF Tidy
  <2> QED
    BY <1>1, <1>2, <1>7, <1>11, <2>1, <2>3, <2>4, <2>5, <2>6, OngoingStep
<1>13. CASE s.kind = "video"
  <2>1. Becomes(q, Idle)
    BY <1>1, <1>13 DEF ForgetAsset, Ends
  <2>2. Touches(Idle, d, home, home)
    BY <1>8, NoClaims
  <2>3. s.new = None /\ None \notin Assets
    BY <1>3, <1>4, <1>13, PublishDraftAssumption DEF Shape, Filing, Finding
  <2>4. ASSUME Tidy(d, s)
        PROVE  Tidy(d, Idle)'
    <3>1. d \notin marred' => CoversTidy(d, Idle)' /\ FilesTidy(d, Idle)'
      BY <1>10, <2>3, <2>4, IdleFacts
    <3> QED
      BY <1>9, <2>4, <3>1, IdleKept DEF Tidy
  <2> QED
    BY <1>1, <1>2, <1>7, <1>11, <2>1, <2>2, <2>4, IdleFacts, ShapeIdle, OngoingStep
<1> QED
  BY <1>12, <1>13

(* The draft's row is made to name the new asset, in the row as it was read.  *)
LEMMA PointStep ==
  ASSUME DraftInv, NEW q \in Requests, PointDraft(q)
  PROVE  DraftInv'
<1>1. PICK s : s = req[q]
  OBVIOUS
<1>2. PICK d : d = s.d
  OBVIOUS
<1>3. s.at = "pointing" /\ SaveDraft(d, Pointed(s)) /\ UNCHANGED <<asset, file, used, history>>
  BY <1>1, <1>2 DEF PointDraft, At
<1>4. s \in RequestStates /\ Shape(s) /\ d \in Drafts /\ d # None
  BY <1>1, <1>2, <1>3, Ongoing, PublishDraftAssumption
<1>5. /\ Finding(s)
      /\ s.op = "upload" => Filing(s) /\ Filed(s) /\ s.new \in Assets
      /\ s.op # "upload" => s.new = None
  BY ONLY <1>3, <1>4 DEF Shape, RequestStates, Finding, Filing, Filed
<1>6. PICK home \in [Assets -> Drafts \cup {None}] : OwnedBy(home)
  BY DEF DraftInv, OwnInv
<1>7. /\ s.held \in DraftRows /\ s.held.status # "none"
      /\ s.held.video # None => home[s.held.video] = d
      /\ s.held.video \in Assets \cup {None}
  BY <1>1, <1>2, <1>4, <1>5, <1>6, HeldRow, Claims
<1>8. s.at # "idle" /\ UNCHANGED <<used, overlapped>> /\ marred' = marred /\ None \notin Assets
  BY <1>3, PublishDraftAssumption DEF history
<1>9. CASE s.kind # "video"
  <2>1. SaveDraft(d, s.held) /\ Becomes(q, Idle)
    BY <1>1, <1>3, <1>9 DEF Pointed, PointDraft, Ends
  <2>2. Touches(Idle, d, home, home)
    BY <1>3, <1>4, <1>6, <1>7, <2>1, NoClaims, RowTouch
  <2>3. ASSUME Tidy(d, s)
        PROVE  Tidy(d, Idle)'
    <3>1. draft[d] = s.held
      BY <1>5, <2>3 DEF Tidy, RowKept
    <3>2. UNCHANGED store
      BY <1>3, <1>4, <2>1, <3>1, SavedAsIs DEF DraftInv
    <3>3. \A a \in s.old : file[a] = None
      BY <1>3, <2>3 DEF Tidy, OldKept
    <3>4. s.op = "upload" => asset[s.new].draft = d
      BY <1>5, <2>3 DEF Tidy, NewKept
    <3>5. Tidy(d, Idle)
      BY <1>3, <1>4, <1>5, <1>8, <2>3, <3>3, <3>4, LetGo
    <3> QED
      BY <1>8, <3>2, <3>5, TidyStays
  <2> QED
    BY <1>1, <1>2, <1>6, <1>8, <2>1, <2>2, <2>3, IdleFacts, ShapeIdle, OngoingStep
<1>10. CASE s.kind = "video"
  <2>1. s.op = "upload" /\ s.old = {} /\ s.new # s.held.video
    BY ONLY <1>3, <1>4, <1>5, <1>10 DEF Shape
  <2>2. PICK row : row = [s.held EXCEPT !.video = s.new]
    OBVIOUS
  <2>3. row \in DraftRows /\ row.status # "none" /\ row.video = s.new
    BY ONLY <1>5, <1>7, <2>1, <2>2 DEF DraftRows
  <2>4. SaveDraft(d, row) /\ draft'[d] = row
    BY <1>3, <1>4, <1>10, <2>2 DEF Pointed, SaveDraft, DraftInv, TypeOK
  <2>5. home[s.new] = d
    BY <1>1, <1>2, <1>5, <1>6, <2>1, Claims
  <2>6. ASSUME Tidy(d, s)
        PROVE  /\ VideoTidy(d)' /\ asset[s.new].draft = d
               /\ s.held.video # None => asset[s.held.video] = [draft |-> d, kind |-> "video"]
    <3>1. asset[s.new] = [draft |-> d, kind |-> "video"] /\ file[s.new] = d
      BY <1>5, <1>10, <2>1, <2>6 DEF Tidy, NewKept
    <3>2. VideoTidy(d)'
      BY <1>3, <2>3, <2>4, <3>1 DEF VideoTidy
    <3>3. draft[d] = s.held
      BY <1>5, <2>6 DEF Tidy, RowKept
    <3> QED
      BY <2>6, <3>1, <3>2, <3>3 DEF Tidy, VideoTidy
  <2>7. ASSUME Tidy(d, s), d \notin marred', NEW r, r.at \in {"idle", "looking"}
        PROVE  CoversTidy(d, r)' /\ FilesTidy(d, r)'
    <3>1. CoversTidy(d, s) /\ FilesTidy(d, s)
      BY <1>8, <2>7 DEF Tidy
    <3>2. \A p : Covers(d, p)' = Covers(d, p)
      BY <1>3 DEF Covers
    <3>3. \A a : ~Leaving(s, a)
      BY <1>3 DEF Leaving
    <3>4. CoversTidy(d, r)'
      BY <1>3, <2>7, <3>1, <3>2, <3>3 DEF CoversTidy
    <3>5. FilesTidy(d, r)'
      BY <1>3, <2>1, <2>6, <2>7, <3>1 DEF FilesTidy
    <3> QED
      BY <3>4, <3>5
  <2>8. CASE s.held.video = None
    <3>1. Becomes(q, Idle)
      BY <1>1, <1>10, <2>8 DEF PointDraft, Replaced, Ends
    <3>2. Touches(Idle, d, home, home)
      BY <1>3, <1>4, <1>6, <2>3, <2>4, <2>5, NoClaims, RowTouch
    <3>3. ASSUME Tidy(d, s)
          PROVE  Tidy(d, Idle)'
      <4>1. d \notin marred' => CoversTidy(d, Idle)' /\ FilesTidy(d, Idle)'
        BY <2>7, <3>3, IdleFacts
      <4> QED
        BY <2>6, <3>3, <4>1, IdleKept DEF Tidy
    <3> QED
      BY <1>1, <1>2, <1>6, <1>8, <3>1, <3>2, <3>3, IdleFacts, ShapeIdle, OngoingStep
  <2>9. CASE s.held.video # None
    <3>1. PICK v \in Assets : v = s.held.video
      BY <1>7, <2>9
    <3>2. PICK r : r = [Idle EXCEPT !.op = "upload", !.at = "looking", !.d = d, !.old = {v}]
      OBVIOUS
    <3>3. Becomes(q, r)
      BY <1>1, <1>2, <1>10, <2>9, <3>1, <3>2 DEF PointDraft, Replaced
    <3>4. /\ r \in RequestStates
          /\ r.op = "upload" /\ r.at = "looking" /\ r.d = d /\ r.kind = "video"
          /\ r.held = NoDraft /\ r.new = None /\ r.old = {v}
      BY ONLY <1>4, <3>1, <3>2, IdleFacts DEF RequestStates, Steps, Ops
    <3>5. ~Finding(r) /\ ~Filing(r) /\ ~Filed(r)
      BY ONLY <3>4 DEF Finding, Filing, Filed
    <3>6. Shape(r)
      BY ONLY <1>4, <3>1, <3>4, <3>5, IdleFacts DEF Shape
    <3>7. \A a \in Assets : a = r.new \/ a \in r.old \/ a = r.held.video => home[a] = d
      BY <1>7, <1>8, <3>1, <3>4, IdleFacts
    <3>8. Touches(r, d, home, home)
      BY <1>3, <1>4, <1>6, <2>3, <2>4, <2>5, <3>7, RowTouch
    <3>9. ASSUME Tidy(d, s)
          PROVE  Tidy(d, r)'
      <4>1. RowKept(d, r)' /\ NewKept(d, r)'
        BY ONLY <3>4, <3>5 DEF RowKept, NewKept
      <4>2. OldKept(d, r)'
        <5>1. asset'[v] = [draft |-> d, kind |-> "video"]
          BY <1>3, <2>6, <2>9, <3>1, <3>9
        <5>2. draft'[d].video # v
          BY <2>1, <2>3, <2>4, <3>1
        <5> QED
          BY ONLY <3>4, <5>1, <5>2 DEF OldKept
      <4>3. d \notin marred' => CoversTidy(d, r)' /\ FilesTidy(d, r)'
        BY <2>7, <3>4, <3>9
      <4> QED
        BY <2>6, <3>9, <4>1, <4>2, <4>3 DEF Tidy
    <3>10. r.at # "inserting" /\ r.d \in {d, None}
      BY <3>4
    <3> QED
      BY <1>1, <1>2, <1>6, <1>8, <3>3, <3>4, <3>6, <3>8, <3>9, <3>10, OngoingStep
  <2> QED
    BY <2>8, <2>9
<1> QED
  BY <1>9, <1>10

(* What a request that comes to a draft may count on.                         *)
LEMMA Arriving ==
  ASSUME DraftInv, NEW d \in Drafts, Exists(d),
         overlapped' = IF Busy(d, Requests) THEN overlapped \cup {d} ELSE overlapped
  PROVE  /\ d \in used
         /\ \A o \in Requests : At(o, "inserting") => req[o].d # d
         /\ d \notin overlapped' => Tidy(d, Idle) /\ \A o \in Requests : req[o].d # d
         /\ overlapped \subseteq overlapped' /\ overlapped' \subseteq overlapped \cup {d}
<1>1. d \in used
  BY DEF DraftInv, UsedInv
<1>2. \A o \in Requests : At(o, "inserting") => req[o].d # d
  BY DEF DraftInv, LoneInv
<1>3. d \notin overlapped' => d \notin overlapped /\ ~Busy(d, Requests)
  OBVIOUS
<1>4. d \notin overlapped' => Tidy(d, Idle) /\ \A o \in Requests : req[o].d # d
  BY <1>3 DEF DraftInv, TidyInv, Busy
<1> QED
  BY <1>1, <1>2, <1>4

(* A request finds its draft: it is alone there, or the draft is marked.      *)
LEMMA FindStep ==
  ASSUME DraftInv, NEW q \in Requests, NEW d \in Drafts, req[q] = Idle, Exists(d),
         NEW r \in RequestStates, Becomes(q, r), r.at \in {"updating", "listing", "seeking"},
         r.d = d, r.new = None, r.old = {}, Shape(r),
         r.held = IF r.at = "listing" THEN NoDraft ELSE draft[d],
         UNCHANGED <<store, used, marred>>,
         overlapped' = IF Busy(d, Requests) THEN overlapped \cup {d} ELSE overlapped
  PROVE  DraftInv'
<1>1. PICK home \in [Assets -> Drafts \cup {None}] : OwnedBy(home)
  BY DEF DraftInv, OwnInv
<1>2. marred' = marred
  OBVIOUS
<1>3. /\ d \in used
      /\ \A o \in Requests : At(o, "inserting") => req[o].d # d
      /\ d \notin overlapped' => Tidy(d, Idle) /\ \A o \in Requests : req[o].d # d
      /\ overlapped \subseteq overlapped' /\ overlapped' \subseteq overlapped \cup {d}
  BY <1>2, Arriving
<1>4. used' = used /\ used \subseteq Drafts \cup Assets
  BY DEF DraftInv, TypeOK
<1>5. Turns(q, r, d)
  BY <1>2, <1>3, <1>4, IdleFacts DEF Turns
<1>6. \A a \in Assets : a = r.new \/ a \in r.old \/ a = r.held.video => home[a] = d
  BY <1>1, IdleFacts, PublishDraftAssumption DEF OwnedBy
<1>7. Touches(r, d, home, home)
  BY <1>1, <1>6, TouchesNothing
<1>8. ASSUME d \notin overlapped'
      PROVE  Tidy(d, r)'
  <2>1. Tidy(d, Idle)
    BY <1>3, <1>8
  <2>2. ~Filing(r) /\ ~Filed(r)
    BY DEF Shape, Filed
  <2>3. Finding(r) => r.held = draft[d]
    BY DEF Finding
  <2>4. RowKept(d, r) /\ NewKept(d, r) /\ OldKept(d, r)
    BY <2>2, <2>3 DEF RowKept, NewKept, OldKept
  <2>5. d \notin marred' => CoversTidy(d, r) /\ FilesTidy(d, r)
    <3>1. d \notin marred' => CoversTidy(d, Idle) /\ FilesTidy(d, Idle)
      BY <1>2, <2>1 DEF Tidy
    <3>2. \A a : ~Leaving(Idle, a) /\ ~Leaving(r, a)
      BY IdleFacts DEF Leaving
    <3>3. CoversTidy(d, Idle) => CoversTidy(d, r)
      BY <3>2 DEF CoversTidy
    <3>4. FilesTidy(d, Idle) => FilesTidy(d, r)
      BY IdleFacts DEF FilesTidy
    <3> QED
      BY <3>1, <3>3, <3>4
  <2>6. VideoTidy(d)
    BY <2>1 DEF Tidy
  <2> QED
    BY <2>4, <2>5, <2>6, TidySame
<1> QED
  BY <1>1, <1>5, <1>7, <1>8, DraftFrame

(* update finds the draft.                                                    *)
LEMMA BeginUpdateStep ==
  ASSUME DraftInv, NEW q \in Requests, NEW d \in Drafts, BeginUpdate(q, d)
  PROVE  DraftInv'
<1>1. PICK r : r = [Idle EXCEPT !.op = "update", !.at = "updating", !.d = d, !.held = draft[d]]
  OBVIOUS
<1>2. /\ req[q] = Idle /\ Exists(d) /\ UNCHANGED <<store, used, marred>>
      /\ overlapped' = IF Busy(d, Requests) THEN overlapped \cup {d} ELSE overlapped
  BY DEF BeginUpdate, Find
<1>3. Becomes(q, r)
  <2>1. r = [[Idle EXCEPT !.op = "update", !.at = "updating"] EXCEPT !.d = d, !.held = draft[d]]
    BY <1>1 DEF Idle
  <2>2. [Idle EXCEPT !.op = "update", !.at = "updating"].op # "remove"
    BY DEF Idle
  <2> QED
    BY <2>1, <2>2 DEF BeginUpdate, Find
<1>4. /\ r.op = "update" /\ r.at = "updating" /\ r.d = d /\ r.kind = "video"
      /\ r.held = draft[d] /\ r.new = None /\ r.old = {} /\ r \in RequestStates
  <2>1. draft[d] \in DraftRows
    BY DEF DraftInv, TypeOK
  <2> QED
    BY ONLY <1>1, <2>1, IdleFacts DEF RequestStates, Ops, Steps
<1>5. Shape(r)
  BY ONLY <1>2, <1>4, PublishDraftAssumption DEF Shape, Finding, Filing, Exists
<1> QED
  BY <1>2, <1>3, <1>4, <1>5, FindStep

(* remove finds the draft.                                                    *)
LEMMA BeginRemoveStep ==
  ASSUME DraftInv, NEW q \in Requests, NEW d \in Drafts, BeginRemove(q, d)
  PROVE  DraftInv'
<1>1. PICK r : r = [Idle EXCEPT !.op = "remove", !.at = "listing", !.d = d, !.held = NoDraft]
  OBVIOUS
<1>2. /\ req[q] = Idle /\ Exists(d) /\ UNCHANGED <<store, used, marred>>
      /\ overlapped' = IF Busy(d, Requests) THEN overlapped \cup {d} ELSE overlapped
  BY DEF BeginRemove, Find
<1>3. Becomes(q, r)
  <2>1. r = [[Idle EXCEPT !.op = "remove", !.at = "listing"] EXCEPT !.d = d, !.held = NoDraft]
    BY <1>1 DEF Idle
  <2>2. [Idle EXCEPT !.op = "remove", !.at = "listing"].op = "remove"
    BY DEF Idle
  <2> QED
    BY <2>1, <2>2 DEF BeginRemove, Find
<1>4. /\ r.op = "remove" /\ r.at = "listing" /\ r.d = d /\ r.kind = "video"
      /\ r.held = NoDraft /\ r.new = None /\ r.old = {} /\ r \in RequestStates
  BY ONLY <1>1, IdleFacts DEF RequestStates, Ops, Steps
<1>5. Shape(r)
  BY ONLY <1>4, IdleFacts, PublishDraftAssumption DEF Shape, Finding, Filing
<1> QED
  BY <1>2, <1>3, <1>4, <1>5, FindStep

(* removeCover finds the draft.                                               *)
LEMMA BeginUncoverStep ==
  ASSUME DraftInv, NEW q \in Requests, NEW d \in Drafts, NEW p \in Platforms, BeginUncover(q, d, p)
  PROVE  DraftInv'
<1>1. PICK r : r = [Idle EXCEPT !.op = "uncover", !.at = "seeking", !.kind = p, !.d = d, !.held = draft[d]]
  OBVIOUS
<1>2. /\ req[q] = Idle /\ Exists(d) /\ UNCHANGED <<store, used, marred>>
      /\ overlapped' = IF Busy(d, Requests) THEN overlapped \cup {d} ELSE overlapped
  BY DEF BeginUncover, Find
<1>3. Becomes(q, r)
  <2>1. r = [[Idle EXCEPT !.op = "uncover", !.at = "seeking", !.kind = p] EXCEPT !.d = d, !.held = draft[d]]
    BY <1>1 DEF Idle
  <2>2. [Idle EXCEPT !.op = "uncover", !.at = "seeking", !.kind = p].op # "remove"
    BY DEF Idle
  <2> QED
    BY <2>1, <2>2 DEF BeginUncover, Find
<1>4. /\ r.op = "uncover" /\ r.at = "seeking" /\ r.d = d /\ r.kind = p /\ p # "video"
      /\ r.held = draft[d] /\ r.new = None /\ r.old = {} /\ r \in RequestStates
  <2>1. draft[d] \in DraftRows /\ p # "video"
    BY PublishDraftAssumption DEF DraftInv, TypeOK
  <2> QED
    BY ONLY <1>1, <2>1, IdleFacts DEF RequestStates, Ops, Steps, Kinds
<1>5. Shape(r)
  BY ONLY <1>2, <1>4, PublishDraftAssumption DEF Shape, Finding, Filing, Exists
<1> QED
  BY <1>2, <1>3, <1>4, <1>5, FindStep

(* An upload finds the draft, and its file is written under a new id.         *)
LEMMA BeginUploadStep ==
  ASSUME DraftInv, NEW q \in Requests, NEW d \in Drafts, NEW k \in Kinds, NEW b \in Assets,
         BeginUpload(q, d, k, b)
  PROVE  DraftInv'
<1>1. PICK step : step = IF k = "video" THEN "recording" ELSE "seeking"
  OBVIOUS
<1>2. PICK r : r = [Idle EXCEPT !.op = "upload", !.kind = k, !.new = b, !.at = step, !.d = d, !.held = draft[d]]
  OBVIOUS
<1>3. /\ req[q] = Idle /\ Exists(d) /\ marred' = marred /\ b \notin used /\ WriteFile(b, d)
      /\ used' = used \cup {b} /\ UNCHANGED <<draft, asset>>
      /\ overlapped' = IF Busy(d, Requests) THEN overlapped \cup {d} ELSE overlapped
  BY DEF BeginUpload, Find
<1>4. Becomes(q, r)
  <2>1. r = [[Idle EXCEPT !.op = "upload", !.kind = k, !.new = b, !.at = step] EXCEPT !.d = d, !.held = draft[d]]
    BY <1>2 DEF Idle
  <2>2. [Idle EXCEPT !.op = "upload", !.kind = k, !.new = b, !.at = step].op # "remove"
    BY DEF Idle
  <2> QED
    BY <1>1, <2>1, <2>2 DEF BeginUpload, Find
<1>5. /\ r.op = "upload" /\ r.at = step /\ r.d = d /\ r.kind = k
      /\ r.held = draft[d] /\ r.new = b /\ r.old = {} /\ r \in RequestStates
  <2>1. draft[d] \in DraftRows
    BY DEF DraftInv, TypeOK
  <2> QED
    BY ONLY <1>1, <1>2, <2>1, IdleFacts DEF RequestStates, Ops, Steps
<1>6. PICK home \in [Assets -> Drafts \cup {None}] : OwnedBy(home)
  BY DEF DraftInv, OwnInv
<1>7. b # None /\ d # None /\ home[b] = None /\ asset[b].draft = None /\ file[b] = None
  BY <1>3, <1>6, PublishDraftAssumption DEF OwnedBy
<1>8. draft[d].video # b
  BY <1>6, <1>7 DEF OwnedBy
<1>9. Finding(r) /\ Filing(r) /\ ~Filed(r)
  BY ONLY <1>1, <1>5 DEF Finding, Filing, Filed
<1>10. Shape(r)
  BY ONLY <1>1, <1>3, <1>5, <1>7, <1>8, <1>9 DEF Shape, Exists
<1>11. /\ d \in used
       /\ \A o \in Requests : At(o, "inserting") => req[o].d # d
       /\ d \notin overlapped' => Tidy(d, Idle) /\ \A o \in Requests : req[o].d # d
       /\ overlapped \subseteq overlapped' /\ overlapped' \subseteq overlapped \cup {d}
  BY <1>3, Arriving
<1>12. Turns(q, r, d)
  <2>1. used \subseteq Drafts \cup Assets
    BY DEF DraftInv, TypeOK
  <2> QED
    BY <1>1, <1>3, <1>4, <1>5, <1>10, <1>11, <2>1, IdleFacts DEF Turns
<1>13. PICK next : next = [home EXCEPT ![b] = d]
  OBVIOUS
<1>14. /\ file' \in [Assets -> Drafts \cup {None}] /\ file'[b] = d
       /\ \A a \in Assets \ {b} : file'[a] = file[a]
  BY <1>3 DEF WriteFile, DraftInv, TypeOK
<1>15. /\ next \in [Assets -> Drafts \cup {None}] /\ next[b] = d
       /\ \A a \in Assets \ {b} : next[a] = home[a]
  BY <1>6, <1>13
<1>16. Touches(r, d, home, next)
  <2>1. \A a \in Assets : next[a] = home[a] \/ (home[a] = None /\ next[a] = d /\ a \in used')
    BY <1>3, <1>7, <1>15
  <2>2. \A a \in Assets : next[a] # d => asset'[a] = asset[a] /\ file'[a] = file[a]
    BY <1>3, <1>14, <1>15
  <2>3. \A a \in Assets : next[a] = d => asset'[a].draft \in {None, d} /\ file'[a] \in {None, d}
    BY <1>3, <1>6, <1>7, <1>14, <1>15 DEF OwnedBy
  <2>4. draft[d].video # None => draft[d].video \in Assets \ {b} /\ home[draft[d].video] = d
    BY <1>6, <1>8 DEF OwnedBy, DraftInv, TypeOK, DraftRows
  <2>5. \A a \in Assets : a = r.new \/ a \in r.old \/ a = r.held.video => next[a] = d
    BY <1>5, <1>15, <2>4, PublishDraftAssumption
  <2>6. draft'[d].video # None => next[draft'[d].video] = d
    BY <1>3, <1>15, <2>4
  <2>7. Exists(d)'
    BY <1>3 DEF Exists
  <2> QED
    BY <1>3, <1>14, <1>15, <2>1, <2>2, <2>3, <2>5, <2>6, <2>7 DEF Touches, DraftInv, TypeOK
<1>17. ASSUME d \notin overlapped'
       PROVE  Tidy(d, r)'
  <2>1. Tidy(d, Idle)
    BY <1>11, <1>17
  <2>2. RowKept(d, r)'
    BY <1>1, <1>3, <1>5 DEF RowKept
  <2>3. NewKept(d, r)'
    BY <1>3, <1>5, <1>7, <1>9, <1>14 DEF NewKept, Recorded
  <2>4. OldKept(d, r)'
    BY <1>1, <1>5 DEF OldKept
  <2>5. VideoTidy(d)'
    <3>1. draft[d].video # None => draft[d].video \in Assets \ {b}
      BY <1>8 DEF DraftInv, TypeOK, DraftRows
    <3> QED
      BY <1>3, <1>14, <2>1, <3>1 DEF Tidy, VideoTidy
  <2>6. d \notin marred' => CoversTidy(d, Idle) /\ FilesTidy(d, Idle)
    BY <1>3, <2>1 DEF Tidy
  <2>7. CoversTidy(d, Idle) => CoversTidy(d, r)'
    <3>1. \A p : Covers(d, p)' = Covers(d, p) /\ Covers(d, p) \subseteq Assets \ {b}
      BY <1>3, <1>7 DEF Covers
    <3>2. \A a : ~Leaving(Idle, a)
      BY IdleFacts DEF Leaving
    <3>3. ~(r.at = "recording" /\ r.kind # "video")
      BY <1>1, <1>5
    <3> QED
      BY <1>14, <3>1, <3>2, <3>3 DEF CoversTidy
  <2>8. FilesTidy(d, Idle) => FilesTidy(d, r)'
    BY <1>3, <1>5, <1>14, IdleFacts, PublishDraftAssumption DEF FilesTidy
  <2> QED
    BY <2>2, <2>3, <2>4, <2>5, <2>6, <2>7, <2>8 DEF Tidy
<1> QED
  BY <1>6, <1>12, <1>16, <1>17, DraftFrame

(* create takes a new id.                                                     *)
LEMMA BeginCreateStep ==
  ASSUME DraftInv, NEW q \in Requests, NEW d \in Drafts, BeginCreate(q, d)
  PROVE  DraftInv'
<1>1. PICK r : r = [Idle EXCEPT !.op = "create", !.at = "inserting", !.d = d]
  OBVIOUS
<1>2. /\ req[q] = Idle /\ d \notin used /\ Becomes(q, r) /\ used' = used \cup {d}
      /\ UNCHANGED <<store, history>> /\ UNCHANGED <<overlapped, marred>>
  BY <1>1 DEF BeginCreate, history
<1>3. /\ r.op = "create" /\ r.at = "inserting" /\ r.d = d /\ r.kind = "video"
      /\ r.held = NoDraft /\ r.new = None /\ r.old = {} /\ r \in RequestStates
  BY ONLY <1>1, IdleFacts DEF RequestStates, Ops, Steps
<1>4. Shape(r)
  BY ONLY <1>3, IdleFacts, PublishDraftAssumption DEF Shape, Finding, Filing
<1>5. ~Exists(d) /\ \A o \in Requests : req[o].d # d
  BY <1>2 DEF DraftInv, UsedInv, Busy
<1>6. PICK home \in [Assets -> Drafts \cup {None}] : OwnedBy(home)
  BY DEF DraftInv, OwnInv
<1>7. Turns(q, r, d)
  <2>1. used \subseteq Drafts \cup Assets
    BY DEF DraftInv, TypeOK
  <2>2. ~Exists(d)'
    BY <1>2, <1>5 DEF store, Exists
  <2> QED
    BY <1>2, <1>3, <1>4, <1>5, <2>1, <2>2, IdleFacts DEF Turns
<1>8. \A a \in Assets : ~(a = r.new \/ a \in r.old \/ a = r.held.video)
  BY <1>3, IdleFacts, PublishDraftAssumption
<1>9. Touches(r, d, home, home)
  BY <1>2, <1>6, <1>8, TouchesNothing
<1>10. ASSUME d \notin overlapped'
       PROVE  Tidy(d, r)'
  <2>1. Tidy(d, Idle)
    BY <1>2, <1>5, <1>10 DEF DraftInv, TidyInv, Busy
  <2>2. RowKept(d, r) /\ NewKept(d, r) /\ OldKept(d, r)
    BY ONLY <1>3 DEF RowKept, NewKept, OldKept, Finding, Filing, Filed
  <2>3. VideoTidy(d) /\ (d \notin marred => CoversTidy(d, Idle) /\ FilesTidy(d, Idle))
    BY <2>1 DEF Tidy
  <2>4. CoversTidy(d, Idle) => CoversTidy(d, r)
    BY <1>3, IdleFacts DEF CoversTidy, Leaving
  <2>5. FilesTidy(d, Idle) => FilesTidy(d, r)
    BY <1>3, IdleFacts DEF FilesTidy
  <2> QED
    BY <1>2, <2>2, <2>3, <2>4, <2>5, TidySame
<1> QED
  BY <1>6, <1>7, <1>9, <1>10, DraftFrame

(* A draft is published between the steps of the requests.                    *)
LEMMA PublishStep ==
  ASSUME DraftInv, NEW d \in Drafts, Publish(d)
  PROVE  DraftInv'
<1>1. PICK row : row = [draft[d] EXCEPT !.status = "published"]
  OBVIOUS
<1>2. /\ row \in DraftRows /\ row.status = "published" /\ row.video = draft[d].video
      /\ draft' = [draft EXCEPT ![d] = row] /\ SaveDraft(d, row)
      /\ draft'[d] = row /\ \A e \in Drafts \ {d} : draft'[e] = draft[e]
      /\ draft' \in [Drafts -> DraftRows]
  <2>1. draft[d] \in DraftRows /\ draft \in [Drafts -> DraftRows]
    BY DEF DraftInv, TypeOK
  <2>2. row \in DraftRows /\ row.status = "published" /\ row.video = draft[d].video
    BY ONLY <1>1, <2>1 DEF DraftRows
  <2>3. draft' = [draft EXCEPT ![d] = row]
    BY <1>1 DEF Publish
  <2> QED
    BY ONLY <2>1, <2>2, <2>3 DEF SaveDraft
<1>3. /\ Exists(d) /\ asset' = asset /\ file' = file /\ req' = req /\ used' = used /\ marred' = marred
      /\ overlapped' = IF Busy(d, Requests) THEN overlapped \cup {d} ELSE overlapped
  BY DEF Publish
<1>4. \A e \in Drafts : (Exists(e)' <=> Exists(e)) /\ draft'[e].video = draft[e].video
  BY <1>2, <1>3 DEF Exists
<1>5. PICK home \in [Assets -> Drafts \cup {None}] : OwnedBy(home)
  BY DEF DraftInv, OwnInv
<1>6. TypeOK'
  <2>1. \A a \in Assets : Recorded(a)' => Exists(asset[a].draft)'
    <3>1. \A a \in Assets : Recorded(a) => asset[a].draft \in Drafts /\ Exists(asset[a].draft)
      BY DEF DraftInv, TypeOK, Recorded
    <3> QED
      BY <1>2, <1>3, <3>1 DEF Exists, Recorded
  <2> QED
    BY <1>2, <1>3, <2>1 DEF DraftInv, TypeOK
<1>7. ShapeInv'
  <2>1. \A e \in Drafts : ~Exists(e)' => draft'[e] = NoDraft
    BY <1>2, <1>3, <1>4 DEF DraftInv, ShapeInv
  <2> QED
    BY <1>3, <2>1 DEF DraftInv, ShapeInv
<1>8. OwnInv'
  BY <1>3, <1>4, <1>5 DEF OwnInv, OwnedBy, Holds
<1>9. UsedInv'
  BY <1>3, <1>4 DEF DraftInv, UsedInv, Busy
<1>10. LoneInv'
  <2>1. \A q \in Requests : At(q, "inserting") => req[q].d \in Drafts
    BY DEF DraftInv, ShapeInv, Shape, TypeOK, RequestStates, At
  <2>2. \A q \in Requests : At(q, "inserting") => ~Exists(req[q].d)'
    BY <1>2, <1>3, <2>1 DEF DraftInv, LoneInv, Exists
  <2> QED
    BY <1>3, <2>2 DEF DraftInv, LoneInv, At
<1>11. TidyInv'
  <2>1. Touches(Idle, d, home, home)
    BY <1>2, <1>3, <1>5, NoClaims, RowTouch DEF OwnedBy
  <2>2. ASSUME NEW e \in Drafts \ {d}, e \notin overlapped', NEW s \in RequestStates, Shape(s),
               Tidy(e, s), \A a \in Assets : a = s.new \/ a \in s.old => home[a] = e
        PROVE  Tidy(e, s)'
    BY <1>3, <1>5, <2>1, <2>2, TidyElsewhere DEF DraftInv
  <2>3. ASSUME NEW e \in Drafts \ {d}, e \notin overlapped'
        PROVE  /\ \A q \in Requests : req[q].d = e => Tidy(e, req[q])'
               /\ ~Busy(e, Requests) => Tidy(e, Idle)'
    <3>1. e \notin overlapped
      BY <1>3, <2>3
    <3>2. ASSUME NEW q \in Requests, req[q].d = e
          PROVE  Tidy(e, req[q])'
      <4>1. PICK s \in RequestStates : s = req[q] /\ s = req'[q]
        BY <1>3 DEF DraftInv, TypeOK
      <4>2. Shape(s) /\ Tidy(e, s) /\ \A a \in Assets : a = s.new \/ a \in s.old => home[a] = e
        <5>1. Shape(req[q]) /\ Tidy(e, req[q])
          BY <3>1, <3>2 DEF DraftInv, ShapeInv, TidyInv
        <5>2. \A a \in Assets : a = req[q].new \/ a \in req[q].old => home[a] = e
          BY <1>5, <3>2 DEF OwnedBy, Holds
        <5> QED
          BY <4>1, <5>1, <5>2
      <4>3. Tidy(e, s)'
        BY <2>2, <2>3, <4>2
      <4> QED
        BY <4>1, <4>3
    <3>3. ASSUME ~Busy(e, Requests)
          PROVE  Tidy(e, Idle)'
      <4>1. Tidy(e, Idle)
        BY <3>1, <3>3 DEF DraftInv, TidyInv
      <4> QED
        BY <2>2, <2>3, <4>1, IdleFacts, ShapeIdle, NoClaims
    <3> QED
      BY <3>2, <3>3
  <2>4. ASSUME d \notin overlapped'
        PROVE  ~Busy(d, Requests) /\ Tidy(d, Idle)'
    <3>1. ~Busy(d, Requests) /\ Tidy(d, Idle)
      BY <1>3, <2>4 DEF DraftInv, TidyInv
    <3>2. VideoTidy(d)'
      BY <1>2, <1>3, <3>1 DEF Tidy, VideoTidy
    <3>3. CoversTidy(d, Idle) => CoversTidy(d, Idle)'
      <4>1. \A p : Covers(d, p)' = Covers(d, p)
        BY <1>3 DEF Covers
      <4> QED
        BY <1>3, <4>1 DEF CoversTidy, Leaving
    <3>4. FilesTidy(d, Idle) => FilesTidy(d, Idle)'
      BY <1>3 DEF FilesTidy
    <3> QED
      BY <1>3, <3>1, <3>2, <3>3, <3>4, IdleKept DEF Tidy
  <2>5. \A e : Busy(e, Requests)' <=> Busy(e, Requests)
    BY <1>3 DEF Busy
  <2>6. ASSUME NEW e \in Drafts, e \notin overlapped'
        PROVE  /\ \A q \in Requests : req'[q].d = e => Tidy(e, req[q])'
               /\ ~Busy(e, Requests)' => Tidy(e, Idle)'
    <3>1. CASE e = d
      BY <1>3, <2>4, <2>5, <2>6, <3>1 DEF Busy
    <3>2. CASE e # d
      BY <1>3, <2>3, <2>5, <2>6, <3>2
    <3> QED
      BY <3>1, <3>2
  <2> QED
    BY <2>6 DEF TidyInv
<1> QED
  BY <1>6, <1>7, <1>8, <1>9, <1>10, <1>11 DEF DraftInv

(* There is no draft at first.                                                *)
LEMMA DraftInit == Init => DraftInv
<1> SUFFICES ASSUME Init PROVE DraftInv
  OBVIOUS
<1>1. \A q \in Requests : req[q] = Idle
  BY DEF Init
<1>2. \A d \in Drafts : draft[d] = NoDraft /\ ~Exists(d)
  BY IdleFacts DEF Init, Exists
<1>3. \A a \in Assets : asset[a] = NoAsset /\ file[a] = None
  BY DEF Init
<1>4. TypeOK
  <2>1. req \in [Requests -> RequestStates]
    BY IdleFacts DEF Init
  <2>2. draft \in [Drafts -> DraftRows] /\ asset \in [Assets -> [draft : Drafts \cup {None}, kind : Kinds]]
    BY IdleFacts DEF Init
  <2>3. \A a \in Assets : ~Recorded(a)
    BY <1>3, IdleFacts DEF Recorded
  <2> QED
    BY <2>1, <2>2, <2>3 DEF Init, TypeOK
<1>5. ShapeInv
  BY <1>1, <1>2, ShapeIdle DEF ShapeInv
<1>6. OwnInv
  <2>1. PICK home : home = [a \in Assets |-> None]
    OBVIOUS
  <2>2. home \in [Assets -> Drafts \cup {None}] /\ \A a \in Assets : home[a] = None
    BY <2>1
  <2>3. OwnedBy(home)
    BY <1>1, <1>2, <1>3, <2>2, IdleFacts, NoClaims DEF OwnedBy, Holds
  <2> QED
    BY <2>2, <2>3 DEF OwnInv
<1>7. UsedInv
  BY <1>1, <1>2, IdleFacts, PublishDraftAssumption DEF UsedInv, Busy
<1>8. LoneInv
  BY <1>1, IdleFacts DEF LoneInv, At
<1>9. TidyInv
  <2>1. ASSUME NEW d \in Drafts
        PROVE  Tidy(d, Idle)
    <3>1. d # None
      BY PublishDraftAssumption
    <3>2. VideoTidy(d)
      BY <1>2, IdleFacts DEF VideoTidy
    <3>3. \A p : Covers(d, p) = {}
      BY <1>3, <3>1, IdleFacts DEF Covers
    <3>4. CoversTidy(d, Idle)
      BY <3>3, IdleFacts DEF CoversTidy
    <3>5. FilesTidy(d, Idle)
      BY <1>3, <3>1 DEF FilesTidy
    <3> QED
      BY <3>2, <3>4, <3>5, IdleKept DEF Tidy
  <2> QED
    BY <1>1, <2>1 DEF TidyInv
<1> QED
  BY <1>4, <1>5, <1>6, <1>7, <1>8, <1>9 DEF DraftInv

(* Every step keeps the invariant.                                            *)
LEMMA DraftNext == DraftInv /\ [Next]_vars => DraftInv'
<1> SUFFICES ASSUME DraftInv, [Next]_vars PROVE DraftInv'
  OBVIOUS
<1>1. ASSUME NEW q \in Requests, Arrive(q)
      PROVE  DraftInv'
  BY <1>1, BeginCreateStep, BeginUpdateStep, BeginRemoveStep, BeginUploadStep, BeginUncoverStep DEF Arrive
<1>2. ASSUME NEW q \in Requests, Serve(q)
      PROVE  DraftInv'
  BY <1>2, InsertStep, UpdateStep, ListDraft, RemoveStep, UnlinkStep, SeekDraft, RecordStep,
     RetireStep, ForgetStep, PointStep, NoPointDraft, LookDraft DEF Serve
<1>3. ASSUME NEW q \in Requests, RecordFails(q) \/ ReplaceFails(q) \/ RequestDies(q)
      PROVE  DraftInv'
  BY <1>3, RecordFailsStep, ReplaceFailsStep, DieDraft
<1>4. ASSUME NEW d \in Drafts, Publish(d)
      PROVE  DraftInv'
  BY <1>4, PublishStep
<1>5. CASE UNCHANGED vars
  <2>1. UNCHANGED <<draft, asset, file, req, used, overlapped, marred>>
    BY <1>5 DEF vars
  <2>2. TypeOK' /\ ShapeInv' /\ OwnInv' /\ UsedInv' /\ LoneInv'
    BY <2>1 DEF DraftInv, TypeOK, ShapeInv, OwnInv, OwnedBy, UsedInv, LoneInv, Exists, Recorded,
                Holds, Busy, At
  <2>3. \A d, r : Tidy(d, r)' <=> Tidy(d, r)
    BY <2>1 DEF Tidy, RowKept, NewKept, OldKept, VideoTidy, CoversTidy, FilesTidy, Listed, Covers,
                Leaving, Exists, Recorded
  <2>4. TidyInv'
    BY <2>1, <2>3 DEF DraftInv, TidyInv, Busy
  <2> QED
    BY <2>2, <2>4 DEF DraftInv
<1> QED
  BY <1>1, <1>2, <1>3, <1>4, <1>5 DEF Next

(* The inductive invariant of the drafts holds in every reachable state.      *)
THEOREM DraftInvariance == Spec => []DraftInv
<1> QED
  BY DraftInit, DraftNext, PTL DEF Spec

(* Every variable of the draft box keeps its type, and the foreign key of the *)
(* assets holds.                                                              *)
THEOREM DraftTypeCorrect == Spec => []TypeOK
<1>1. DraftInv => TypeOK
  BY DEF DraftInv
<1> QED
  BY <1>1, DraftInvariance, PTL

(* As long as no two requests were served for a draft at a time, its video id *)
(* names a video of its own whose file is there, through every crash and      *)
(* every failure of disk or database.                                         *)
THEOREM VideoThere == Spec => []VideoResolves
<1>1. DraftInv => VideoResolves
  <2> SUFFICES ASSUME DraftInv, NEW d \in Drafts \ overlapped
               PROVE  VideoTidy(d)
    BY DEF VideoResolves, VideoTidy
  <2> QED
    BY DEF DraftInv, TidyInv, Tidy, Busy
<1> QED
  BY <1>1, DraftInvariance, PTL

(* Without overlap and without a request that broke off, a draft has one      *)
(* cover of a platform at most, and its file is there.                        *)
THEOREM CoverThere == Spec => []CoverResolves
<1>1. DraftInv => CoverResolves
  <2> SUFFICES ASSUME DraftInv, NEW d \in Drafts \ Spoilt, NEW p \in Platforms,
                      \A q \in Requests : req[q].d # d
               PROVE  /\ \A a, b \in Covers(d, p) : a = b
                      /\ \A a \in Covers(d, p) : file[a] = d
    BY DEF CoverResolves
  <2>1. Tidy(d, Idle) /\ d \notin marred
    BY DEF DraftInv, TidyInv, Busy, Spoilt
  <2>2. CoversTidy(d, Idle)
    BY <2>1 DEF Tidy
  <2>3. \A a : ~Leaving(Idle, a)
    BY IdleFacts DEF Leaving
  <2> QED
    BY <2>2, <2>3 DEF CoversTidy
<1> QED
  BY <1>1, DraftInvariance, PTL

(* A file that no asset records is in the hands of a request for its draft,   *)
(* or lies in the directory of a draft on which requests overlapped or broke  *)
(* off.                                                                       *)
THEOREM NoFileLost == Spec => []NoOrphanFile
<1>1. DraftInv => NoOrphanFile
  <2> SUFFICES ASSUME DraftInv, NEW a \in Assets, file[a] # None, file[a] \notin Spoilt,
                      asset[a].draft # file[a]
               PROVE  \E q \in Requests : Holds(q, a) /\ req[q].d = file[a]
    BY DEF NoOrphanFile
  <2>1. PICK d \in Drafts : d = file[a] /\ d \notin overlapped /\ d \notin marred
    BY DEF DraftInv, TypeOK, Spoilt
  <2>2. ~Tidy(d, Idle)
    BY <2>1, IdleFacts, PublishDraftAssumption DEF Tidy, FilesTidy
  <2>3. PICK q \in Requests : req[q].d = d
    BY <2>1, <2>2 DEF DraftInv, TidyInv, Busy
  <2>4. Tidy(d, req[q])
    BY <2>1, <2>3 DEF DraftInv, TidyInv
  <2>5. a = req[q].new \/ a \in req[q].old
    BY <2>1, <2>4 DEF Tidy, FilesTidy
  <2> QED
    BY <2>1, <2>3, <2>5 DEF Holds
<1> QED
  BY <1>1, DraftInvariance, PTL

----------------------------------------------------------------------------
(* The quota of drafts.                                                       *)

(* What the box holds, and will soon hold, are drafts: finitely many.         *)
LEMMA SoonIsFinite ==
  ASSUME TypeOK
  PROVE  /\ IsFiniteSet(Soon) /\ IsFiniteSet(InBox)
         /\ Cardinality(Soon) \in Nat /\ Cardinality(InBox) \in Nat
         /\ Cardinality(InBox) <= Cardinality(Soon)
         /\ Cardinality(Requests) \in Nat
<1>1. IsFiniteSet(Drafts \cup {None})
  BY PublishDraftAssumption, FS_AddElement
<1>2. Soon \subseteq Drafts \cup {None} /\ InBox \subseteq Soon
  BY DEF TypeOK, RequestStates, Soon, InBox
<1>3. IsFiniteSet(Soon) /\ IsFiniteSet(InBox) /\ Cardinality(InBox) <= Cardinality(Soon)
  <2>1. IsFiniteSet(Soon)
    BY <1>1, <1>2, FS_Subset
  <2> QED
    BY <1>2, <2>1, FS_Subset
<1> QED
  BY <1>3, PublishDraftAssumption, FS_CardinalityType

(* A bound on what the box will soon hold stays when nothing is added to it.  *)
LEMMA NothingSooner ==
  ASSUME TypeOK, QuotaInv, Soon' \subseteq Soon
  PROVE  QuotaInv'
<1>1. Cardinality(Soon') <= Cardinality(Soon) /\ IsFiniteSet(Soon')
  BY SoonIsFinite, FS_Subset
<1>2. Cardinality(Soon') \in Nat
  BY <1>1, FS_CardinalityType
<1> QED
  BY <1>1, <1>2, SoonIsFinite, PublishDraftAssumption DEF QuotaInv

(* A step of one request adds nothing when the rows it leaves as drafts, and  *)
(* the row it will write, were counted before.                                *)
LEMMA CountedBefore ==
  ASSUME TypeOK, NEW q \in Requests, NEW r, Becomes(q, r),
         r.at = "inserting" \/ r.held.status = "draft" => r.d \in Soon,
         \A d \in Drafts : draft'[d].status = "draft" => d \in Soon
  PROVE  Soon' \subseteq Soon
<1>1. InBox' \subseteq Soon
  BY DEF InBox
<1>2. ASSUME NEW o \in Requests, Keeps(o)'
      PROVE  req'[o].d \in Soon
  <2>1. CASE o = q
    BY <1>2, <2>1 DEF Becomes, Keeps, At, TypeOK
  <2>2. CASE o # q
    <3>1. req'[o] = req[o]
      BY <2>2 DEF Becomes, TypeOK
    <3>2. Keeps(o)
      BY <1>2, <3>1 DEF Keeps, At
    <3> QED
      BY <3>1, <3>2 DEF Soon
  <2> QED
    BY <2>1, <2>2
<1> QED
  BY <1>1, <1>2 DEF Soon

(* A request that moves on, with its draft and the row it found, adds nothing *)
(* as long as it leaves the rows alone.                                       *)
LEMMA MovesOn ==
  ASSUME TypeOK, NEW q \in Requests, NEW r, Becomes(q, r), UNCHANGED draft,
         r = Idle \/ (r.at # "inserting" /\ r.d = req[q].d /\ r.held = req[q].held)
  PROVE  Soon' \subseteq Soon
<1>1. \A d \in Drafts : draft'[d].status = "draft" => d \in Soon
  BY DEF Soon, InBox
<1>2. r.at = "inserting" \/ r.held.status = "draft" => r.d \in Soon
  BY DEF Idle, NoDraft, Soon, Keeps
<1> QED
  BY <1>1, <1>2, CountedBefore

(* A request that finds its draft holds what the box has.                     *)
LEMMA FindsInBox ==
  ASSUME TypeOK, NEW q \in Requests, NEW d \in Drafts, NEW r \in RequestStates, Find(q, d, r),
         r.at # "inserting", UNCHANGED draft
  PROVE  Soon' \subseteq Soon
<1>1. \A e \in Drafts : draft'[e].status = "draft" => e \in Soon
  BY DEF Soon, InBox
<1> DEFINE s == [r EXCEPT !.d = d, !.held = IF r.op = "remove" THEN NoDraft ELSE draft[d]]
<1>2. Becomes(q, s) /\ s.at # "inserting" /\ s.d = d
  BY DEF Find, RequestStates
<1>3. s.held.status = "draft" => draft[d].status = "draft"
  BY DEF RequestStates, NoDraft
<1>4. s.held.status = "draft" => s.d \in Soon
  BY <1>2, <1>3 DEF Soon, InBox
<1> HIDE DEF s
<1> QED
  BY <1>1, <1>2, <1>4, CountedBefore

(* A request that writes its row: as a draft only if that was counted before. *)
LEMMA WritesItsRow ==
  ASSUME TypeOK, NEW q \in Requests, NEW row,
         draft' = [draft EXCEPT ![req[q].d] = row],
         row.status = "draft" => Keeps(q),
         NEW r, Becomes(q, r),
         r = Idle \/ (r.at # "inserting" /\ r.held.status # "draft")
  PROVE  Soon' \subseteq Soon
<1>1. ASSUME NEW d \in Drafts, draft'[d].status = "draft"
      PROVE  d \in Soon
  <2>1. CASE d = req[q].d
    BY <1>1, <2>1 DEF TypeOK, Soon
  <2>2. CASE d # req[q].d
    BY <1>1, <2>2 DEF TypeOK, Soon, InBox
  <2> QED
    BY <2>1, <2>2
<1>2. r.at # "inserting" /\ r.held.status # "draft"
  BY DEF Idle, NoDraft
<1> QED
  BY <1>1, <1>2, CountedBefore

(* A create starts when the box is under its quota; whatever the requests     *)
(* under way add, each adds one draft.                                        *)
LEMMA CreateCounts ==
  ASSUME TypeOK, TypeOK', NEW q \in Requests, NEW d \in Drafts, BeginCreate(q, d)
  PROVE  QuotaInv'
<1> DEFINE K == { o \in Requests : Keeps(o)' }
           T == { req'[o].d : o \in K }
           f == [o \in K |-> req'[o].d]
<1>1. IsFiniteSet(K) /\ Cardinality(K) <= Cardinality(Requests)
  BY PublishDraftAssumption, FS_Subset
<1>2. f \in Surjection(K, T)
  BY DEF Surjection
<1>3. IsFiniteSet(T) /\ Cardinality(T) <= Cardinality(K)
  <2> HIDE DEF K, T, f
  <2> QED
    BY <1>1, <1>2, FS_Surjection
<1>4. InBox' = InBox
  BY DEF BeginCreate, store, InBox
<1>5. Soon' = InBox \cup T
  BY <1>4 DEF Soon
<1>6. Cardinality(InBox \cup T) = Cardinality(InBox) + Cardinality(T) - Cardinality(InBox \cap T)
  <2> HIDE DEF K, T, f
  <2> QED
    BY <1>3, SoonIsFinite, FS_Union
<1>7. Cardinality(InBox \cap T) \in Nat /\ Cardinality(T) \in Nat /\ Cardinality(K) \in Nat
  <2> HIDE DEF K, T, f
  <2>1. IsFiniteSet(InBox \cap T)
    BY <1>3, FS_Subset
  <2> QED
    BY <1>1, <1>3, <2>1, FS_CardinalityType
<1>8. Cardinality(InBox) <= MaxPerUser - 1
  BY SoonIsFinite, PublishDraftAssumption DEF BeginCreate, UnderQuota
<1> HIDE DEF K, T, f
<1> QED
  BY <1>1, <1>3, <1>5, <1>6, <1>7, <1>8, SoonIsFinite, PublishDraftAssumption DEF QuotaInv

(* The start of any other request adds nothing to what the box will hold.     *)
LEMMA ArrivingAddsNothing ==
  ASSUME TypeOK, NEW q \in Requests, Arrive(q), \A d \in Drafts : ~BeginCreate(q, d)
  PROVE  Soon' \subseteq Soon
<1>1. \A k \in Kinds, a \in Assets, t \in Steps, o \in Ops :
         [Idle EXCEPT !.op = o, !.kind = k, !.new = a, !.at = t] \in RequestStates
  BY DEF Idle, RequestStates, NoDraft, DraftRows
<1>2. \A k \in Kinds, t \in Steps, o \in Ops :
         [Idle EXCEPT !.op = o, !.at = t, !.kind = k] \in RequestStates
  BY DEF Idle, RequestStates, NoDraft, DraftRows
<1>3. \A t \in Steps, o \in Ops : [Idle EXCEPT !.op = o, !.at = t] \in RequestStates
  BY DEF Idle, RequestStates, NoDraft, DraftRows, Kinds
<1>4. PICK d \in Drafts :
         \/ BeginUpdate(q, d) \/ BeginRemove(q, d)
         \/ \E k \in Kinds, a \in Assets : BeginUpload(q, d, k, a)
         \/ \E p \in Platforms : BeginUncover(q, d, p)
  BY DEF Arrive
<1>5. CASE BeginUpdate(q, d)
  <2> DEFINE r == [Idle EXCEPT !.op = "update", !.at = "updating"]
  <2>1. Find(q, d, r) /\ UNCHANGED draft
    BY <1>5 DEF BeginUpdate, store
  <2>2. r \in RequestStates
    BY <1>3 DEF Steps, Ops
  <2>3. r.at # "inserting"
    BY DEF Idle
  <2> HIDE DEF r
  <2> QED
    BY <2>1, <2>2, <2>3, FindsInBox
<1>6. CASE BeginRemove(q, d)
  <2> DEFINE r == [Idle EXCEPT !.op = "remove", !.at = "listing"]
  <2>1. Find(q, d, r) /\ UNCHANGED draft
    BY <1>6 DEF BeginRemove, store
  <2>2. r \in RequestStates
    BY <1>3 DEF Steps, Ops
  <2>3. r.at # "inserting"
    BY DEF Idle
  <2> HIDE DEF r
  <2> QED
    BY <2>1, <2>2, <2>3, FindsInBox
<1>7. CASE \E k \in Kinds, a \in Assets : BeginUpload(q, d, k, a)
  <2>1. PICK k \in Kinds, a \in Assets : BeginUpload(q, d, k, a)
    BY <1>7
  <2> DEFINE t == IF k = "video" THEN "recording" ELSE "seeking"
             r == [Idle EXCEPT !.op = "upload", !.kind = k, !.new = a, !.at = t]
  <2>2. Find(q, d, r) /\ UNCHANGED draft
    BY <2>1 DEF BeginUpload
  <2>3. t \in Steps /\ t # "inserting"
    BY DEF Steps
  <2> HIDE DEF t
  <2>4. r \in RequestStates
    <3>1. "upload" \in Ops
      BY DEF Ops
    <3> QED
      BY <1>1, <2>3, <3>1, Zenon
  <2>5. r.at # "inserting"
    BY <2>3 DEF Idle
  <2> HIDE DEF r
  <2> QED
    BY <2>2, <2>4, <2>5, FindsInBox
<1>8. CASE \E p \in Platforms : BeginUncover(q, d, p)
  <2>1. PICK p \in Platforms : BeginUncover(q, d, p)
    BY <1>8
  <2> DEFINE r == [Idle EXCEPT !.op = "uncover", !.at = "seeking", !.kind = p]
  <2>2. Find(q, d, r) /\ UNCHANGED draft
    BY <2>1 DEF BeginUncover, store
  <2>3. r \in RequestStates
    <3>1. "uncover" \in Ops /\ "seeking" \in Steps /\ p \in Kinds
      BY DEF Ops, Steps, Kinds
    <3> QED
      BY <1>2, <3>1, Zenon
  <2>4. r.at # "inserting"
    BY DEF Idle
  <2> HIDE DEF r
  <2> QED
    BY <2>2, <2>3, <2>4, FindsInBox
<1> QED
  BY <1>4, <1>5, <1>6, <1>7, <1>8

(* The steps of a request that write no row move it on or end it.             *)
LEMMA OtherwiseMovesOn ==
  ASSUME TypeOK, NEW q \in Requests,
         \/ ListAssets(q) \/ UnlinkListed(q) \/ SeekCover(q) \/ RecordAsset(q)
         \/ RetireFile(q) \/ ForgetAsset(q) \/ NothingToPoint(q) \/ LookForOld(q)
         \/ RecordFails(q) \/ ReplaceFails(q) \/ RequestDies(q)
  PROVE  Soon' \subseteq Soon
<1>1. UNCHANGED draft
  <2>1. CASE ListAssets(q) \/ SeekCover(q) \/ NothingToPoint(q) \/ LookForOld(q) \/ RequestDies(q)
    <3>1. CASE ListAssets(q) \/ NothingToPoint(q)
      BY <3>1 DEF ListAssets, NothingToPoint, store
    <3>2. CASE SeekCover(q)
      <4>1. UNCHANGED <<store, used, history>>
        BY <3>2, Zenon DEF SeekCover
      <4> QED
        BY <4>1 DEF store
    <3>3. CASE LookForOld(q) \/ RequestDies(q)
      BY <3>3 DEF LookForOld, RequestDies, store
    <3> QED
      BY <2>1, <3>1, <3>2, <3>3
  <2>2. CASE UnlinkListed(q) \/ RecordAsset(q)
    BY <2>2 DEF UnlinkListed, RecordAsset
  <2>3. CASE RetireFile(q) \/ ForgetAsset(q)
    BY <2>3 DEF RetireFile, ForgetAsset
  <2>4. CASE RecordFails(q) \/ ReplaceFails(q)
    BY <2>4 DEF RecordFails, ReplaceFails
  <2> QED
    BY <2>1, <2>2, <2>3, <2>4
<1>2. req[q] \in RequestStates
  BY DEF TypeOK
<1> DEFINE Next1(r) == r = Idle \/ (r.at # "inserting" /\ r.d = req[q].d /\ r.held = req[q].held)
<1>3. \A t \in Steps : Moves(q, t) /\ t # "inserting" => \E r : Becomes(q, r) /\ Next1(r)
  BY <1>2 DEF Moves, RequestStates
<1>4. Ends(q) => \E r : Becomes(q, r) /\ Next1(r)
  BY DEF Ends
<1>5. \A t, old : t # "inserting" => Next1([req[q] EXCEPT !.at = t, !.old = old])
  BY <1>2 DEF RequestStates
<1>6. \A old : ~At(q, "inserting") => Next1([req[q] EXCEPT !.old = old])
  BY <1>2 DEF RequestStates, At
<1> HIDE DEF Next1
<1>7. \E r : Becomes(q, r) /\ Next1(r)
  <2>1. CASE ListAssets(q)
    <3>1. Becomes(q, [req[q] EXCEPT !.at = "removing", !.old = Listed(req[q].d)])
      BY <2>1 DEF ListAssets
    <3>2. "removing" # "inserting"
      OBVIOUS
    <3>3. Next1([req[q] EXCEPT !.at = "removing", !.old = Listed(req[q].d)])
      BY <3>2, <1>5, Zenon
    <3> QED
      BY <3>1, <3>3, Zenon
  <2>2. CASE UnlinkListed(q)
    <3>1. CASE Ends(q)
      BY <3>1, <1>4
    <3>2. CASE ~Ends(q)
      <4>1. PICK a \in req[q].old : Becomes(q, [req[q] EXCEPT !.old = @ \ {a}])
        BY <2>2, <3>2 DEF UnlinkListed
      <4>2. Becomes(q, [req[q] EXCEPT !.old = req[q].old \ {a}])
        BY <4>1
      <4>3. ~At(q, "inserting")
        BY <2>2 DEF UnlinkListed, At
      <4> QED
        BY <4>2, <4>3, <1>6
    <3> QED
      BY <3>1, <3>2
  <2>3. CASE SeekCover(q)
    <3> DEFINE t == IF req[q].op = "upload" THEN "recording" ELSE "pointing"
               u == IF req[q].op = "upload" THEN "recording" ELSE "retiring"
    <3>1. t \in Steps /\ t # "inserting" /\ u # "inserting"
      BY DEF Steps
    <3>2. CASE Moves(q, t)
      <4> HIDE DEF t, u
      <4> QED
        BY <3>1, <3>2, <1>3
    <3>3. CASE ~Moves(q, t)
      <4>1. PICK a \in Covers(req[q].d, req[q].kind) :
               Becomes(q, [req[q] EXCEPT !.at = u, !.old = {a}])
        BY <2>3, <3>3, Zenon DEF SeekCover
      <4> HIDE DEF t, u
      <4>2. Next1([req[q] EXCEPT !.at = u, !.old = {a}])
        BY <3>1, <1>5, Zenon
      <4> QED
        BY <4>1, <4>2, Zenon
    <3> QED
      BY <3>2, <3>3
  <2>4. CASE RecordAsset(q)
    BY <2>4, <1>3 DEF RecordAsset, AfterRecord, Steps
  <2>5. CASE RetireFile(q)
    BY <2>5, <1>3 DEF RetireFile, Steps
  <2>6. CASE ForgetAsset(q)
    BY <2>6, <1>3, <1>4 DEF ForgetAsset, Steps
  <2>7. CASE NothingToPoint(q)
    BY <2>7, <1>4 DEF NothingToPoint
  <2>8. CASE LookForOld(q)
    BY <2>8, <1>3, <1>4 DEF LookForOld, Steps
  <2>9. CASE RecordFails(q) \/ ReplaceFails(q) \/ RequestDies(q)
    BY <2>9, <1>4 DEF RecordFails, ReplaceFails, RequestDies, Breaks
  <2> QED
    BY <2>1, <2>2, <2>3, <2>4, <2>5, <2>6, <2>7, <2>8, <2>9
<1> QED
  BY <1>1, <1>7, MovesOn DEF Next1

(* A row is written as a draft by a request that inserts it or found it so.   *)
LEMMA SavesWhatItFound ==
  ASSUME TypeOK, NEW q \in Requests, InsertDraft(q) \/ SaveUpdate(q) \/ PointDraft(q)
  PROVE  Soon' \subseteq Soon
<1>1. req[q].held \in DraftRows
  BY DEF TypeOK, RequestStates
<1>2. CASE InsertDraft(q)
  BY <1>2, WritesItsRow DEF InsertDraft, Ends, Keeps
<1>3. CASE SaveUpdate(q)
  BY <1>3, WritesItsRow DEF SaveUpdate, SaveDraft, Updated, Ends, Keeps
<1>4. CASE PointDraft(q)
  <2>1. Pointed(req[q]).status = "draft" => Keeps(q)
    BY <1>1 DEF Pointed, DraftRows, Keeps
  <2>2. draft' = [draft EXCEPT ![req[q].d] = Pointed(req[q])]
    BY <1>4 DEF PointDraft, SaveDraft
  <2>3. \A e, old : LET r == [Idle EXCEPT !.op = "upload", !.at = "looking", !.d = e, !.old = old]
                    IN  r.at # "inserting" /\ r.held.status # "draft"
    BY DEF Idle, NoDraft
  <2>4. \E r : Becomes(q, r) /\ (r = Idle \/ (r.at # "inserting" /\ r.held.status # "draft"))
    <3>1. CASE Ends(q)
      BY <3>1 DEF Ends
    <3>2. CASE ~Ends(q)
      BY <3>2, <1>4, <2>3 DEF PointDraft
    <3> QED
      BY <3>1, <3>2
  <2> QED
    BY <2>1, <2>2, <2>4, WritesItsRow
<1> QED
  BY <1>2, <1>3, <1>4

(* Every step keeps the bound on what the box will soon hold.                 *)
LEMMA QuotaStep == DraftInv /\ DraftInv' /\ QuotaInv /\ [Next]_vars => QuotaInv'
<1> SUFFICES ASSUME DraftInv, DraftInv', QuotaInv, [Next]_vars
             PROVE  QuotaInv'
  OBVIOUS
<1>1. TypeOK /\ TypeOK'
  BY DEF DraftInv
<1>2. ASSUME NEW q \in Requests, Arrive(q)
      PROVE  QuotaInv'
  <2>1. CASE \E d \in Drafts : BeginCreate(q, d)
    BY <1>1, <2>1, CreateCounts
  <2>2. CASE \A d \in Drafts : ~BeginCreate(q, d)
    BY <1>1, <1>2, <2>2, ArrivingAddsNothing, NothingSooner
  <2> QED
    BY <2>1, <2>2
<1>3. ASSUME NEW q \in Requests,
             Serve(q) \/ RecordFails(q) \/ ReplaceFails(q) \/ RequestDies(q)
      PROVE  QuotaInv'
  <2>1. CASE InsertDraft(q) \/ SaveUpdate(q) \/ PointDraft(q)
    BY <1>1, <2>1, SavesWhatItFound, NothingSooner
  <2>2. CASE RemoveDraft(q)
    <3>1. \A d \in Drafts : draft'[d].status = "draft" => d \in Soon
      BY <1>1, <2>2 DEF RemoveDraft, NoDraft, TypeOK, Soon, InBox
    <3> DEFINE r == [req[q] EXCEPT !.at = "unlinking"]
    <3>2. Becomes(q, r)
      BY <2>2 DEF RemoveDraft, Moves
    <3>3. r.at # "inserting" /\ r.d = req[q].d /\ r.held = req[q].held
      BY <1>1 DEF TypeOK, RequestStates
    <3> HIDE DEF r
    <3>4. r.held.status = "draft" => r.d \in Soon
      BY <3>3 DEF Soon, Keeps
    <3> QED
      BY <1>1, <3>1, <3>2, <3>3, <3>4, CountedBefore, NothingSooner
  <2>3. CASE ~(InsertDraft(q) \/ SaveUpdate(q) \/ PointDraft(q) \/ RemoveDraft(q))
    BY <1>1, <1>3, <2>3, OtherwiseMovesOn, NothingSooner DEF Serve
  <2> QED
    BY <2>1, <2>2, <2>3
<1>4. ASSUME NEW d \in Drafts, Publish(d)
      PROVE  QuotaInv'
  <2>1. InBox' \subseteq InBox
    BY <1>1, <1>4 DEF Publish, TypeOK, DraftRows, InBox
  <2>2. Soon' \subseteq Soon
    BY <1>4, <2>1 DEF Publish, Soon, Keeps, At
  <2> QED
    BY <1>1, <2>2, NothingSooner
<1>5. CASE UNCHANGED vars
  <2>1. Soon' = Soon
    BY <1>5 DEF vars, Soon, InBox, Keeps, At
  <2> QED
    BY <1>1, <2>1, NothingSooner
<1> QED
  BY <1>2, <1>3, <1>4, <1>5 DEF Next

(* However the requests overlap, the draft box holds more than its quota by   *)
(* at most the requests served at a time, less one: assertDraftQuota counts   *)
(* before the INSERT, and a save brings back only a draft counted before.     *)
THEOREM QuotaBounded == Spec => []QuotaOvershoot
<1>1. Init => QuotaInv
  <2> SUFFICES ASSUME Init
               PROVE  QuotaInv
    OBVIOUS
  <2>1. Soon = {}
    BY DEF Init, NoDraft, Idle, Soon, InBox, Keeps, At
  <2>2. Cardinality(Requests) \in Nat
    BY PublishDraftAssumption, FS_CardinalityType
  <2> QED
    BY <2>1, <2>2, FS_EmptySet, PublishDraftAssumption DEF QuotaInv
<1>2. DraftInv /\ QuotaInv => QuotaOvershoot
  <2> SUFFICES ASSUME TypeOK, QuotaInv
               PROVE  QuotaOvershoot
    BY DEF DraftInv
  <2> QED
    BY SoonIsFinite, PublishDraftAssumption DEF QuotaInv, QuotaOvershoot
<1> QED
  BY <1>1, <1>2, QuotaStep, DraftInvariance, PTL DEF Spec
===============================================================================
