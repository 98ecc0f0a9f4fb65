---------------------------- MODULE PublishInputs ----------------------------
(* The payload of a publish draft: what the endpoints refuse, what they store *)
(* of what they accept, and what the mapper makes of it.                      *)
(* Operators only: ApiInputs sends payloads to them.  A client id is its text *)
(* and whether blanks surround it; of other texts only the class is kept.     *)
EXTENDS Integers, FiniteSets, Sequences, SequencesExt, Filtering

PlatformIds == {"douyin", "kuaishou"}

(* ------------------------------- validation ------------------------------ *)

(* The DTO classes: titles of 80, ten topics, nine tags, fifty items, and for *)
(* the overrides only that they are an object: their own class is never used. *)
TextFits(text) == text \in {"blank", "fits"}
PartValid(part) == TextFits(part.title) /\ part.listsFit

PayloadValid(payload) ==
    /\ PartValid(payload)
    /\ ~payload.over
    /\ \A i \in DOMAIN payload.items : PartValid(payload.items[i])

(* validateSchedule: a schedule that is shown is a date to come.              *)
ScheduleFits(part) == part.showSchedule => part.scheduleAt = "future"

(* validatePlatformOverrides, one entry: a null one passes, and title.length  *)
(* of a customised one is read whether it has a title or not.                 *)
OverrideAnswer(override) ==
    LET known == override.platform \in PlatformIds
        read == override.given /\ override.customized
    IN  CASE ~known \/ (read /\ override.title = "long") -> "refused"
          [] known /\ read /\ override.title = "none" -> "broken"
          [] OTHER -> "ok"

AnswerIf(fits) == IF fits THEN "ok" ELSE "refused"

PartAnswers(part) ==
    << AnswerIf(ScheduleFits(part)) >>
        \o [i \in DOMAIN part.overrides |-> OverrideAnswer(part.overrides[i])]

(* The client ids are compared as they came.                                  *)
ClientIdFits(items, i) ==
    /\ items[i].clientId.text # ""
    /\ \A j \in 1 .. i - 1 : items[j].clientId # items[i].clientId

(* validatePayload makes its checks in this order; the first fault answers.   *)
Checks(payload) ==
    PartAnswers(payload) \o FlattenSeq(
        [i \in DOMAIN payload.items |->
            << AnswerIf(ClientIdFits(payload.items, i)) >> \o PartAnswers(payload.items[i])])
ValidatePayload(payload) ==
    LET answers == Checks(payload)
        faults == {i \in DOMAIN answers : answers[i] # "ok"}
    IN  IF faults = {} THEN "ok" ELSE answers[Min(faults)]

(* ------------------------------ normalisation ---------------------------- *)

Trimmed(id) == [text |-> id.text, padded |-> FALSE]

(* normalizeVideoLocalPath: blank is none, and control characters are refused.*)
PathRefused(path) == path = "control"
NormalPath(path) == IF path = "blank" THEN "none" ELSE path

(* [...new Set(accountIds ?? [])]: the first of each, in their order.         *)
Distinct(ids) ==
    Filtered(ids, {i \in DOMAIN ids : \A j \in 1 .. i - 1 : ids[j] # ids[i]})

Given(overrides) == Filtered(overrides, {i \in DOMAIN overrides : overrides[i].given})

(* Mutant: the override is built anew and its title forgotten.                *)
UntitledOverrides(overrides) ==
    LET kept == Given(overrides)
    IN  [i \in DOMAIN kept |-> [kept[i] EXCEPT !.title = "none"]]

(* normalizePlatformOverrides drops the null ones and gives each its cart.    *)
NormalOverrides(overrides) ==
    LET kept == Given(overrides)
    IN  [i \in DOMAIN kept |-> [kept[i] EXCEPT !.cart = IF @ = "none" THEN "empty" ELSE @]]

NormalItem(item) ==
    [item EXCEPT !.clientId = Trimmed(@), !.path = NormalPath(@),
                 !.overrides = NormalOverrides(@), !.accounts = Distinct(@)]

NormalPayload(payload) ==
    [payload EXCEPT !.overrides = NormalOverrides(@), !.accounts = Distinct(@),
                    !.items = [i \in DOMAIN @ |-> NormalItem(@[i])]]

(* ------------------------------ the service ------------------------------ *)

(* collectAccountIds of the normalised payload.                               *)
CollectAccountIds(payload) ==
    Distinct(payload.accounts \o FlattenSeq([i \in DOMAIN payload.items |-> payload.items[i].accounts]))

(* validateAccountIds: each is the user's own and bound.                      *)
AccountsBound(ids, bound) == ToSet(ids) \subseteq bound

(* What a create or an update answers to the payload.                         *)
SaveAnswer(payload, bound) ==
    IF ~PayloadValid(payload) THEN "refused"
    ELSE IF ValidatePayload(payload) # "ok" THEN ValidatePayload(payload)
    ELSE IF \/ \E i \in DOMAIN payload.items : PathRefused(payload.items[i].path)
            \/ ~AccountsBound(CollectAccountIds(NormalPayload(payload)), bound)
         THEN "refused" ELSE "saved"
==============================================================================
