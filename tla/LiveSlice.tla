------------------------------ MODULE LiveSlice ------------------------------
(* The clips that the worker cuts from the record of a live stream: which     *)
(* stretches of the transcript are highlights, where each clip begins and     *)
(* ends, and the cues of its subtitle.  Operators only: ApiInputs sends       *)
(* recordings to them.  Times are whole seconds; what ASR, scene detection    *)
(* and the language model answer are inputs.  A segment of the transcript     *)
(* has the keywords it contains, and whether it says anything.                *)
EXTENDS Integers, FiniteSets, Sequences, Filtering

Tolerance == 2
Sooner(a, b) == IF a < b THEN a ELSE b
Apart(a, b) == IF a < b THEN b - a ELSE a - b

(* ------------------------------- highlights ------------------------------ *)

(* flush_window: too short a window is dropped, too long a one is cut.        *)
Flushed(segs, from, to, lo, hi) ==
    LET start == segs[from].start  end == segs[to].end
    IN  IF end - start < lo THEN << >>
        ELSE << [start |-> start, end |-> Sooner(end, start + hi),
                 score |-> Cardinality(UNION {segs[k].keywords : k \in from .. to})] >>

(* The window grows until it has a keyword and the length of a clip, and the  *)
(* next segment opens another; what is left at the end is flushed too.        *)
RuleBased(segs, lo, hi) ==
    LET Keyword(from, n) == \E k \in from .. n : segs[k].keywords # {}
        after[n \in 0 .. Len(segs)] ==
            IF n = 0 THEN [from |-> 1, found |-> << >>]
            ELSE LET p == after[n - 1]
                 IN  IF Keyword(p.from, n) /\ segs[n].end - segs[p.from].start >= lo
                     THEN [from |-> n + 1, found |-> p.found \o Flushed(segs, p.from, n, lo, hi)]
                     ELSE p
        last == after[Len(segs)]
    IN  IF last.from > Len(segs) THEN last.found
        ELSE last.found \o Flushed(segs, last.from, Len(segs), lo, hi)

(* The clips that the model proposed, those of another length left out.       *)
Wanted(clips, lo, hi) ==
    LET Fits(h) == h.end - h.start >= lo /\ 5 * (h.end - h.start) <= 6 * hi
    IN  Filtered(clips, {i \in DOMAIN clips : Fits(clips[i])})

(* Best first; sort() leaves equal scores in their order.                     *)
ByScore(hs) ==
    LET Before(i, j) == hs[i].score > hs[j].score \/ (hs[i].score = hs[j].score /\ i < j)
        Rank(j) == 1 + Cardinality({i \in DOMAIN hs : Before(i, j)})
    IN  [k \in DOMAIN hs |-> hs[CHOOSE j \in DOMAIN hs : Rank(j) = k]]

(* analyze_highlights: without a model, or without a fitting answer of it,    *)
(* the rules decide.                                                          *)
Highlights(rec) ==
    LET proposed == IF rec.model = "none" THEN << >> ELSE Wanted(rec.proposal, rec.lo, rec.hi)
        found == IF proposed = << >> THEN RuleBased(rec.segments, rec.lo, rec.hi) ELSE proposed
    IN  SubSeq(ByScore(found), 1, Sooner(rec.maxClips, Len(found)))

(* --------------------------------- clips --------------------------------- *)

(* snap_to_scene: the nearest boundary, the earlier of two, if one is near.   *)
Snapped(value, boundaries) ==
    LET near == {b \in boundaries : Apart(b, value) <= Tolerance}
    IN  IF near = {} THEN value
        ELSE CHOOSE b \in near :
                 \A c \in near : Apart(b, value) < Apart(c, value)
                                 \/ (Apart(b, value) = Apart(c, value) /\ b <= c)

(* Mutant: a short clip is prolonged past the end of the video.               *)
PastTheEnd(start, lo, source) == start + lo

Prolonged(start, lo, source) == Sooner(start + lo, source)

ClipOf(h, rec) ==
    LET start == Snapped(h.start, rec.boundaries)
        snapped == Snapped(h.end, rec.boundaries)
        after == IF snapped <= start THEN h.end ELSE snapped
        long == IF after - start < rec.lo THEN Prolonged(start, rec.lo, rec.source) ELSE after
    IN  [start |-> start, end |-> IF long - start > rec.hi THEN start + rec.hi ELSE long]

(* _write_clip_subtitle: what is said during the clip, in seconds of the clip.*)
Heard(seg, clip) == seg.spoken /\ seg.end > clip.start /\ seg.start < clip.end
CueOf(seg, clip) ==
    [from |-> IF seg.start > clip.start THEN seg.start - clip.start ELSE 0,
     to |-> Sooner(seg.end, clip.end) - clip.start]
Cues(clip, segs) ==
    LET heard == Filtered(segs, {i \in DOMAIN segs : Heard(segs[i], clip)})
    IN  [k \in DOMAIN heard |-> CueOf(heard[k], clip)]
==============================================================================
