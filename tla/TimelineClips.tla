--------------------------- MODULE TimelineClips ---------------------------
(***************************************************************************)
(* The clips of a timeline as sets of records, and what the editor's       *)
(* operations do to them: resolveOverlaps of video-editor-utils.ts, the    *)
(* clip builders, the split and the take arithmetic of editor-actions.ts.  *)
(*                                                                         *)
(* A clip shows, at time t of its track, a second of one take of its       *)
(* asset, forwards from trimStart or, reversed, backwards from trimEnd.    *)
(* Times count units of half a second, the shortest clip a trim leaves and *)
(* more than every tolerance of the code.                                  *)
(* An id is a sequence: <<now>> for what a handler makes from nothing, and *)
(* id \o <<now>> for a copy or a half of clip id, each handler having a now *)
(* of its own.  Effects, transitions and the audio level are left out.     *)
(***************************************************************************)
EXTENDS Integers, Sequences, FiniteSets, SequencesExt

CONSTANT None

Forever == 1000     \* an image or a sound has no longest duration

Least(m, n)   == IF m < n THEN m ELSE n
Largest(m, n) == IF m > n THEN m ELSE n

End(c) == c.start + c.dur

Ids(cs) == {c.id : c \in cs}

\* The clips of a timeline with an id; the code takes the first of an array.
WithId(cs, id) == {c \in cs : c.id = id}
ClipOf(cs, id) == CHOOSE c \in cs : c.id = id

OnTrack(cs, track) == {c \in cs : c.track = track}

Copy(c, now) == [c EXCEPT !.id = Append(@, now)]

Overlap(c, d) == c.track = d.track /\ c.start < End(d) /\ d.start < End(c)

-----------------------------------------------------------------------------
(* What is shown *)

\* The take of an asset a clip shows: its own, clamped, or the active one.
TakeShown(asset, c) ==
    IF c.take = None THEN asset.active ELSE Least(c.take, Len(asset.takes))

\* The path a clip shows: live from its asset; a text clip has none.
PathOf(assets, c) ==
    IF c.asset \in DOMAIN assets
    THEN assets[c.asset].takes[TakeShown(assets[c.asset], c)]
    ELSE None

\* The second of its media a clip shows, which a reversed clip counts from the
\* end of the media back; the clamp to the media is left out.
Second(assets, c, t) ==
    LET length == IF c.asset \in DOMAIN assets THEN assets[c.asset].dur ELSE 0
    IN  IF c.reversed THEN length - c.trimEnd - (t - c.start) * c.speed
        ELSE c.trimStart + (t - c.start) * c.speed

\* The clips of a track a time falls in.
At(cs, track, t) == {c \in OnTrack(cs, track) : c.start <= t /\ t < End(c)}

\* What the clips of a track show at a time: the path and the second in it.
Shown(assets, cs, track, t) ==
    {<<c.kind, PathOf(assets, c), Second(assets, c, t)>> : c \in At(cs, track, t)}

-----------------------------------------------------------------------------
(* Overwriting *)

\* Mutated: the tail begins at the second the clip does.
TailFromStart(c, e) == [c EXCEPT !.start = e, !.dur = End(c) - e]

\* What a clip shows from a time on, and up to a time.  A tail moves trimStart,
\* and trimEnd stays: it shows what the clip did if that is not reversed.
From(c, e) ==
    [c EXCEPT !.start = e, !.dur = End(c) - e,
              !.trimStart = c.trimStart + (e - c.start) * c.speed]

UpTo(c, s) == [c EXCEPT !.dur = s - c.start]

\* What is left of clip c under the clip m that is put on its track: what is
\* before m and what is after it; a tail beside a head is a clip of its own.
Cut(c, m, now) ==
    LET tail == IF c.start < m.start THEN Copy(c, now) ELSE c
    IN  IF ~Overlap(c, m) THEN {c}
        ELSE (IF c.start < m.start THEN {UpTo(c, m.start)} ELSE {})
             \cup (IF End(m) < End(c) THEN {From(tail, End(m))} ELSE {})

\* Every moved clip, in order, cuts what it is put on; moved clips stay whole.
ResolveOverlaps(cs, moved, now) ==
    LET Under(left, id) ==
          IF id \notin Ids(left) THEN left
          ELSE UNION {IF c.id \in ToSet(moved) THEN {c} ELSE Cut(c, ClipOf(left, id), now) :
                        c \in left}
    IN  FoldLeft(Under, cs, moved)

-----------------------------------------------------------------------------
(* New clips *)

ClipFields == {"id", "kind", "asset", "track", "start", "dur", "trimStart", "trimEnd",
               "speed", "reversed", "take", "linked"}

NewClip(id, kind, asset, track, start, dur, linked) ==
    [id |-> id, kind |-> kind, asset |-> asset, track |-> track, start |-> start,
     dur |-> dur, trimStart |-> 0, trimEnd |-> 0, speed |-> 1, reversed |-> FALSE,
     take |-> None, linked |-> linked]

Shift(c, by) == [c EXCEPT !.start = @ + by]

\* The clips but those with an id of ids, which leave the links of the others.
Without(cs, ids) ==
    {[c EXCEPT !.linked = @ \ ids] : c \in {d \in cs : d.id \notin ids}}

\* The ids and those that links lead to (expandWithLinkedClips).
Group(cs, ids) ==
    LET Wider(found, i) ==
          found \cup (UNION {c.linked : c \in {d \in cs : d.id \in found}} \cap Ids(cs))
    IN  FoldLeft(Wider, ids, [i \in 1..Cardinality(cs) |-> i])

\* The longest a clip can be (selectClipMaxDuration).
MaxDur(assets, c) ==
    IF c.kind # "video" \/ c.asset \notin DOMAIN assets THEN Forever
    ELSE Largest(1, (assets[c.asset].dur - c.trimStart - c.trimEnd) \div c.speed)

-----------------------------------------------------------------------------
(* Splitting *)

Splits(c, time) == c.start < time /\ time < End(c)

\* The halves of a clip; the trim takes no account of the speed, nor of a clip
\* that is reversed.
FirstHalf(c, time, linked) ==
    [c EXCEPT !.dur = time - c.start, !.trimEnd = @ + (End(c) - time), !.linked = linked]

\* Mutated: the second half begins at the second the first one does.
UntrimmedHalf(c, time, now, linked) ==
    [Copy(c, now) EXCEPT !.start = time, !.dur = End(c) - time, !.linked = linked]

SecondHalf(c, time, now, linked) ==
    [Copy(c, now) EXCEPT !.start = time, !.dur = End(c) - time,
                         !.trimStart = @ + (time - c.start), !.linked = linked]

\* A clip and the clips linked to it that the time falls in are split at once;
\* a linked clip the time misses stays with the first half.
SplitGroup(cs, c, time, now) ==
    LET group == {d \in cs : d.id \in c.linked}
        both  == {d \in group : Splits(d, time)}
        New(d) == Append(d.id, now)
    IN  (cs \ ({c} \cup both))
        \cup {FirstHalf(c, time, Ids(group)), SecondHalf(c, time, now, {New(d) : d \in both})}
        \cup {FirstHalf(d, time, {c.id}) : d \in both}
        \cup {SecondHalf(d, time, now, {New(c)}) : d \in both}

\* The clips of a batch, one after the other, but those a link split already.
SplitEach(cs, batch, time, now) ==
    LET Step(s, id) ==
          LET c == ClipOf(s.cs, id)
          IN  IF id \in s.done THEN s
              ELSE [cs |-> SplitGroup(s.cs, c, time, now), done |-> s.done \cup {id} \cup c.linked]
    IN  FoldLeft(Step, [cs |-> cs, done |-> {}], batch).cs
=============================================================================
