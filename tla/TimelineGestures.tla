-------------------------- MODULE TimelineGestures --------------------------
(***************************************************************************)
(* What the mouse does to the timeline (useTimelineDrag.ts), and the whole *)
(* editor.  A gesture remembers what it began with: a drag shows a preview *)
(* and is committed when the button comes up; a trim, a slip and a slide   *)
(* commit every move of the mouse, each from the remembered clip, but for  *)
(* the linked and the rippled clips, which move on from where they are.    *)
(* Undo and the keyboard stay available meanwhile.  Snapping is left out:  *)
(* it chooses among the same positions.                                    *)
(***************************************************************************)
EXTENDS TimelineEditor

CONSTANTS
    Moves,      \* how far the mouse may move, in units of time
    RowMoves,   \* and in tracks
    TextDur     \* how long a text, a cue or an imported clip is

ASSUME MouseAssumption == Moves \subseteq Int /\ TextDur \in Int

CommitMove(tool, cs) ==
    /\ Edit(tool, <<WithClips(cs)>>)
    /\ UNCHANGED <<active, clipboard>>

-----------------------------------------------------------------------------
(* Dragging *)

\* The clips a press takes hold of: with alt the clip alone, else with its
\* links, with shift another clip too, with trackForward all that follows.
Held(c) ==
    {{c.id}, Group(clips, {d.id : d \in {x \in clips : x.start >= c.start}})}
    \cup {Group(clips, {c.id, d.id}) : d \in clips}

\* The tracks of a kind, from the first video track and the first audio track
\* on; linked clips of the other kind mirror the drag around the divider.
Rows(kind) == SelectSeq([i \in DOMAIN tracks |-> i], LAMBDA i : tracks[i].kind = kind)

Moved(track, by) ==
    LET rows == Rows(tracks[track].kind)
        row  == CHOOSE r \in DOMAIN rows : rows[r] = track
        to   == rows[Largest(1, Least(Len(rows), row + by))]
    IN  IF track \notin DOMAIN tracks \/ tracks[track].kind = "subtitle" THEN track
        ELSE IF tracks[to].locked THEN track ELSE to

\* Where clips are shown while the mouse is by and rows from where it went
\* down: none before time 0, and none onto a locked track.
Preview(holds, by, rows) ==
    LET shift == Largest(by, -Min({d.start : d \in holds})) IN
    [id \in Ids(holds) |-> LET d == ClipOf(holds, id) IN
       [start |-> d.start + shift, track |-> Moved(d.track, rows)]]

Grab(c, held, by, rows) ==
    /\ "gesture" \in tools /\ gesture = None /\ ~Locked(c)
    /\ gesture' = [tool |-> "drag",
                   to |-> Preview({d \in clips : d.id \in held}, by, rows)]
    /\ UNCHANGED <<doc, active, history, clipboard, counts>>

\* With alt the first move makes copies, links included, and these are dragged.
GrabCopies(c, held, by, rows) ==
    LET copies == {Copy(d, Now) : d \in {x \in clips : x.id \in held}} IN
    /\ gesture = None /\ ~Locked(c)
    /\ Edit("copies", <<WithClips(clips \cup copies)>>)
    /\ gesture' = [tool |-> "drag", to |-> Preview(copies, by, rows)]
    /\ UNCHANGED <<active, clipboard>>

Placed(c) ==
    IF c.id \in DOMAIN gesture.to
    THEN [c EXCEPT !.start = gesture.to[c.id].start, !.track = gesture.to[c.id].track]
    ELSE c

\* The button comes up: what is still there is put where the preview showed
\* it and cuts what it is put on, as one step of the history.
Drop ==
    /\ gesture # None /\ gesture.tool = "drag" /\ Open
    /\ \E order \in SetToSeqs(DOMAIN gesture.to) :
         CommitMove("drag", ResolveOverlaps(Mapped(Placed), order, Now))
    /\ gesture' = None

-----------------------------------------------------------------------------
(* Trimming *)

Trims == {"select", "ripple", "roll"}

\* The clip a roll trim shares its edge with.
Adjacent(c, edge) ==
    {d \in OnTrack(clips, c.track) :
       d.id # c.id /\ IF edge = "right" THEN d.start = End(c) ELSE End(d) = c.start}

StartTrim(c, edge, tool) ==
    /\ "gesture" \in tools /\ gesture = None /\ ~Locked(c)
    /\ \E other \in IF tool = "roll" /\ Adjacent(c, edge) # {} THEN Adjacent(c, edge) ELSE {None} :
         gesture' = [tool |-> tool, edge |-> edge, base |-> c, other |-> other]
    /\ UNCHANGED <<doc, active, history, clipboard, counts>>

\* The left edge of a clip moved: it stops at time 0 and a unit from the end.
LeftEdge(b, by) == Largest(0, Least(b.start + by, End(b) - 1))

\* The clip trimmed on the left to start s.  Its linked clips take its place
\* and length, and their trim moves on from where the last move left it.
TrimmedLeft(c, b, s) ==
    LET trim == Largest(0, b.trimStart + (s - b.start))
        dur  == Least(End(b) - s, MaxDur(assets, [c EXCEPT !.trimStart = trim]))
    IN  [c EXCEPT !.start = s, !.dur = Largest(1, dur), !.trimStart = trim]

LinkedLeft(d, c, by) ==
    [d EXCEPT !.start = c.start, !.dur = c.dur, !.trimStart = Largest(0, @ + by)]

\* What a move of the mouse makes of the clips, c being the one that is held:
\* Grown for it, Along for those linked to it, Rest for the others.
Trimmed(c, Along(_), Rest(_), grown) ==
    Mapped(LAMBDA d : IF d.id = c.id THEN grown
                      ELSE IF d.id \in c.linked THEN Along(d) ELSE Rest(d))

TrimLeft(c, b, by) ==
    LET s == LeftEdge(b, by)
        grown == TrimmedLeft(c, b, s)
        Rest(d) == IF gesture.tool = "ripple" /\ d.track = c.track /\ d.start < b.start
                   THEN [d EXCEPT !.start = Largest(0, @ + (s - b.start))] ELSE d
    IN  Trimmed(c, LAMBDA d : LinkedLeft(d, grown, s - b.start), Rest, grown)

TrimRight(c, b, by) ==
    LET dur == Largest(1, Least(Largest(1, b.dur + by), MaxDur(assets, c)))
        Along(d) == [d EXCEPT !.dur = dur]
        Rest(d) == IF gesture.tool = "ripple" /\ d.track = c.track /\ d.start >= End(b)
                   THEN [d EXCEPT !.start = Largest(0, @ + (dur - b.dur))] ELSE d
    IN  Trimmed(c, Along, Rest, Along(c))

\* Roll: the edge two clips share moves, and with it those of linked clips.
RollRight(c, b, o, by) ==
    LET most == Least(MaxDur(assets, c) - b.dur, o.dur - 1)
        dt   == Largest(1 - b.dur, Least(most, by))
        Longer(d) == [d EXCEPT !.dur = Largest(1, b.dur + dt)]
        Later(d, trim) == [d EXCEPT !.start = o.start + dt, !.dur = Largest(1, o.dur - dt),
                                    !.trimStart = Largest(0, trim + dt * d.speed)]
        Rest(d) == IF d.id = o.id THEN Later(d, o.trimStart)
                   ELSE IF \E x \in WithId(clips, o.id) : d.id \in x.linked
                   THEN Later(d, d.trimStart) ELSE d
    IN  Trimmed(c, Longer, Rest, Longer(c))

RollLeft(c, b, o, by) ==
    LET most == Least(MaxDur(assets, c) - b.dur, o.dur - 1)
        dt   == Largest(-most, Least(b.dur - 1, by))
        Later(d, trim) == [d EXCEPT !.start = b.start + dt, !.dur = Largest(1, b.dur - dt),
                                    !.trimStart = Largest(0, trim)]
        Rest(d) == IF d.id = o.id \/ \E x \in WithId(clips, o.id) : d.id \in x.linked
                   THEN [d EXCEPT !.dur = Largest(1, o.dur + dt)] ELSE d
    IN  Trimmed(c, LAMBDA d : Later(d, d.trimStart + dt * d.speed), Rest,
                Later(c, b.trimStart + dt * c.speed))

MoveTrim(by) ==
    /\ gesture # None /\ gesture.tool \in Trims /\ Open
    /\ \E c \in WithId(clips, gesture.base.id) :
         LET b == gesture.base  o == gesture.other  left == gesture.edge = "left" IN
         /\ o # None => WithId(clips, o.id) # {}
         /\ CommitMove("trim", CASE o # None /\ left  -> RollLeft(c, b, o, by)
                         [] o # None /\ ~left -> RollRight(c, b, o, by)
                         [] o = None /\ left  -> TrimLeft(c, b, by)
                         [] o = None /\ ~left -> TrimRight(c, b, by))
    /\ UNCHANGED gesture

\* The button comes up: the clip cuts what it now lies on.
EndTrim ==
    /\ gesture # None /\ gesture.tool \in Trims /\ Open
    /\ CommitMove("trimmed", ResolveOverlaps(clips, <<gesture.base.id>>, Now))
    /\ gesture' = None

-----------------------------------------------------------------------------
(* Slipping and sliding *)

\* The clips of its track a slid clip lies between.
Neighbours(c, before) ==
    LET near == {d \in OnTrack(clips, c.track) :
                   d.id # c.id /\ IF before THEN End(d) <= c.start ELSE d.start >= End(c)}
        Closer(d, e) == IF before THEN d.start >= e.start ELSE d.start <= e.start
    IN  IF near = {} THEN {None} ELSE {d \in near : \A e \in near : Closer(d, e)}

StartSlip(c, tool) ==
    /\ "gesture" \in tools /\ gesture = None /\ ~Locked(c)
    /\ \E p \in Neighbours(c, TRUE), n \in Neighbours(c, FALSE) :
         gesture' = [tool |-> tool, base |-> c, previous |-> p, next |-> n]
    /\ UNCHANGED <<doc, active, history, clipboard, counts>>

\* Slip: other seconds of the media in the same place, if the media has them.
MoveSlip(by) ==
    LET b     == gesture.base
        most  == b.trimStart + b.trimEnd
        first == Largest(0, Least(most, b.trimStart + by * b.speed))
    IN  /\ gesture # None /\ gesture.tool = "slip" /\ Open
        /\ \E c \in WithId(clips, b.id) :
             /\ c.kind = "video" /\ c.asset \in DOMAIN assets
             /\ most + c.dur * c.speed <= assets[c.asset].dur
             /\ CommitMove("slip", Mapped(LAMBDA d :
                  IF d.id = c.id THEN [d EXCEPT !.trimStart = first, !.trimEnd = most - first]
                  ELSE d))
        /\ UNCHANGED gesture

\* Slide: the clip moves between its neighbours, which fill the space.
MoveSlide(by) ==
    LET b == gesture.base  p == gesture.previous  n == gesture.next IN
    /\ gesture # None /\ gesture.tool = "slide" /\ Open
    /\ \E c \in WithId(clips, b.id) :
         LET least == IF p = None \/ WithId(clips, p.id) = {} THEN 0 ELSE ClipOf(clips, p.id).start
             most  == IF n = None THEN Forever ELSE End(n) - c.dur
             dt    == Largest(least, Least(most, b.start + by)) - b.start
             Slid(d) ==
               CASE d.id = c.id -> [d EXCEPT !.start = b.start + dt]
                 [] p # None /\ d.id = p.id -> [d EXCEPT !.dur = Largest(1, p.dur + dt)]
                 [] n # None /\ d.id = n.id ->
                      [d EXCEPT !.start = n.start + dt, !.dur = Largest(1, n.dur - dt),
                                !.trimStart = Largest(0, n.trimStart + dt * d.speed)]
                 [] OTHER -> d
         IN  CommitMove("slide", Mapped(Slid))
    /\ UNCHANGED gesture

EndSlip ==
    /\ gesture # None /\ gesture.tool \in {"slip", "slide"}
    /\ gesture' = None
    /\ UNCHANGED <<doc, active, history, clipboard, counts>>

-----------------------------------------------------------------------------
(* The editor *)

Init ==
    /\ doc = Opening /\ active = Opening.lines[1].id
    /\ undoStack = <<>> /\ redoStack = <<>>
    /\ clipboard = {} /\ gesture = None
    /\ minted = 0 /\ tools \in ToolSets /\ edits = 0 /\ did = "open"

PlaceAsset ==
    \/ \E a \in DOMAIN assets, time \in Times :
         \/ \E track \in DOMAIN tracks : DropAsset(a, track, time)
         \/ \E in \in {0, 1} : \/ InsertSource(a, in, assets[a].dur, time)
                               \/ OverwriteSource(a, in, assets[a].dur, time)
    \/ \E time \in Times : AddText(time, TextDur)
    \/ \E i \in DOMAIN doc.lines, track \in DOMAIN tracks, time \in Times :
         FlattenTimeline(i, track, time)

EditSome ==
    \E c \in clips : \/ DuplicateClip(c) \/ UnlinkClipGroup(c) \/ RemoveClip(c)
                     \/ \E speed \in {1, 2} : SetSpeed(c, speed)
                     \/ \E delta \in {-1, 1} : StepTake(c, delta)
                     \/ \E selected \in Selections : ReverseClips(selected)

Split ==
    \E time \in Times :
      LET met == {c \in clips : Splits(c, time) /\ ~Locked(c)} IN
      \E batch \in {{c} : c \in met} \cup {met} : SplitClips(batch, time)

EditTracks ==
    \/ \E kind \in {"video", "audio"} : AddTrack(kind)
    \/ \E i \in DOMAIN tracks : \/ ToggleTrackLock(i) \/ DeleteTrack(i)
                                \/ \E time \in Times : AddSubtitle(i, time, TextDur)
    \/ AddSubtitleTrack
    \/ ImportSrtCues({<<0, 1>>})
    \/ \E s \in Here.subs : DeleteSubtitle(s)
    \/ \E gap \in Gaps : CloseGap(gap)

EditAssets ==
    \/ \E a \in DOMAIN Library : AddAsset(a)
    \/ \E a \in DOMAIN assets :
         \/ DeleteAssets({a}) \/ UngroupTakes(a)
         \/ \E take \in DOMAIN assets[a].takes : \/ DeleteAssetTake(a, take)
                                                 \/ SetAssetActiveTake(a, take)
         \/ \E b \in DOMAIN assets : GroupTakes(a, b)

EditTimelines ==
    \/ CreateTimeline
    \/ \E a \in DOMAIN Library : ImportTimeline(a, TextDur)
    \/ \E i \in DOMAIN doc.lines : \/ DuplicateTimeline(i) \/ DeleteTimeline(i)
                                   \/ SwitchActiveTimeline(i)

UseClipboard ==
    \/ \E selected \in Selections : CopySelection(selected) \/ CutSelection(selected)
    \/ \E time \in Times : PasteSelection(time)

Gesture ==
    \/ \E c \in clips :
         \/ \E held \in Held(c), by \in Moves \cup {0}, rows \in RowMoves :
              Grab(c, held, by, rows) \/ GrabCopies(c, held, by, rows)
         \/ \E edge \in {"left", "right"}, tool \in Trims : StartTrim(c, edge, tool)
         \/ \E tool \in {"slip", "slide"} : StartSlip(c, tool)
    \/ Drop \/ EndTrim \/ EndSlip
    \/ \E by \in Moves : MoveTrim(by) \/ MoveSlip(by) \/ MoveSlide(by)

\* The mouse is held in a gesture, and only the keyboard is left.
Keyboard ==
    \/ Open /\ (UseClipboard \/ \E selected \in Selections : DeleteSelected(selected))
    \/ Undo \/ Redo

Mouse ==
    \/ Open /\ (PlaceAsset \/ EditSome \/ Split \/ EditTracks)
    \/ EditAssets \/ EditTimelines

Next == Keyboard \/ (gesture = None /\ Mouse) \/ (Open /\ Gesture)

Spec == Init /\ [][Next]_vars
=============================================================================
