--------------------------- MODULE TimelineEditor ---------------------------
(***************************************************************************)
(* The project a user edits: assets with their takes, timelines with their *)
(* tracks, clips and subtitles, the undo history of editor-store.tsx and   *)
(* the clipboard.  An action is one handler of the editor, the operations  *)
(* of editor-actions.ts it calls included; the number of versions it hands *)
(* to Record is the number of calls, and so of undo steps.                 *)
(*                                                                         *)
(* What is selected, the playhead and the place of a drop are parameters   *)
(* of the actions: any of them may have been set before.  Bins, names,     *)
(* colours, effects, transitions, mute and solo are left out: they are     *)
(* edits of a field nothing else depends on.                               *)
(***************************************************************************)
EXTENDS TimelineClips, FiniteSetsExt, Functions

CONSTANTS
    Library,    \* assets that can be brought in: [kind, dur, takes, active]
    Opening,    \* the project that is opened: [assets, lines]
    ToolSets,   \* bound of the model: the handlers one session may use
    Times,      \* the times of this instance
    MaxUndo,    \* MAX_UNDO_HISTORY
    MaxEdits    \* bound of the model: edits of a session, by what it may use

-----------------------------------------------------------------------------
(* What a stored project is: every field is there, every list is a list, times *)
(* are numbers, an asset has a take, a timeline has a track, a clip shows an    *)
(* asset of the project or is a text.                                          *)

IsList(s) == s \in Seq(Range(s))

IsAsset(a) ==
    /\ DOMAIN a = {"kind", "dur", "takes", "active"}
    /\ a.dur \in Int /\ IsList(a.takes) /\ a.active \in DOMAIN a.takes

IsClip(c) ==
    /\ DOMAIN c = ClipFields
    /\ c.start \in Int /\ c.dur \in Int /\ c.trimStart \in Int /\ c.trimEnd \in Int
    /\ c.speed \in Nat \ {0} /\ c.reversed \in BOOLEAN /\ c.take \in {None} \cup (Nat \ {0})

AreClips(cs, as) ==
    IsFiniteSet(cs) /\ \A c \in cs : IsClip(c) /\ c.asset \in DOMAIN as \cup {None}

AreCues(ss) == \A s \in ss : DOMAIN s = {"id", "track", "start", "end"}

AreTracks(ts) ==
    /\ IsList(ts) /\ ts # <<>>
    /\ \A i \in DOMAIN ts : DOMAIN ts[i] = {"kind", "patched", "locked"}

IsLine(line, as) ==
    /\ DOMAIN line = {"id", "tracks", "clips", "subs"}
    /\ AreTracks(line.tracks) /\ AreClips(line.clips, as) /\ AreCues(line.subs)

IsProject(d) ==
    /\ DOMAIN d = {"assets", "lines"}
    /\ \A a \in DOMAIN d.assets : IsAsset(d.assets[a])
    /\ IsList(d.lines)
    /\ \A i \in DOMAIN d.lines : IsLine(d.lines[i], d.assets)

\* The ids made up to a time: those of earlier sessions, up to 0.
Made(now) == Seq({k \in Int : k <= now}) \ {<<>>}

MadeBy(d, now) == \A i \in DOMAIN d.lines : \A c \in d.lines[i].clips : c.id \in Made(now)

\* The stack is cut with slice(-(MAX_UNDO_HISTORY - 1)), which at 1 would keep all.
ASSUME HistoryAssumption == MaxUndo \in Nat \ {0, 1}
ASSUME OpeningAssumption == IsProject(Opening) /\ MadeBy(Opening, 0)
ASSUME LibraryAssumption == \A a \in DOMAIN Library : IsAsset(Library[a])
ASSUME TimesAssumption == Times \subseteq Int
ASSUME NoneAssumption == None \notin Nat

VARIABLES
    doc,        \* editorModel.assets and .timelines, first timeline first
    active,     \* editorModel.activeTimelineId
    undoStack,
    redoStack,
    clipboard,  \* session.clipboard.clips
    gesture,    \* what the mouse holds, None between gestures
    minted,     \* makeId and Date.now: the ids given so far
    tools,      \* one of ToolSets
    edits,
    did         \* history: the handler that set the document last

history == <<undoStack, redoStack>>
session == <<active, clipboard, gesture>>
counts  == <<minted, tools, edits, did>>
vars    == <<doc, active, history, clipboard, gesture, counts>>

V == INSTANCE VersionLine WITH
       Depth    <- MaxUndo,
       versions <- undoStack \o <<doc>> \o Reverse(redoStack),
       at       <- Len(undoStack) + 1

-----------------------------------------------------------------------------
(* The active timeline *)

\* A timeline that is gone leaves its id in active: the first one stands in.
Current ==
    IF \E i \in DOMAIN doc.lines : doc.lines[i].id = active
    THEN CHOOSE i \in DOMAIN doc.lines : doc.lines[i].id = active
    ELSE 1

Open   == doc.lines # <<>>
Here   == doc.lines[Current]
clips  == Here.clips
tracks == Here.tracks
assets == doc.assets

\* makeId and Date.now of a handler.
Now == minted + 1

With(line) == [doc EXCEPT !.lines[Current] = line]

WithClips(cs) == With([Here EXCEPT !.clips = cs])

Mapped(Change(_)) == {Change(c) : c \in clips}

Locked(c) == c.track \in DOMAIN tracks /\ tracks[c.track].locked

\* A subtitle track is of kind video, and of type subtitle.  A track that is
\* not patched takes nothing from the source monitor or the assets panel.
IsVideo(track) == track.kind \in {"video", "subtitle"}

\* A selection: a clip by itself, or with all it is linked to.
Selections == UNION {{{c.id}, Group(clips, {c.id})} : c \in clips}

FirstTrack(kinds, from) ==
    LET found == {i \in DOMAIN tracks : /\ i > from /\ tracks[i].kind \in kinds
                                        /\ tracks[i].patched /\ ~tracks[i].locked}
    IN  IF found = {} THEN None ELSE Min(found)

Track(kind, patched) == [kind |-> kind, patched |-> patched, locked |-> FALSE]
NewTrack(kind) == Track(kind, TRUE)

DefaultTracks == <<Track("video", TRUE), Track("video", FALSE), Track("video", FALSE),
                   Track("audio", TRUE), Track("audio", FALSE)>>

-----------------------------------------------------------------------------
(* recordHistoryStep, undo and redo *)

\* Mutated: the versions that were undone stay.
RecordOnly(news) ==
    LET all == undoStack \o <<doc>> \o Front(news)
    IN  /\ undoStack' = V!Newest(all, MaxUndo)
        /\ doc' = Last(news)
        /\ UNCHANGED redoStack

\* Every version a handler sets is an undo step; the oldest make room.
Record(news) ==
    LET all == undoStack \o <<doc>> \o Front(news)
    IN  /\ undoStack' = V!Newest(all, MaxUndo)
        /\ redoStack' = <<>>
        /\ doc' = Last(news)

Edit(tool, news) ==
    /\ tool \in tools /\ edits < MaxEdits[tools]
    /\ edits' = edits + 1 /\ UNCHANGED tools
    /\ minted' = Now /\ did' = tool
    /\ Record(news)

EditClips(tool, cs) ==
    /\ Open
    /\ Edit(tool, <<WithClips(cs)>>)
    /\ UNCHANGED session

Undo ==
    /\ undoStack # <<>> /\ did' = "undo"
    /\ doc' = Last(undoStack)
    /\ undoStack' = Front(undoStack)
    /\ redoStack' = Append(redoStack, doc)
    /\ UNCHANGED <<session, minted, tools, edits>>

Redo ==
    /\ redoStack # <<>> /\ did' = "redo"
    /\ doc' = Last(redoStack)
    /\ redoStack' = Front(redoStack)
    /\ undoStack' = Append(undoStack, doc)
    /\ UNCHANGED <<session, minted, tools, edits>>

-----------------------------------------------------------------------------
(* Assets put on the timeline *)

\* An asset dropped on a track: a video comes with a linked sound on an audio
\* track, one that is added if none takes it.
DropAsset(a, track, time) ==
    LET kind  == assets[a].kind
        below == FirstTrack({"audio"}, IF kind = "video" THEN track ELSE 0)
        any   == IF below = None THEN FirstTrack({"audio"}, 0) ELSE below
        home  == IF kind = "audio" /\ tracks[track].kind = "audio" THEN track ELSE any
        added == kind # "image" /\ home = None
        all   == IF added THEN Append(tracks, NewTrack("audio")) ELSE tracks
        looks  == kind # "audio" /\ tracks[track].patched
        sounds == kind # "image"
        both  == looks /\ sounds
        seen  == NewClip(<<Now>>, kind, a, track, time, assets[a].dur,
                         IF both THEN {<<Now, 0>>} ELSE {})
        heard == NewClip(<<Now, 0>>, "audio", a, IF added THEN Len(all) ELSE home, time,
                         assets[a].dur, IF both THEN {<<Now>>} ELSE {})
        new   == (IF looks THEN {seen} ELSE {}) \cup (IF sounds THEN {heard} ELSE {})
    IN  /\ Open /\ track \in DOMAIN tracks /\ ~tracks[track].locked
        /\ kind = "audio" \/ IsVideo(tracks[track])
        /\ new # {}
        /\ Edit("drop", <<With([Here EXCEPT
              !.tracks = all,
              !.clips = ResolveOverlaps(clips \cup new, <<<<Now>>, <<Now, 0>>>>, Now)])>>)
        /\ UNCHANGED session

\* The clips of the source monitor's seconds [in, out) of an asset, on the
\* first tracks that are not locked (buildSourceRequestClips).
SourceClips(a, in, out, time) ==
    LET kind  == assets[a].kind
        video == FirstTrack({"video", "subtitle"}, 0)
        audio == FirstTrack({"audio"}, 0)
        both  == kind = "video" /\ audio # None
        Part(c) == [c EXCEPT !.trimStart = in, !.trimEnd = assets[a].dur - out]
        seen  == Part(NewClip(<<Now>>, kind, a, video, time, out - in,
                              IF both THEN {<<Now, 0>>} ELSE {}))
        heard == Part(NewClip(<<Now, 0>>, "audio", a, audio, time, out - in,
                              IF both THEN {<<Now>>} ELSE {}))
    IN  IF kind = "audio"
        THEN IF audio = None THEN {} ELSE {heard}
        ELSE IF video = None THEN {} ELSE IF both THEN {seen, heard} ELSE {seen}

\* Clips that begin at the playhead or later on those tracks make room; one
\* the playhead is in stays where it is.
InsertSource(a, in, out, time) ==
    LET new == SourceClips(a, in, out, time)
        Room(c) == IF c.track \in {n.track : n \in new} /\ c.start >= time
                   THEN Shift(c, out - in) ELSE c
    IN  /\ new # {}
        /\ EditClips("insert", Mapped(Room) \cup new)

OverwriteSource(a, in, out, time) ==
    LET new == SourceClips(a, in, out, time)
    IN  /\ new # {}
        /\ EditClips("overwrite",
                     ResolveOverlaps(clips \cup new, <<<<Now>>, <<Now, 0>>>>, Now))

\* A text goes on the last video track that is not for subtitles.
AddText(time, dur) ==
    LET rows == {i \in DOMAIN tracks : tracks[i].kind = "video"}
        text == NewClip(<<Now>>, "text", None, IF rows = {} THEN 1 ELSE Max(rows),
                        time, dur, {})
    IN  EditClips("text", ResolveOverlaps(clips \cup {text}, <<text.id>>, Now))

\* A whole timeline dropped on a track: copies of its clips, links included.
FlattenTimeline(i, track, time) ==
    LET source   == doc.lines[i].clips
        earliest == Min({c.start : c \in source})
        Put(c) == [Copy(c, Now) EXCEPT !.start = time + (c.start - earliest),
                                       !.track = Least(track + c.track - 1, Len(tracks))]
    IN  /\ i # Current /\ source # {}
        /\ EditClips("flatten", clips \cup {Put(c) : c \in source})

-----------------------------------------------------------------------------
(* Clips *)

DuplicateClip(c) ==
    EditClips("duplicate", clips \cup {Shift(Copy(c, Now), c.dur)})

UnlinkClipGroup(c) ==
    LET Unlinked(d) == IF d.id = c.id THEN [d EXCEPT !.linked = {}]
                       ELSE IF d.id \in c.linked THEN [d EXCEPT !.linked = @ \ {c.id}] ELSE d
    IN  c.linked # {} /\ EditClips("unlink", Mapped(Unlinked))

\* The delete key: clips of locked tracks stay, and clips linked to a deleted
\* one go with it if all of those are selected.
DeleteSelected(selected) ==
    LET named  == {c \in clips : c.id \in selected /\ ~Locked(c)}
        linked == UNION {c.linked : c \in {d \in named : d.linked \subseteq selected}}
    IN  EditClips("delete", Without(clips, Ids(named) \cup linked))

\* The context menu: clips linked to the removed ones keep their links.
RemoveClip(c) ==
    /\ ~Locked(c)
    /\ EditClips("remove", {d \in clips : d.id \notin {c.id} \cup c.linked})

\* The blade on a clip, or with shift on every clip it meets.
SplitClips(batch, time) ==
    /\ batch # {}
    /\ \A c \in batch : Splits(c, time) /\ ~Locked(c)
    /\ \E order \in SetToSeqs(Ids(batch)) :
         EditClips("split", SplitEach(clips, order, time, Now))

\* A clip's speed, chosen from a menu: it keeps its media if that fits.
SetSpeed(c, speed) ==
    LET faster == [c EXCEPT !.speed = speed]
        dur == Largest(1, Least((c.dur * c.speed) \div speed, MaxDur(assets, faster)))
        Changed(d) == IF d.id = c.id THEN [d EXCEPT !.speed = speed, !.dur = dur] ELSE d
    IN  speed # c.speed /\ EditClips("speed", Mapped(Changed))

\* The clips of a selection are all reversed, or all played forwards if they were.
ReverseClips(selected) ==
    LET to == \E c \in clips : c.id \in selected /\ ~c.reversed
        Changed(d) == IF d.id \in selected THEN [d EXCEPT !.reversed = to] ELSE d
    IN  EditClips("reverse", Mapped(Changed))

StepTake(c, delta) ==
    LET asset == assets[c.asset]
        now   == IF c.take = None THEN asset.active ELSE c.take
        next  == Largest(1, Least(Len(asset.takes), now + delta))
        Changed(d) == IF d.id = c.id THEN [d EXCEPT !.take = next] ELSE d
    IN  /\ c.asset \in DOMAIN assets /\ Len(asset.takes) > 1 /\ next # now
        /\ EditClips("take", Mapped(Changed))

-----------------------------------------------------------------------------
(* Tracks, subtitles and gaps *)

AddTrack(kind) ==
    /\ Open
    /\ Edit("track", <<With([Here EXCEPT !.tracks = Append(@, NewTrack(kind))])>>)
    /\ UNCHANGED session

ToggleTrackLock(i) ==
    /\ Open
    /\ Edit("lock", <<With([Here EXCEPT !.tracks[i].locked = ~@])>>)
    /\ UNCHANGED session

\* Mutated: what is on the tracks after it keeps its number.
UnshiftedLoss(things, i) == {x \in things : x.track # i}

\* Clips or subtitles when track i goes.
WithoutTrack(things, i) ==
    {IF x.track > i THEN [x EXCEPT !.track = @ - 1] ELSE x : x \in {y \in things : y.track # i}}

\* The panel sets the clips, then the subtitles, then the tracks: three versions.
DeleteTrack(i) ==
    LET one   == [Here EXCEPT !.clips = WithoutTrack(@, i)]
        two   == [one EXCEPT !.subs = WithoutTrack(@, i)]
        three == [two EXCEPT !.tracks = RemoveAt(@, i)]
    IN  /\ Open /\ Len(tracks) > 1
        /\ Edit("untrack", <<With(one), With(two), With(three)>>)
        /\ UNCHANGED session

\* A subtitle track goes above all others, whose numbers grow by one.
Lowered(things) == {[x EXCEPT !.track = @ + 1] : x \in things}

WithSubtitleTrack(line) ==
    [line EXCEPT !.clips  = Lowered(@), !.subs = Lowered(@),
                 !.tracks = <<NewTrack("subtitle")>> \o @]

AddSubtitleTrack ==
    /\ Open
    /\ Edit("subtitle", <<With(WithSubtitleTrack(Here))>>)
    /\ UNCHANGED session

Subtitle(id, track, start, end) == [id |-> id, track |-> track, start |-> start, end |-> end]

\* The cues of a file replace those of the first subtitle track.
ImportSrtCues(cues) ==
    LET rows == {i \in DOMAIN tracks : tracks[i].kind = "subtitle"}
        line == IF rows = {} THEN WithSubtitleTrack(Here) ELSE Here
        row  == IF rows = {} THEN 1 ELSE Min(rows)
    IN  /\ Open /\ cues # {}
        /\ Edit("cues", <<With([line EXCEPT
              !.subs = {s \in line.subs : s.track # row}
                       \cup {Subtitle(<<Now, c[1]>>, row, c[1], c[2]) : c \in cues}])>>)
        /\ UNCHANGED session

AddSubtitle(track, time, dur) ==
    /\ Open /\ track \in DOMAIN tracks /\ tracks[track].kind = "subtitle"
    /\ Edit("cue", <<With([Here EXCEPT !.subs = @ \cup {Subtitle(<<Now>>, track, time, time + dur)}])>>)
    /\ UNCHANGED session

DeleteSubtitle(s) ==
    /\ Edit("uncue", <<With([Here EXCEPT !.subs = @ \ {s}])>>)
    /\ UNCHANGED session

\* The gaps of a timeline: before a clip of a track, back to where the clip
\* before it in the order of start times ends.
Gaps ==
    LET Before(c) == {d \in OnTrack(clips, c.track) : d.start < c.start}
        Previous(c) == IF Before(c) = {} THEN 0
                       ELSE LET s == Max({d.start : d \in Before(c)})
                            IN  Max({End(d) : d \in {x \in Before(c) : x.start = s}})
    IN  {[track |-> c.track, start |-> Previous(c), end |-> c.start] :
           c \in {d \in clips : d.track \in DOMAIN tracks /\ tracks[d.track].kind # "subtitle"
                                /\ Previous(d) < d.start}}

\* What begins after a gap moves up, on every track: the clips, then the
\* subtitles.
CloseGap(gap) ==
    LET by == gap.end - gap.start
        one == [Here EXCEPT !.clips = Mapped(LAMBDA c :
                  IF c.start >= gap.end THEN Shift(c, -by) ELSE c)]
        two == [one EXCEPT !.subs = {IF s.start >= gap.end
                  THEN [s EXCEPT !.start = @ - by, !.end = @ - by] ELSE s : s \in Here.subs}]
    IN  /\ Edit("gap", <<With(one), With(two)>>)
        /\ UNCHANGED session

-----------------------------------------------------------------------------
(* Assets and takes *)

WithAssets(as) == [doc EXCEPT !.assets = as]

\* A change of the clips of every timeline.
Everywhere(d, Change(_)) ==
    LET Changed(line) == [line EXCEPT !.clips = Change(line.clips)]
    IN  [d EXCEPT !.lines = [i \in DOMAIN d.lines |-> Changed(d.lines[i])]]

\* Assets that come in, with those there are.
Joined(new, as) ==
    [a \in DOMAIN new \cup DOMAIN as |-> IF a \in DOMAIN new THEN new[a] ELSE as[a]]

AddAsset(a) ==
    /\ a \in DOMAIN Library \ DOMAIN assets
    /\ Edit("asset", <<WithAssets(Joined(Restrict(Library, {a}), assets))>>)
    /\ UNCHANGED session

\* Mutated: the clips go from the active timeline only.
WithoutAssetsHere(d, gone) ==
    [assets |-> Restrict(d.assets, DOMAIN d.assets \ gone),
     lines  |-> [d.lines EXCEPT ![Current].clips = {c \in @ : c.asset \notin gone}]]

\* The assets go and with them their clips, in every timeline.
WithoutAssets(d, gone) ==
    [assets |-> Restrict(d.assets, DOMAIN d.assets \ gone),
     lines  |-> Everywhere(d, LAMBDA cs : {c \in cs : c.asset \notin gone}).lines]

DeleteAssets(gone) ==
    /\ gone # {}
    /\ Edit("unasset", <<WithoutAssets(doc, gone)>>)
    /\ UNCHANGED session

\* Mutated: only clips of the deleted take are pointed elsewhere.
RepointOnlyDeleted(take, deleted) ==
    IF take = None THEN None
    ELSE IF take = deleted THEN Largest(1, deleted - 1) ELSE take

RepointedTake(take, deleted) ==
    IF take = None THEN None
    ELSE IF take = deleted THEN Largest(1, deleted - 1)
    ELSE IF take > deleted THEN take - 1 ELSE take

\* A take is deleted, the active number clamped, and the clips repointed.
DeleteAssetTake(a, take) ==
    LET kept == IF Len(assets[a].takes) > 1 THEN RemoveAt(assets[a].takes, take) ELSE assets[a].takes
        as   == [assets EXCEPT ![a].takes = kept, ![a].active = Least(@, Len(kept))]
        Repointed(cs) == {IF c.asset = a THEN [c EXCEPT !.take = RepointedTake(@, take)] ELSE c : c \in cs}
    IN  /\ Len(assets[a].takes) > 1
        /\ Edit("untake", <<Everywhere(WithAssets(as), Repointed)>>)
        /\ UNCHANGED session

SetAssetActiveTake(a, take) ==
    /\ Edit("active", <<WithAssets([assets EXCEPT ![a].active = take])>>)
    /\ UNCHANGED session

\* "Group takes": b becomes the second take of a and is deleted, its clips too.
GroupTakes(a, b) ==
    LET shown(x) == assets[x].takes[assets[x].active]
        one == WithAssets([assets EXCEPT ![a].takes = <<shown(a), shown(b)>>, ![a].active = 1])
    IN  /\ a # b
        /\ Edit("group", <<one, WithoutAssets(one, {b})>>)
        /\ UNCHANGED session

\* "Ungroup takes": every take but the first becomes an asset.
UngroupTakes(a) ==
    LET takes == assets[a].takes
        new   == [x \in {<<Now, i>> : i \in 2..Len(takes)} |->
                    [assets[a] EXCEPT !.takes = <<takes[x[2]]>>, !.active = 1]]
        more  == Joined(new, assets)
    IN  /\ Len(takes) > 1
        /\ Edit("ungroup", <<WithAssets(more),
              WithAssets([more EXCEPT ![a].takes = <<takes[1]>>, ![a].active = 1])>>)
        /\ UNCHANGED session

-----------------------------------------------------------------------------
(* Timelines *)

\* A timeline is opened: a step of the history, which does not hold active.
OpenLine(tool, line, d) ==
    /\ Edit(tool, <<[d EXCEPT !.lines = Append(@, line)]>>)
    /\ active' = line.id
    /\ UNCHANGED <<clipboard, gesture>>

CreateTimeline ==
    OpenLine("create", [id |-> <<Now>>, clips |-> {}, subs |-> {},
                        tracks |-> DefaultTracks], doc)

\* The copies of the clips have new ids and the links of the originals.
DuplicateTimeline(i) ==
    LET source == doc.lines[i]
    IN  OpenLine("copyline",
          [source EXCEPT !.id = <<Now>>, !.clips = {Copy(c, Now) : c \in @},
                         !.subs = {[s EXCEPT !.id = Append(@, Now)] : s \in @}], doc)

\* A parsed file: its media become assets, here one with a clip and its sound.
ImportTimeline(a, dur) ==
    LET seen  == NewClip(<<Now>>, "video", a, 1, 0, dur, {<<Now, 0>>})
        heard == NewClip(<<Now, 0>>, "audio", a, 2, 0, dur, {<<Now>>})
    IN  /\ a \in DOMAIN Library \ DOMAIN assets
        /\ OpenLine("import", [id |-> <<Now>>, clips |-> {seen, heard}, subs |-> {},
                               tracks |-> <<NewTrack("video"), NewTrack("audio")>>],
                    WithAssets(Joined(Restrict(Library, {a}), assets)))

DeleteTimeline(i) ==
    LET left == RemoveAt(doc.lines, i)
    IN  /\ Edit("unline", <<[doc EXCEPT !.lines = left]>>)
        /\ active' = IF active # doc.lines[i].id THEN active
                     ELSE IF left = <<>> THEN None ELSE left[1].id
        /\ UNCHANGED <<clipboard, gesture>>

\* Not an edit: the history does not know which timeline is open.
SwitchActiveTimeline(i) ==
    /\ "switch" \in tools
    /\ active' = doc.lines[i].id
    /\ UNCHANGED <<doc, history, clipboard, gesture, counts>>

-----------------------------------------------------------------------------
(* Clipboard *)

CopySelection(selected) ==
    /\ "copy" \in tools /\ Open
    /\ clipboard' = {c \in clips : c.id \in selected}
    /\ UNCHANGED <<doc, active, history, gesture, counts>>

CutSelection(selected) ==
    /\ Open
    /\ clipboard' = {c \in clips : c.id \in selected}
    /\ Edit("cut", <<WithClips(Without(clips, selected))>>)
    /\ UNCHANGED <<active, gesture>>

Pasted == {c \in clipboard : c.asset = None \/ c.asset \in DOMAIN assets}

\* Clips keep the track and the take they had, in whatever timeline.
PasteSelection(time) ==
    LET earliest == Min({c.start : c \in clipboard})
        Put(c) == [Copy(c, Now) EXCEPT !.start = time + (c.start - earliest), !.linked = {}]
    IN  /\ Pasted # {}
        /\ EditClips("paste", clips \cup {Put(c) : c \in Pasted})
=============================================================================
