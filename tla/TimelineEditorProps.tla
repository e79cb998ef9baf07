------------------------ MODULE TimelineEditorProps ------------------------
(***************************************************************************)
(* What the editor should never do to a project.                           *)
(***************************************************************************)
EXTENDS TimelineGestures

Versions == ToSet(undoStack) \cup {doc} \cup ToSet(redoStack)

Until == 0..20      \* no clip of an instance lies later

\* A handler has just set the document.
Just(tool) == did' = tool /\ minted' # minted

Unique(cs) == \A c, d \in cs : c.id = d.id => c = d

(***************************************************************************)
(* No clip of any timeline is without its asset, in the document and in    *)
(* every version undo and redo can bring back: assets and timelines are    *)
(* separate lists that a dozen handlers change, and a clip copied before   *)
(* its asset was deleted can be pasted after.                              *)
(***************************************************************************)
ClipAssetLive ==
    \A d \in Versions : \A i \in DOMAIN d.lines : \A c \in d.lines[i].clips :
      c.asset # None => c.asset \in DOMAIN d.assets

(***************************************************************************)
(* Undo and redo walk a line of versions, whatever is edited in between,   *)
(* the handlers that commit several versions and the bounded stack         *)
(* included (recordHistoryStep, undo and redo).                            *)
(***************************************************************************)
HistoryIsALine == V!Spec

(***************************************************************************)
(* Putting clips on a track changes nothing but what they cover: at every  *)
(* time of every track the clips that were put there are shown, or else    *)
(* what the other clips showed before, to the second of the media, at      *)
(* every speed (resolveOverlaps).  Not so for what is left of a reversed   *)
(* clip after a clip that was put on it: the cut moves trimStart, and a    *)
(* reversed clip counts from trimEnd (video-editor-utils.ts:147 and 168).  *)
(***************************************************************************)
Torn(kept, put, track, t) ==
    \E c \in At(kept, track, t), m \in put : c.reversed /\ Overlap(c, m) /\ End(m) <= t

Covered(put, kept) ==
    \A track \in DOMAIN Here'.tracks, t \in Until :
      ~Torn(kept, put, track, t) =>
      Shown(assets', clips', track, t) =
        IF Shown(assets', put, track, t) # {} THEN Shown(assets', put, track, t)
        ELSE Shown(assets', kept, track, t)

New == {<<Now>>, <<Now, 0>>}

OverwriteSpares ==
    [][ Open /\ Unique(clips) =>
        /\ Just("drag") => LET ids == DOMAIN gesture.to IN
             Covered({Placed(c) : c \in {d \in clips : d.id \in ids}},
                     {c \in clips : c.id \notin ids})
        /\ (\E tool \in {"drop", "overwrite", "text"} : Just(tool)) =>
             Covered({c \in clips' : c.id \in New}, clips) ]_vars

(***************************************************************************)
(* The blade changes no picture: what is shown is the same to the second   *)
(* wherever on a track there are only clips that play forwards at normal   *)
(* speed, whatever is elsewhere; and clips that were linked in pairs are   *)
(* linked in pairs, each half with its half (splitClipsAtTime).  At        *)
(* another speed, and for reversed clips, a split shows other seconds: it  *)
(* trims by the time on the track, the first half at its end and the       *)
(* second at its beginning (editor-actions.ts:1085 and 1092).              *)
(***************************************************************************)
Plain(cs, track, t) == \A c \in At(cs, track, t) : c.speed = 1 /\ ~c.reversed

Paired(cs) ==
    \A c \in cs : \A id \in c.linked : \E d \in cs : d.id = id /\ d.linked = {c.id}

SplitSeamless ==
    [][ Just("split") /\ Unique(clips) =>
        /\ \A track \in DOMAIN tracks, t \in Until :
             Plain(clips, track, t) =>
               Shown(assets', clips', track, t) = Shown(assets, clips, track, t)
        /\ Paired(clips) => Paired(clips') ]_vars

(***************************************************************************)
(* Deleting a take changes no clip of any timeline that shows another take *)
(* by its number, though the numbers change, if the paths of the takes     *)
(* differ and no two clips share an id (deleteAssetTake).                  *)
(***************************************************************************)
TakeDeletionSpares ==
    [][ Just("untake") =>
        \A i \in DOMAIN doc.lines : \A c \in doc.lines[i].clips :
          LET path == PathOf(assets, c) IN
          /\ c.take # None /\ path \in ToSet(assets'[c.asset].takes)
          /\ Unique(doc.lines[i].clips) /\ IsInjective(assets[c.asset].takes)
          => \A d \in doc'.lines[i].clips : d.id = c.id => PathOf(assets', d) = path ]_vars

(***************************************************************************)
(* No edit leaves a clip on a track that is not there, or a cue on one     *)
(* that is not for subtitles: tracks are numbered, and a subtitle track    *)
(* that is added or a track that is deleted renumbers the others.  Not so  *)
(* for paste, which keeps the numbers of the timeline a clip was copied    *)
(* from, nor for a drag whose tracks were undone under the mouse.          *)
(***************************************************************************)
OnTracks(d) ==
    \A i \in DOMAIN d.lines : LET line == d.lines[i] IN
      /\ \A c \in line.clips : c.track \in DOMAIN line.tracks
      /\ \A s \in line.subs : s.track \in DOMAIN line.tracks /\ line.tracks[s.track].kind = "subtitle"

EditsStayOnTracks ==
    [][ did' \notin {"undo", "redo", "paste"} /\ OnTracks(doc)
        /\ (Just("drag") =>
              \A id \in DOMAIN gesture.to : gesture.to[id].track \in DOMAIN tracks)
        => OnTracks(doc') ]_vars
=============================================================================
