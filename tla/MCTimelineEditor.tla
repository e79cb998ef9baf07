-------------------------- MODULE MCTimelineEditor --------------------------
(* TLC instance of the timeline editor: a pair of linked clips, another     *)
(* clip and a second timeline that uses a take of the same asset.           *)
EXTENDS TimelineEditorProps, TLC

CONSTANTS film, photo, extra, none

Film  == [kind |-> "video", dur |-> 4, takes |-> <<"first", "second", "third">>, active |-> 1]
Still == [kind |-> "image", dur |-> 2, takes |-> <<"still">>, active |-> 1]

Shelf == extra :> [kind |-> "video", dur |-> 2, takes |-> <<"extra">>, active |-> 1]

Clip(id, kind, asset, track, start, dur, linked) ==
    NewClip(<<id>>, kind, asset, track, start, dur, linked)

Project ==
    [assets |-> film :> Film @@ photo :> Still,
     lines  |-> <<
       [id |-> <<-201>>, subs |-> {},
        tracks |-> <<Track("video", TRUE), Track("video", FALSE), Track("audio", TRUE)>>,
        clips  |-> {Clip(-101, "video", film, 1, 0, 4, {<<-102>>}),
                    Clip(-102, "audio", film, 3, 0, 4, {<<-101>>}),
                    Clip(-103, "image", photo, 1, 4, 2, {})}],
       [id |-> <<-202>>, subs |-> {}, tracks |-> <<Track("video", TRUE)>>,
        clips  |-> {[Clip(-104, "video", film, 1, 1, 2, {}) EXCEPT !.take = 3, !.speed = 2]}]>>]

MouseMoves == {-1, 1}

Placing   == {"drop", "insert", "overwrite", "text", "split", "speed", "reverse", "delete"}
Dragging  == {"gesture", "drag", "copies", "trim", "trimmed", "slip", "slide", "reverse"}
Tracking  == {"track", "lock", "untrack", "subtitle", "cues", "cue", "uncue", "gap"}
Clipboard == {"copy", "cut", "paste", "switch", "unasset"}
Assets    == {"asset", "unasset", "untake", "active", "group", "ungroup", "take"}
Timelines == {"create", "copyline", "import", "unline", "switch", "flatten", "unlink", "remove",
              "duplicate"}

Families == {Placing, Dragging, Tracking, Clipboard, Assets, Timelines}

Depths == [f \in Families |-> IF f \in {Tracking, Assets} THEN 3 ELSE 2]
=============================================================================
