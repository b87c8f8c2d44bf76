------------------------------- MODULE Tags -------------------------------
(* What a mux asks mkvmerge for and what it makes of the result: the command  *)
(* line built from the plan (MkvmergeRunner::buildArgs, colourFlags), the JSON *)
(* of mkvmerge -J (parseIdentification) and the checks on the file that was    *)
(* written (verify).  mkvmerge writes what it was asked for, or something else. *)
EXTENDS Naturals, SequencesExt, FiniteSetsExt

(* One property of the video of each kind: a code, a level, a luminance and a  *)
(* list of coordinates.  A preset's field is empty, a value, or no value.      *)
Properties == {"transfer", "maxCll", "minLuminance", "whitePoint"}
Empty == "empty"
Junk == "junk"
Absent == "absent"
Values == [transfer |-> {"16", "18"}, maxCll |-> {"0", "1000"}, minLuminance |-> {"0.01"},
           whitePoint |-> {"x,y"}]

VARIABLES
    plan,       \* the MuxPlan: preset, LUT to attach, track id
    source,     \* the tracks of the input, in order
    lut,        \* the size of the LUT file
    output,     \* the partial file: what is in it
    faithful,   \* mkvmerge wrote what it was asked for
    verdict     \* "planned", "identified", "written", "ok", "failed"

vars == <<plan, source, lut, output, faithful, verdict>>

NoOutput == [matroska |-> FALSE, errors |-> FALSE, size |-> 0, tracks |-> <<>>, attachments |-> <<>>]
Untagged == [p \in Properties |-> Absent]
Track(type, tags) == [type |-> type, tags |-> tags, pixels |-> IF type = "video" THEN "uhd" ELSE Absent]

-----------------------------------------------------------------------------
(* -J lists the tracks with their ids; a property that is not there or is no   *)
(* number is taken as absent, and only the first video counts.                 *)
Json(tracks, attachments, matroska, errors) ==
    [type |-> IF matroska THEN "Matroska" ELSE "QuickTime/MP4",
     tracks |-> [i \in DOMAIN tracks |-> [id |-> i - 1, type |-> tracks[i].type,
                    properties |-> tracks[i].tags, pixels |-> tracks[i].pixels]],
     attachments |-> attachments, errors |-> errors]

JsonNumber(value) == IF value = Junk THEN Absent ELSE value

ParseIdentification(json) ==
    LET Of(type) == {i \in DOMAIN json.tracks : json.tracks[i].type = type}
        first == Min(Of("video"))
    IN [containerType |-> json.type,
        audioTrackCount |-> Cardinality(Of("audio")),
        video |-> Of("video") # {},
        videoTrackId |-> IF Of("video") = {} THEN 0 ELSE json.tracks[first].id,
        properties |-> IF Of("video") = {} THEN Untagged
                       ELSE [p \in Properties |-> JsonNumber(json.tracks[first].properties[p])],
        pixelDimensions |-> IF Of("video") = {} THEN Absent ELSE json.tracks[first].pixels,
        attachments |-> json.attachments, errors |-> json.errors]

-----------------------------------------------------------------------------
(* The flags of a preset: one for each field that has a text, for the track.   *)
(* A sentinel asks for nothing.                                                *)
BugColourFlags(preset, trackId) ==
    IF preset.sentinel THEN {}
    ELSE {[flag |-> p, track |-> 0, value |-> preset.fields[p]] :
             p \in {q \in Properties : preset.fields[q] # Empty}}
ColourFlags(preset, trackId) ==
    IF preset.sentinel THEN {}
    ELSE {[flag |-> p, track |-> trackId, value |-> preset.fields[p]] :
             p \in {q \in Properties : preset.fields[q] # Empty}}

BuildArgs(p) ==
    [colour |-> ColourFlags(p.preset, p.trackId),
     attach |-> IF p.attachLut /\ p.lutPath # "" THEN <<[name |-> p.lutPath, mime |-> p.mime]>> ELSE <<>>]

(* What mkvmerge makes of the arguments: every track of the input, with the    *)
(* tags it was given in place of its own, and the attached file.               *)
Muxed(args) ==
    [matroska |-> TRUE, errors |-> FALSE, size |-> Len(source),
     tracks |-> [i \in DOMAIN source |->
        [source[i] EXCEPT !.tags = [p \in Properties |->
            IF \E f \in args.colour : f.flag = p /\ f.track = i - 1
            THEN (CHOOSE f \in args.colour : f.flag = p /\ f.track = i - 1).value ELSE @[p]]]],
     attachments |-> [i \in DOMAIN args.attach |->
        [name |-> args.attach[i].name, mime |-> args.attach[i].mime, size |-> lut]]]

(* And what it may write instead.                                              *)
Spoilt(file) ==
    {[file EXCEPT !.size = 0], [file EXCEPT !.matroska = FALSE], [file EXCEPT !.errors = TRUE],
     [file EXCEPT !.attachments = <<>>], [file EXCEPT !.attachments = @ \o @]}
    \union {[file EXCEPT !.tracks = RemoveAt(@, i)] : i \in DOMAIN file.tracks}
    \union {[file EXCEPT !.tracks[i].tags[p] = v] :
               i \in DOMAIN file.tracks, p \in Properties, v \in {Absent, Junk, "other"}}
    \union {[file EXCEPT !.tracks[i].pixels = p] : i \in DOMAIN file.tracks, p \in {Absent, "other"}}
    \union {[file EXCEPT !.attachments[i] = [name |-> "other", mime |-> "cube", size |-> 1]] :
               i \in DOMAIN file.attachments}

-----------------------------------------------------------------------------
(* checkIntField, checkDoubleField, checkCoordinateField: an empty field asks  *)
(* for nothing, one that is no number fails, one that is not in the file too.  *)
CheckField(expected, actual) ==
    \/ expected = Empty
    \/ expected # Junk /\ actual # Absent /\ expected = actual

Verified ==
    LET before == ParseIdentification(Json(source, <<>>, FALSE, FALSE))
        ident == ParseIdentification(Json(output.tracks, output.attachments, output.matroska, output.errors))
    IN /\ output.size > 0
       /\ ident.containerType = "Matroska" /\ ~ident.errors /\ ident.video
       /\ plan.preset.sentinel \/
            \A p \in Properties : CheckField(plan.preset.fields[p], ident.properties[p])
       /\ ident.audioTrackCount = before.audioTrackCount
       /\ Absent \in {before.pixelDimensions, ident.pixelDimensions}
             \/ before.pixelDimensions = ident.pixelDimensions
       /\ plan.attachLut /\ plan.lutPath # "" =>
            /\ Len(ident.attachments) = 1
            /\ ident.attachments[1] = [name |-> plan.lutPath, mime |-> plan.mime, size |-> lut]

-----------------------------------------------------------------------------
Presets ==
    {[sentinel |-> FALSE, fields |-> [p \in Properties |-> IF p = q THEN v ELSE base[p]]] :
        q \in Properties, v \in {Empty, Junk} \union UNION {Values[p] : p \in Properties},
        base \in {[p \in Properties |-> Empty], [p \in Properties |-> CHOOSE v \in Values[p] : TRUE]}}
InKind(preset) == \A p \in Properties : preset.fields[p] \in Values[p] \union {Empty, Junk}

Videos == {Track("video", Untagged), Track("video", [Untagged EXCEPT !["transfer"] = "18"])}
Inputs ==
    {<<v>> : v \in Videos} \union {<<Track("audio", Untagged), v>> : v \in Videos}
    \union {<<v, Track("audio", Untagged), Track("video", Untagged)>> : v \in Videos}
    \union {<<Track("audio", Untagged), Track("subtitles", Untagged), v, Track("audio", Untagged)>> : v \in Videos}
    \union {<<Track("audio", Untagged)>>}

(* MuxWorker identifies the input first: an input without a video is refused,  *)
(* and the flags go to the track that was found.                               *)
Init ==
    /\ source \in Inputs /\ lut = 2 /\ output = NoOutput /\ faithful = FALSE /\ verdict = "planned"
    /\ \E preset \in {p \in Presets : InKind(p)}, sentinel, attach \in BOOLEAN :
          plan = [preset |-> [preset EXCEPT !.sentinel = sentinel], attachLut |-> attach,
                  lutPath |-> "lut", mime |-> "cube", trackId |-> 0]

Identifies ==
    /\ verdict = "planned"
    /\ LET ident == ParseIdentification(Json(source, <<>>, FALSE, FALSE))
       IN IF ident.video THEN plan' = [plan EXCEPT !.trackId = ident.videoTrackId] /\ verdict' = "identified"
          ELSE verdict' = "failed" /\ UNCHANGED plan
    /\ UNCHANGED <<source, lut, output, faithful>>

(* mkvmerge refuses a value that is none.                                      *)
Muxes ==
    /\ verdict = "identified"
    /\ LET args == BuildArgs(plan)
       IN IF \E f \in args.colour : f.value = Junk
          THEN verdict' = "failed" /\ UNCHANGED <<output, faithful>>
          ELSE /\ verdict' = "written"
               /\ \E file \in {Muxed(args)} \union Spoilt(Muxed(args)) :
                     output' = file /\ faithful' = (file = Muxed(args))
    /\ UNCHANGED <<plan, source, lut>>

(* The user saves another LUT under the name while the mux runs.               *)
LutChanges == /\ verdict = "written" /\ lut' = 3 - lut /\ UNCHANGED <<plan, source, output, faithful, verdict>>

Verify ==
    /\ verdict = "written" /\ verdict' = (IF Verified THEN "ok" ELSE "failed")
    /\ UNCHANGED <<plan, source, lut, output, faithful>>

Next == Identifies \/ Muxes \/ LutChanges \/ Verify
Spec == Init /\ [][Next]_vars

-----------------------------------------------------------------------------
(* A file that passes has what was asked: the first video carries every value *)
(* of the preset and is as large as the source's where the file tells, no     *)
(* audio track is missing or added, and the LUT is the one attachment         *)
(* (MkvmergeRunner.cpp:941-1049).                                             *)
VerifiedMeansAsked ==
    verdict = "ok" =>
        LET videos == {i \in DOMAIN output.tracks : output.tracks[i].type = "video"}
            count(tracks) == Len(SelectSeq(tracks, LAMBDA t : t.type = "audio"))
        IN /\ videos # {} /\ count(output.tracks) = count(source)
           /\ output.matroska /\ ~output.errors
           /\ output.tracks[Min(videos)].pixels \in {Absent, "uhd"}
           /\ ~plan.preset.sentinel => \A p \in Properties :
                 plan.preset.fields[p] \in {Empty, output.tracks[Min(videos)].tags[p]}
           /\ plan.attachLut =>
                 output.attachments = <<[name |-> "lut", mime |-> "cube", size |-> lut]>>

(* Of every step: what mkvmerge did as it was told passes, wherever the video *)
(* stands among the tracks, as long as the LUT is what it was: no good mux is *)
(* thrown away (MkvmergeRunner.cpp:520-669, HdrPresets.cpp:539-560).          *)
FaithfulMuxPasses ==
    faithful /\ verdict = "written" /\ verdict' # "written" /\ (plan.attachLut => lut = 2) =>
        verdict' = "ok"
=============================================================================
