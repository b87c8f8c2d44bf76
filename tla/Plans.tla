------------------------------- MODULE Plans -------------------------------
(* How a mux is planned: the preset registry with the user's presets.json    *)
(* (HdrPresets.cpp), the list of LUTs, a job's overrides and what the queue   *)
(* screen offers for them, Engine::resolvePlan and makeMuxPlan, and the same *)
(* decisions taken a second time by Engine::processOneShot for the command   *)
(* line.  Colour values are reduced to the transfer they stand for.          *)
EXTENDS Naturals, SequencesExt

CONSTANTS
    Luts,        \* LUT files that may exist
    RecentMax,   \* kRecentLutsMax
    MaxSteps     \* bound: commands

Kinds == {"PQ", "HLG", "SDR", "Unknown"}
None == "none"          \* an override that is not set
NoLut == "noLut"        \* the empty LUT path

Preset(id, family, transfer, builtIn) ==
    [id |-> id, family |-> family, transfer |-> transfer, builtIn |-> builtIn]

(* One built-in preset of each family and the sentinels, which carry no      *)
(* values.                                                                   *)
BuiltIn == <<Preset("hlg", "HLG", "HLG", TRUE), Preset("pq", "PQ", "PQ", TRUE),
             Preset("sdr", "SDR", "SDR", TRUE), Preset("custom", "Custom", "Unknown", TRUE)>>

VARIABLES
    user,       \* PresetRegistry::user_
    set,        \* Settings: presetPq, presetHlg, pqLutPath, hlgLutPath, attachLut, suffix, sdrPolicy, onConflict
    recent,     \* settings.recentLuts
    listed,     \* Engine::luts_
    files,      \* LUT files on disk; "hint": the hint file of the default suffix
    tool,       \* mkvmerge_.ok
    job,        \* the job: transfer, overrides, hintPath, state, and its mux plan
    steps

vars == <<user, set, recent, listed, files, tool, job, steps>>

-----------------------------------------------------------------------------
(* PresetRegistry *)

IsSentinel(p) == p.family \in {"Custom", "Source"}
TransferKind(p) == IF IsSentinel(p) THEN "Unknown" ELSE p.transfer
FamilyFor(kind) == IF kind = "Unknown" THEN "PQ" ELSE kind
Ids(presets) == {presets[i].id : i \in DOMAIN presets}

(* An id of a built-in preset gets "_user"; one the user already has is       *)
(* replaced.                                                                  *)
UpsertUser(presets, p) ==
    LET q == [p EXCEPT !.builtIn = FALSE,
                       !.id = IF @ \in Ids(BuiltIn) THEN @ \o "_user" ELSE @,
                       !.family = IF IsSentinel(p) THEN FamilyFor(p.transfer) ELSE @]
    IN IF q.id \in Ids(presets) THEN [i \in DOMAIN presets |-> IF presets[i].id = q.id THEN q ELSE presets[i]]
       ELSE Append(presets, q)

(* The presets of the file, none of them when it cannot be parsed.           *)
LoadUser(entries, parses) == IF parses THEN FoldLeft(UpsertUser, <<>>, entries) ELSE <<>>

All == BuiltIn \o user
Missing == Preset("missing", "Custom", "Unknown", FALSE)
Find(id) == LET hits == {i \in DOMAIN All : All[i].id = id}
            IN IF hits = {} THEN Missing ELSE All[CHOOSE i \in hits : \A k \in hits : i <= k]
ForTransfer(kind) == {p \in {All[i] : i \in DOMAIN All} :
                         ~IsSentinel(p) /\ (kind = "Unknown" \/ p.family = kind)}

-----------------------------------------------------------------------------
(* Settings and the plan of a job *)

PlanKindFor(kind) == IF kind = "Unknown" THEN "PQ" ELSE kind
DefaultLutFor(kind) == CASE kind = "PQ" -> set.pqLut [] kind = "HLG" -> set.hlgLut [] OTHER -> NoLut
DefaultPresetFor(kind) == CASE kind = "PQ" -> set.presetPq [] kind = "HLG" -> set.presetHlg
                            [] kind = "SDR" -> "sdr" [] OTHER -> None
HintPathFor(suffix) == <<"stem", suffix, "mkv">>

Chosen(override, default) == IF override = None THEN default ELSE override

ErrorOf(preset, lut, attach) ==
    CASE preset = Missing -> "no preset"
      [] IsSentinel(preset) -> "sentinel"
      [] attach /\ lut \notin files -> "no LUT"
      [] ~tool -> "no mkvmerge"
      [] set.suffix = "bad" -> "suffix"
      [] OTHER -> ""

ResolvePlan(j) ==
    LET kind == PlanKindFor(j.transfer)
        lut == Chosen(j.lut, DefaultLutFor(kind))
        attach == Chosen(j.attach, IF set.attach THEN "yes" ELSE "no") = "yes" /\ lut # NoLut
        id == Chosen(j.preset, DefaultPresetFor(kind))
        error == ErrorOf(Find(id), lut, attach)
    IN [preset |-> id, lut |-> lut, attach |-> attach, hint |-> HintPathFor(set.suffix),
        error |-> IF error = "" /\ set.suffix = "long" THEN "too long" ELSE error]

(* validatePlan: what is checked last, with the file that would be written.  *)
Validated(plan) ==
    IF plan.error = "" /\ set.skip /\ "hint" \in files THEN [plan EXCEPT !.error = "exists"] ELSE plan

(* onReady, of a job that is not forced and has no preset of its own: the    *)
(* policy for SDR comes before the plan.                                     *)
OnReady(j) ==
    LET plan == Validated(ResolvePlan(j))
    IN IF j.transfer = "SDR" /\ set.sdr # "tag_sdr" THEN [plan EXCEPT !.error = "SDR"] ELSE plan

\* Mutant: the LUT goes to the muxer though it is not to be attached.
BugMakeMuxPlan(plan) ==
    [preset |-> Find(plan.preset), lut |-> plan.lut, attach |-> plan.attach, hint |-> plan.hint]

NoMux == [preset |-> Missing, lut |-> NoLut, attach |-> FALSE, hint |-> <<>>]
MakeMuxPlan(plan) ==
    [preset |-> Find(plan.preset), lut |-> IF plan.attach THEN plan.lut ELSE NoLut,
     attach |-> plan.attach, hint |-> plan.hint]

(* processOneShot: the kind is that of the given preset, or of the file when  *)
(* none is given; a LUT argument is attached whatever the settings say.  It  *)
(* knows neither the policy for SDR nor the limit of the name's length.      *)
OneShot(measured, presetId, lutArg) ==
    LET given == Find(presetId)
        preset == IF presetId = None THEN Find(DefaultPresetFor(measured)) ELSE given
        kind == IF presetId = None THEN measured ELSE TransferKind(given)
        lut == CASE lutArg = "none" -> NoLut
                 [] lutArg = "" -> DefaultLutFor(PlanKindFor(kind))
                 [] OTHER -> lutArg
        attach == CASE lutArg = "none" -> FALSE
                    [] lutArg = "" -> set.attach /\ lut # NoLut
                    [] OTHER -> TRUE
        error == CASE ~tool -> "no mkvmerge"
                   [] presetId = None /\ measured = "Unknown" -> "pass --preset"
                   [] OTHER -> ErrorOf(preset, lut, attach)
        done == [preset |-> preset, lut |-> IF attach THEN lut ELSE NoLut, attach |-> attach,
                 hint |-> HintPathFor(set.suffix)]
    IN [mux |-> done, error |-> IF error = "" /\ set.skip /\ "hint" \in files THEN "exists" ELSE error]

-----------------------------------------------------------------------------
(* The LUTs offered: those of the LUT folder ("lut1" lies there), of the      *)
(* settings and those chosen lately, as far as they are files.               *)

RefreshLuts(s, r) == (({"lut1"} \cup {s.pqLut, s.hlgLut} \cup {r[i] : i \in DOMAIN r}) \cap files) \cap Luts

RememberLut(lut) ==
    LET r == <<lut>> \o SelectSeq(recent, LAMBDA x : x # lut)
    IN SubSeq(r, 1, IF Len(r) < RecentMax THEN Len(r) ELSE RecentMax)

-----------------------------------------------------------------------------
(* Commands *)

Step == steps < MaxSteps /\ steps' = steps + 1
Editable == job.state # "muxing"
Previewed(j) == IF j.state = "waiting" THEN [j EXCEPT !.hint = ResolvePlan(j).hint] ELSE j

(* setPreset: the presets offered are those of the job's transfer; a preset  *)
(* chosen for a file of unknown transfer settles that too.                   *)
SetsPreset(p) ==
    /\ Step /\ Editable /\ p \in ForTransfer(job.transfer)
    /\ job' = Previewed([job EXCEPT !.preset = p.id,
                                    !.transfer = IF @ = "Unknown" THEN TransferKind(Find(p.id)) ELSE @])
    /\ UNCHANGED <<user, set, recent, listed, files, tool>>

SetsLut(lut) ==
    /\ Step /\ Editable /\ lut \in listed \cup {NoLut} /\ lut # job.lut
    /\ recent' = IF lut = NoLut THEN recent ELSE RememberLut(lut)
    /\ listed' = IF lut = NoLut THEN listed ELSE RefreshLuts(set, recent')
    /\ job' = Previewed([job EXCEPT !.lut = lut])
    /\ UNCHANGED <<user, set, files, tool>>

SetsAttach(choice) ==
    /\ Step /\ Editable /\ choice # job.attach /\ job' = Previewed([job EXCEPT !.attach = choice])
    /\ UNCHANGED <<user, set, recent, listed, files, tool>>

(* The probe of the file settles its transfer, an unknown one or a wrong one.*)
InfersTransfer(kind) ==
    /\ Step /\ job.state # "muxing" /\ kind # "Unknown" /\ job' = [job EXCEPT !.transfer = kind]
    /\ UNCHANGED <<user, set, recent, listed, files, tool>>

SettingsChanged(s) ==
    /\ set' = s /\ listed' = RefreshLuts(s, recent)
    /\ job' = IF job.state = "waiting" THEN [job EXCEPT !.hint = HintPathFor(s.suffix)] ELSE job

EditsSettings(s) ==
    /\ Step /\ s # set /\ SettingsChanged(s)
    /\ UNCHANGED <<user, recent, files, tool>>

(* An SDR job too, when the user has it run.                                 *)
Dispatches ==
    /\ Step /\ job.state = "waiting"
    /\ LET plan == Validated(ResolvePlan(job))
       IN /\ plan.error = ""
          /\ job' = [job EXCEPT !.state = "muxing", !.hint = plan.hint, !.mux = MakeMuxPlan(plan)]
    /\ UNCHANGED <<user, set, recent, listed, files, tool>>

Ends == 
    /\ job.state = "muxing" /\ job' = [job EXCEPT !.state = "done"]
    /\ UNCHANGED <<user, set, recent, listed, files, tool, steps>>

FileChanges(f) ==
    /\ Step
    /\ files' = IF f \in files THEN files \ {f} ELSE files \cup {f}
    /\ UNCHANGED <<user, set, recent, listed, tool, job>>

Reprobes ==
    /\ Step /\ tool' = ~tool /\ UNCHANGED <<user, set, recent, listed, files, job>>

SettingsOf(attach, pqLut, suffix, presetPq, skip) ==
    [presetPq |-> presetPq, presetHlg |-> "hlg", pqLut |-> pqLut, hlgLut |-> NoLut,
     attach |-> attach, suffix |-> suffix, sdr |-> "skip", skip |-> skip]

(* Bound: the policy for SDR and a suffix too long are changed by themselves. *)
Settings == {SettingsOf(attach, lut, suffix, preset, skip) :
                attach \in BOOLEAN, lut \in {NoLut, "lut2"}, suffix \in {"_hdr", "bad"},
                preset \in {"pq", "mine"}, skip \in BOOLEAN}
            \cup {[set EXCEPT !.sdr = policy] : policy \in {"skip", "hold", "tag_sdr"}}
            \cup {[set EXCEPT !.suffix = "long"]}

Entries == {Preset("pq", "PQ", "PQ", FALSE), Preset("mine", "PQ", "PQ", FALSE),
            Preset("mine", "Custom", "Unknown", FALSE), Preset("pq_user", "HLG", "HLG", FALSE)}

Init ==
    /\ \E es \in {<<>>} \cup (Entries \X Entries), parses \in BOOLEAN : user = LoadUser(es, parses)
    /\ set = SettingsOf(TRUE, "lut2", "_hdr", "pq", FALSE)
    /\ recent = <<>> /\ files = Luts /\ listed = RefreshLuts(set, <<>>) /\ tool = TRUE /\ steps = 0
    /\ job = [transfer |-> "Unknown", preset |-> None, lut |-> None, attach |-> None,
              hint |-> HintPathFor("_hdr"), state |-> "waiting", mux |-> NoMux]

Next ==
    \/ \E i \in DOMAIN All : SetsPreset(All[i])
    \/ \E lut \in Luts \cup {NoLut} : SetsLut(lut)
    \/ \E choice \in {"yes", "no"} : SetsAttach(choice)
    \/ \E kind \in Kinds : InfersTransfer(kind)
    \/ \E s \in Settings : EditsSettings(s)
    \/ Dispatches
    \/ Ends
    \/ \E f \in Luts \cup {"hint"} : FileChanges(f)
    \/ Reprobes

Spec == Init /\ [][Next]_vars

-----------------------------------------------------------------------------
(* The preset a choice of the queue screen names is the one the mux will use:*)
(* no preset of the user's file hides behind a built-in one.                 *)
ChoicesNamePresets == \A kind \in Kinds : \A p \in ForTransfer(kind) : Find(p.id) = p

(* For a job the user left alone the command line decides as the program     *)
(* does ("exactly like the app does when AME finishes", cli_main.cpp:37):    *)
(* what the program muxes it muxes with the same preset, LUT and name, and   *)
(* what it muxes the program muxes, but for two cases in which the code is   *)
(* not alike: SDR, which the program skips or holds unless sdr_policy says   *)
(* to tag it, and a name too long for mkvmerge, which only the program sees. *)
(* (The policies that hold every job, or one with HDR10 metadata in it, are  *)
(* the program's alone too, and are not modelled.)                           *)
CliDecidesAlike ==
    job.state = "waiting" /\ job.transfer # "Unknown" /\ {job.preset, job.lut, job.attach} = {None}
       => LET app == OnReady(job)
              cli == OneShot(job.transfer, None, "")
          IN /\ app.error = "" => cli.error = "" /\ MakeMuxPlan(app) = cli.mux
             /\ cli.error = "" => app.error \in {"", "SDR", "too long"}

(* The name shown for a waiting job is the one its mux would write.          *)
PreviewIsThePlan == job.state = "waiting" => job.hint = ResolvePlan(job).hint
=============================================================================
