------------------------------- MODULE Names -------------------------------
(* The text work that jobs and child processes stand on: the parts of a path, *)
(* the key of a file, the names of our own outputs and of Media Encoder's     *)
(* sidecars (PathUtil), and the quoting of a command line (Process).  A text  *)
(* is a sequence of tokens, one character or one word that is never cut.      *)
EXTENDS Naturals, SequencesExt, FiniteSetsExt

CONSTANT MaxLen    \* bound: tokens behind the root of a path, of an argument, of a name

VARIABLES
    kind,    \* what the text is: a "path", a file "name" or the "arguments" of a command
    root,    \* the beginning of a path
    text     \* the tokens behind it; for a command, of all its arguments

vars == <<kind, root, text>>

Seps == {"\\", "/"}
Sep(text_, i) == i \in DOMAIN text_ /\ text_[i] \in Seps
From(text_, i) == SubSeq(text_, i, Len(text_))
UpTo(text_, i) == SubSeq(text_, 1, i)

(* The last position of a token in S, 0 when there is none.                   *)
LastIn(text_, S) == Max({0} \union {i \in DOMAIN text_ : text_[i] \in S})
FirstIn(text_, S, start) ==
    Min({Len(text_) + 1} \union {i \in DOMAIN text_ : i >= start /\ text_[i] \in S})

EndsWith(text_, tail) ==
    Len(tail) <= Len(text_) /\ From(text_, Len(text_) - Len(tail) + 1) = tail

-----------------------------------------------------------------------------
(* Paths.  "UNC" is one token.                                                *)

Unc == <<"\\", "\\", "?", "\\", "UNC", "\\">>
Device == <<"\\", "\\", "?", "\\">>

(* \\server\share\ : the length of the root that begins with the server.      *)
UncRootLength(p, start) ==
    LET server == FirstIn(p, Seps, start)
        share == FirstIn(p, Seps, server + 1)
    IN IF server > Len(p) THEN Len(p) ELSE Min({share, Len(p)})

RootLength(p) ==
    LET drive(i) == IF Sep(p, i + 2) THEN i + 2 ELSE i + 1
        isDrive(i) == i + 1 \in DOMAIN p /\ p[i + 1] = ":"
    IN CASE Sep(p, 1) /\ Sep(p, 2) /\ IsPrefix(Unc, p) -> UncRootLength(p, 7)
         [] Sep(p, 1) /\ Sep(p, 2) /\ ~IsPrefix(Unc, p) /\ IsPrefix(Device, p) ->
              IF isDrive(5) THEN drive(5) ELSE 4
         [] Sep(p, 1) /\ Sep(p, 2) /\ ~IsPrefix(Device, p) -> UncRootLength(p, 3)
         [] Sep(p, 1) /\ ~Sep(p, 2) -> 1
         [] OTHER -> IF isDrive(1) THEN drive(1) ELSE 0

(* Separators at the end go, but never those of the root.                     *)
Bare(p) ==
    LET r == RootLength(p)
    IN UpTo(p, Max({r} \union {i \in r..Len(p) : i > r /\ p[i] \notin Seps}))

FileName(p) == From(p, LastIn(p, Seps) + 1)

Parent(p) ==
    LET r == RootLength(p)
        b == Bare(p)
    IN IF Len(b) <= r THEN UpTo(p, r)
       ELSE Bare(UpTo(b, Max({r, LastIn(b, Seps)})))

Join(dir, name) ==
    LET n == From(name, Min({i \in 1..(Len(name) + 1) : ~Sep(name, i)}))
        d == Bare(dir)
    IN CASE dir = <<>> -> n
         [] dir # <<>> /\ n = <<>> -> dir
         [] OTHER -> (IF Sep(d, Len(d)) THEN d ELSE Append(d, "\\")) \o n

NormalizeSeparators(p) ==
    LET Put(out, c) ==
            CASE c \notin Seps -> Append(out, c)
              [] c \in Seps /\ out # <<>> /\ Last(out) = "\\" -> out
              [] OTHER -> Append(out, "\\")
    IN IF Sep(p, 1) /\ Sep(p, 2) THEN FoldLeft(Put, <<"\\", "\\">>, From(p, 3))
       ELSE FoldLeft(Put, <<>>, p)

(* fullPath: a device prefix is taken off, anything else goes through Windows, *)
(* which turns the separators; the paths of the program have no "." or "..".  *)
FullPath(p) ==
    CASE IsPrefix(Unc, p) -> <<"\\", "\\">> \o From(p, 7)
      [] ~IsPrefix(Unc, p) /\ IsPrefix(Device, p) -> From(p, 5)
      [] OTHER -> NormalizeSeparators(p)

NormalizeKey(p) == IF p = <<>> THEN <<>> ELSE Bare(FullPath(p))

-----------------------------------------------------------------------------
(* File names: "_HDR" is the suffix of our outputs, "M4V" a sidecar's         *)
(* extension, "7" a number.                                                   *)
Suffix == <<"_HDR">>
Mkv == <<".", "mkv">>
PartialMkv == <<".", "hdrhint-partial">> \o Mkv

ExtensionDot(n) == LET dot == LastIn(n, {"."}) IN IF dot <= 1 \/ n = <<".", ".">> THEN 0 ELSE dot
Stem(p) == LET n == FileName(p) IN IF ExtensionDot(n) = 0 THEN n ELSE UpTo(n, ExtensionDot(n) - 1)
Extension(p) == LET n == FileName(p) IN IF ExtensionDot(n) = 0 THEN <<>> ELSE From(n, ExtensionDot(n))

HintPathFor(source, folder) ==
    LET s == IF Stem(source) = <<>> THEN <<"output">> ELSE Stem(source)
    IN Join(IF folder = <<>> THEN Parent(source) ELSE folder,
            (IF EndsWith(s, Suffix) THEN s ELSE s \o Suffix) \o Mkv)

IsPartialOutput(name) == EndsWith(name, PartialMkv)
PartialPathFor(hint) ==
    (IF EndsWith(hint, Mkv) THEN UpTo(hint, Len(hint) - 2) ELSE hint) \o PartialMkv
IsOurOutput(name) ==
    /\ name # <<>> /\ ~IsPartialOutput(name)
    /\ Extension(name) = Mkv /\ EndsWith(Stem(name), Suffix)

(* stem.pid.tid.ext, taken apart from its end; the empty set when it is none. *)
ParseSidecar(name) ==
    LET dotExt == LastIn(name, {"."})
        a == UpTo(name, dotExt - 1)
        dotTid == LastIn(a, {"."})
        b == UpTo(a, dotTid - 1)
        dotPid == LastIn(b, {"."})
    IN IF /\ dotExt > 1 /\ From(name, dotExt + 1) = <<"M4V">>
          /\ dotTid > 1 /\ From(a, dotTid + 1) = <<"7">>
          /\ dotPid > 1 /\ From(b, dotPid + 1) = <<"7">>
       THEN {[stem |-> UpTo(b, dotPid - 1), pid |-> "7", tid |-> "7"]} ELSE {}

-----------------------------------------------------------------------------
(* Command lines.                                                             *)

Quote == "\""
Slash == "\\"
Slashes(n) == [i \in 1..n |-> Slash]

(* The backslashes before a quote are doubled, and one more is put before it; *)
(* those at the end are doubled because the closing quote follows.            *)
BugQuoteArgument(arg) ==
    LET Put(out, c) == IF c = Quote THEN out \o <<Slash, Quote>> ELSE Append(out, c)
    IN IF arg # <<>> /\ Range(arg) \intersect {" ", Quote} = {} THEN arg
       ELSE <<Quote>> \o FoldLeft(Put, <<>>, arg) \o <<Quote>>
QuoteArgument(arg) ==
    LET Put(s, c) ==
            CASE c = Slash -> [s EXCEPT !.held = @ + 1]
              [] c = Quote -> [out |-> s.out \o Slashes(2 * s.held + 1) \o <<Quote>>, held |-> 0]
              [] OTHER -> [out |-> s.out \o Slashes(s.held) \o <<c>>, held |-> 0]
        all == FoldLeft(Put, [out |-> <<>>, held |-> 0], arg)
    IN IF arg # <<>> /\ Range(arg) \intersect {" ", Quote} = {} THEN arg
       ELSE <<Quote>> \o all.out \o Slashes(2 * all.held) \o <<Quote>>

BuildCommandLine(args) == FoldLeft(LAMBDA line, arg : line \o <<" ">> \o QuoteArgument(arg), <<"exe">>, args)

(* How the runtime of the child takes the line apart.                         *)
Argv(line) ==
    LET Flush(s) == [s EXCEPT !.cur = @ \o Slashes(s.held), !.held = 0]
        Put(s, c) ==
            CASE c = Slash -> [s EXCEPT !.held = @ + 1, !.open = TRUE]
              [] c = Quote ->
                   LET half == [s EXCEPT !.cur = @ \o Slashes(s.held \div 2), !.held = 0, !.open = TRUE]
                   IN IF s.held % 2 = 1 THEN [half EXCEPT !.cur = Append(@, Quote)]
                      ELSE [half EXCEPT !.quoted = ~@]
              [] c = " " /\ ~s.quoted ->
                   IF s.open THEN [Flush(s) EXCEPT !.args = Append(@, Flush(s).cur), !.cur = <<>>, !.open = FALSE]
                   ELSE s
              [] OTHER -> [Flush(s) EXCEPT !.cur = Append(@, c), !.open = TRUE]
        end == Put(FoldLeft(Put, [args |-> <<>>, cur |-> <<>>, held |-> 0, open |-> FALSE, quoted |-> FALSE],
                            line), " ")
    IN Tail(end.args)

-----------------------------------------------------------------------------
Roots == {<<"c", ":", "\\">>, <<"c", ":", "/">>, <<"\\", "\\", "s", "\\", "h">>,
          Device \o <<"c", ":", "\\">>, Unc \o <<"s", "\\", "h">>}
Tokens == [path |-> {"\\", "/", "a"}, name |-> {".", "a", "_HDR", "mkv", "7"},
           arguments |-> {"\\", " ", "\"", "a", "next"}]

Init == kind \in DOMAIN Tokens /\ root \in (IF kind = "path" THEN Roots ELSE {<<>>}) /\ text = <<>>

(* The text grows; a path with a device prefix has single backslashes only.   *)
Grow(token) ==
    /\ Len(text) < MaxLen /\ token \in Tokens[kind]
    /\ token = "/" => ~IsPrefix(Device, root)
    /\ token = "\\" /\ IsPrefix(Device, root) =>
          text # <<>> /\ ~Sep(text, Len(text))
    /\ text' = Append(text, token) /\ UNCHANGED <<kind, root>>

Next == \E token \in UNION {Tokens[k] : k \in DOMAIN Tokens} : Grow(token)
Spec == Init /\ [][Next]_vars

-----------------------------------------------------------------------------
(* A folder that is watched and a file name it reports make the same key as  *)
(* the whole path another source names the file by, however the two are       *)
(* spelled; and the parent of that key is the key of the folder: two sources  *)
(* never make two jobs of one file (PathUtil.cpp:133-261).                    *)
OneKeyPerFile ==
    (kind = "path" /\ text # <<>> /\ ~Sep(text, Len(text))) =>
        LET p == root \o (IF Sep(root, Len(root)) \/ Sep(text, 1) THEN text ELSE <<"\\">> \o text)
        IN /\ NormalizeKey(Join(Parent(p), FileName(p))) = NormalizeKey(p)
           /\ Parent(NormalizeKey(p)) = NormalizeKey(Parent(p))

(* The names we make are known as ours again, whole and partial, and are made *)
(* only once from their own result; the sidecars of an output lead back to    *)
(* its stem whatever dots it has (PathUtil.cpp:322-337, 374-473).             *)
OwnFilesAreKnown ==
    (kind = "name" /\ text # <<>>) =>
        LET hint == HintPathFor(text, <<>>)
            sidecar == Stem(text) \o <<".", "7", ".", "7", ".", "M4V">>
        IN /\ IsOurOutput(hint) /\ HintPathFor(hint, <<>>) = hint
           /\ IsPartialOutput(PartialPathFor(hint)) /\ ~IsOurOutput(PartialPathFor(hint))
           /\ ParseSidecar(sidecar) = {[stem |-> Stem(text), pid |-> "7", tid |-> "7"]}

(* The arguments a child gets are the arguments it was given, whatever spaces,*)
(* quotes and backslashes they have (Process.cpp:267-320).                    *)
ArgumentsArrive ==
    kind = "arguments" =>
        LET args == FoldLeft(LAMBDA all, c : IF c = "next" THEN Append(all, <<>>)
                                             ELSE [all EXCEPT ![Len(all)] = Append(@, c)],
                             <<<<>>>>, text)
        IN Argv(BuildCommandLine(args)) = args
=============================================================================
