------------------------------- MODULE Paths -------------------------------
(***************************************************************************)
(* Paths: the lexical rules of nitr.path (crates/nitr-std/src/path/mod.rs) *)
(* and the containment of static files and uploads (crates/nitr-http/src/  *)
(* safe_path.rs, static_files.rs, multipart/upload.rs), with the laws their*)
(* fuzz targets assert (fuzz/fuzz_targets/path_lexical.rs,                 *)
(* static_resolve.rs, upload_resolve.rs).                                  *)
(*                                                                         *)
(* A text is a sequence of characters of a small alphabet, and a relative  *)
(* path a sequence of segments; a behaviour types one more of either, so   *)
(* the states are all the inputs up to a bound.                            *)
(***************************************************************************)
EXTENDS Integers, Sequences, SequencesExt

CONSTANTS
  MaxText,       \* bound: characters
  MaxSegments,   \* bound: segments
  FileNames,     \* the names that do not begin with a dot
  Root,          \* the canonical path of the mount, or of the upload directory
  Dirs,          \* canonical paths of the directories
  Files,         \* and of the files; everything else does not exist
  Links,         \* symbolic links and what they resolve to
  Compressed     \* the names that have a precompressed sidecar's name beside them

Nowhere == <<"?">>
NoName == ""     \* what a doubled separator leaves between
WithNul == "nul" \* stands for a name with a NUL byte in it
Buried == "x\\.env"             \* one name to this system, two words to the dotfile rule
Disguised == ".well-known\\x"

\* A file system, as build_tree() of the fuzz targets makes one: what is there
\* is in a directory, and a link resolves to what is there or to nothing.
ASSUME PathsConstants ==
  /\ MaxText \in Nat /\ MaxSegments \in Nat
  /\ FileNames \cap {NoName, "?", ".", "..", ".env", ".well-known", WithNul, Buried, Disguised} = {}
  /\ Root \in Dirs /\ Dirs \cap (Files \cup DOMAIN Links) = {} /\ Nowhere \notin Dirs \cup Files
  /\ \A p \in Dirs \cup Files \cup DOMAIN Links : p \in Seq(ToSet(p)) /\ (p # <<>> => Front(p) \in Dirs)
  /\ \A p \in DOMAIN Links : Links[p] \in Dirs \cup Files \cup {Nowhere}

VARIABLES
  text,          \* what a Lua handler was given
  rel,           \* the segments of a path relative to a root
  rooted,        \* whether that path begins with a separator
  typing         \* whether anything was given

pathVars == <<text, rel, rooted, typing>>

Alphabet == {"/", "\\", "C", ":", ".", "a"}
Letters == {"C", "a"}
NoText == <<"none">>
Dot == <<".">>
DotDot == <<".", ".">>

\* str::split
SplitAt(seps, s) ==
  FoldLeft(LAMBDA acc, ch : IF ch \in seps THEN Append(acc, <<>>)
                            ELSE [acc EXCEPT ![Len(acc)] = Append(@, ch)], <<<<>>>>, s)

\* [&str]::join("/")
JoinWith(parts) ==
  FoldLeft(LAMBDA acc, p : IF acc = NoText THEN p ELSE acc \o <<"/">> \o p, NoText, parts)
Joined(parts) == IF parts = <<>> THEN <<>> ELSE JoinWith(parts)

-----------------------------------------------------------------------------
(* nitr.path *)

HasDrive(s) == Len(s) >= 2 /\ s[1] \in Letters /\ s[2] = ":"

IsWindowsStyle(s) == Contains(s, "\\") \/ (~Contains(s, "/") /\ HasDrive(s))

Restyle(s, windows) == IF windows THEN ReplaceAll(s, "/", "\\") ELSE s

RootLen(s) ==
  CASE Len(s) >= 2 /\ s[1] = "/" /\ s[2] = "/" -> 2
    [] HasDrive(s) -> IF Len(s) > 2 /\ s[3] = "/" THEN 3 ELSE 2
    [] OTHER -> IF s # <<>> /\ s[1] = "/" THEN 1 ELSE 0

\* split_root()
SplitPosix(c) == [root |-> SubSeq(c, 1, RootLen(c)), rest |-> SubSeq(c, RootLen(c) + 1, Len(c))]
SplitRoot(s) == SplitPosix(ReplaceAll(s, "\\", "/"))

\* components(): duplicate separators collapse, `.` stays only in front.
Components(rest) ==
  FoldLeft(LAMBDA acc, seg : IF seg = <<>> \/ (seg = Dot /\ acc # <<>>) THEN acc ELSE Append(acc, seg),
           <<>>, SplitAt({"/"}, rest))

\* root_is_anchor(): a bare drive is none.
RootIsAnchor(root) == root # <<>> /\ ~(Len(root) = 2 /\ root[2] = ":")

IsAbsolute(s) == RootIsAnchor(SplitRoot(s).root)

FileName(parts) == IF parts # <<>> /\ Last(parts) \notin {Dot, DotDot} THEN Last(parts) ELSE <<>>
Basename(s) == FileName(Components(SplitRoot(s).rest))

ParentOf(root, parts) ==
  IF parts = <<>> THEN IF root = <<>> THEN Dot ELSE root
  ELSE IF root = <<>> /\ Len(parts) = 1 THEN Dot ELSE root \o Joined(Front(parts))
ParentIn(r) == ParentOf(r.root, Components(r.rest))
Dirname(s) == Restyle(ParentIn(SplitRoot(s)), IsWindowsStyle(s))

\* extension(): at the last dot that is not the first character.
AfterLastDot(parts) == IF Len(parts) > 2 \/ (Len(parts) = 2 /\ parts[1] # <<>>) THEN Last(parts) ELSE NoText
Extension(s) == AfterLastDot(SplitAt({"."}, Basename(s)))

TrimLeading(s) ==
  LET rest == SelectInSeq(s, LAMBDA ch : ch # "/")
  IN  IF rest = 0 THEN <<>> ELSE SubSeq(s, rest, Len(s))

\* Mutant: a bare drive gets a separator like any other base.
JoinStep_always(acc, segment) ==
  LET c == ReplaceAll(segment, "\\", "/")
  IN  IF segment = <<>> THEN acc
      ELSE IF acc = <<>> THEN c
      ELSE acc \o (IF Last(acc) = "/" THEN <<>> ELSE <<"/">>) \o TrimLeading(c)

JoinStep(acc, segment) ==
  LET c == ReplaceAll(segment, "\\", "/")
      bare == Len(acc) = 2 /\ HasDrive(acc)
  IN  IF segment = <<>> THEN acc
      ELSE IF acc = <<>> THEN c
      ELSE acc \o (IF Last(acc) = "/" \/ bare THEN <<>> ELSE <<"/">>) \o TrimLeading(c)

\* join(): in the style of the first segment that is not empty.
PathJoin(segments) ==
  LET given == SelectSeq(segments, LAMBDA s : s # <<>>)
  IN  Restyle(FoldLeft(JoinStep, <<>>, segments), given # <<>> /\ IsWindowsStyle(Head(given)))

\* The loop of normalize(): `..` never climbs above an anchor.
ResolveDots(parts, anchored) ==
  FoldLeft(LAMBDA acc, seg :
             CASE seg = Dot -> acc
               [] seg = DotDot -> IF acc # <<>> /\ Last(acc) # DotDot THEN Front(acc)
                                  ELSE IF anchored THEN acc ELSE Append(acc, DotDot)
               [] OTHER -> Append(acc, seg), <<>>, parts)

\* A relative result that would read as rooted is pinned with `./`.
Pinned(root, out) ==
  CASE root # <<>> -> root \o out
    [] root = <<>> /\ out = <<>> -> Dot
    [] OTHER -> IF SplitRoot(out).root # <<>> THEN <<".", "/">> \o out ELSE out
Resolved(r) == Pinned(r.root, Joined(ResolveDots(Components(r.rest), RootIsAnchor(r.root))))

\* normalize()
Normalize(s) == Restyle(Resolved(SplitRoot(s)), IsWindowsStyle(s))

-----------------------------------------------------------------------------
(* What the fuzz target path_lexical asserts *)

Posix(s) == ReplaceAll(s, "\\", "/")
Bases == {<<"/", "a", "/", "C">>, <<"C", ":", "\\", "a">>, <<"\\", "\\", "a">>}
BareDrive == <<"C", ":">>

Single(rest) == \A i \in 1..(Len(rest) - 1) : SubSeq(rest, i, i + 1) # <<"/", "/">>

\* check(): what normalize() promises for one input.
NormalOf(s, n) ==
  /\ IsAbsolute(n) => DotDot \notin ToSet(SplitAt({"/"}, Posix(n)))
  /\ Normalize(n) = n
  /\ SplitRoot(n).root = SplitRoot(s).root
  /\ IsAbsolute(n) = IsAbsolute(s)
  /\ Contains(s, "\\") \/ ~Contains(n, "\\")
  /\ ~IsWindowsStyle(s) \/ ~Contains(n, "/")
  /\ s = <<>> \/ Len(n) <= Len(s)
  /\ Single(SplitRoot(n).rest)
CheckNormalized(s) == NormalOf(s, Normalize(s))

\* check_naming(): what basename() and dirname() promise.
NamesUnder(mount, base, under) == Basename(under) = base /\ Posix(Dirname(under)) = Posix(mount)
NamesSplit(s, base, dir) ==
  /\ ToSet(base) \cap {"/", "\\"} = {} /\ base \notin {Dot, DotDot} /\ ~IsAbsolute(base)
  /\ dir # <<>> /\ SplitRoot(dir).root = SplitRoot(s).root
  /\ s = <<>> \/ Len(dir) <= Len(s)
  /\ base # <<>> =>
       /\ Posix(Normalize(PathJoin(<<dir, base>>))) = Posix(Normalize(s))
       /\ \A mount \in Bases : NamesUnder(mount, base, PathJoin(<<mount, base>>))
CheckNaming(s) == NamesSplit(s, Basename(s), Dirname(s))

\* A parent walk comes to rest.
AtRest(dir) == Dirname(dir) = dir
ParentWalkEnds(s) == AtRest(FoldLeft(LAMBDA acc, i : Dirname(acc), Dirname(s), [i \in 1..(Len(s) + 2) |-> i]))

\* The mount pattern: untrusted text under a trusted base, or a bare drive.  The
\* base stays in front, with its root; what has no `..` is also still under the
\* base once it is normalized.
Climbs(s) == DotDot \in ToSet(SplitAt({"/"}, Posix(s)))
StaysUnder(r, base) == r.root = base.root /\ IsPrefix(Components(base.rest), Components(r.rest))
Mounted(s, base, under) ==
  /\ CheckNormalized(under) /\ Normalize(under) # <<>> /\ (IsAbsolute(Normalize(under)) <=> base # BareDrive)
  /\ StaysUnder(SplitRoot(under), SplitRoot(base))
  /\ ~Climbs(s) => StaysUnder(SplitRoot(Normalize(under)), SplitRoot(base))
CheckJoined(s) == \A base \in Bases \cup {BareDrive} : Mounted(s, base, PathJoin(<<base, s>>))

-----------------------------------------------------------------------------
(* Containment: a tree with links, as the fuzz targets build it *)

\* Segments of a path, by what matters of their names.
Segments == {NoName, ".", "..", ".env", ".well-known", WithNul, Buried, Disguised} \cup FileNames
Hidden == {"..", ".env", ".well-known"}

\* What the dotfile rule splits a segment into: it takes a backslash for a
\* separator too, where the file system sees one name.
WordsIn(name) ==
  CASE name = Buried -> {"x", ".env"}
    [] name = Disguised -> {".well-known", "x"}
    [] OTHER -> {name}
WordsAmong(parts) == UNION {WordsIn(name) : name \in ToSet(parts)}

\* canonicalize() by the kernel: every link on the way is followed.
StepInto(at, name) ==
  LET next == Append(at, name) IN
  IF at \notin Dirs THEN Nowhere
  ELSE IF next \in DOMAIN Links THEN Links[next]
  ELSE IF next \in Dirs \cup Files THEN next ELSE Nowhere
KernelWalk(path) ==
  LET at[n \in 0..Len(path)] == IF n = 0 THEN <<>> ELSE StepInto(at[n - 1], path[n])
  IN  at
Canonical(path) == KernelWalk(path)[Len(path)]

Within(root, path) == path # Nowhere /\ IsPrefix(root, path)

\* The components that name something: empty and `.` are skipped.
Kept(parts) ==
  LET names[n \in 0..Len(parts)] ==
        IF n = 0 THEN <<>>
        ELSE IF parts[n] \in {NoName, "."} THEN names[n - 1] ELSE Append(names[n - 1], parts[n])
  IN  names[Len(parts)]

\* Mutant: `..` is resolved instead of refused.
SafeJoin_normalizing(root, parts, absolute) ==
  IF absolute THEN Nowhere
  ELSE FoldLeft(LAMBDA acc, p : IF p \in {NoName, "."} THEN acc
                                ELSE IF p = ".." THEN (IF acc = <<>> THEN acc ELSE Front(acc))
                                ELSE Append(acc, p), root, parts)

\* safe_join(): `..`, a NUL and a rooted path are refused, empty and `.` skipped.
SafeJoin(root, parts, absolute) ==
  IF absolute \/ {"..", WithNul} \cap ToSet(parts) # {} THEN Nowhere
  ELSE root \o Kept(parts)

\* is_well_known()
IsWellKnown(parts) ==
  /\ parts # <<>> /\ Head(parts) \in {".well-known", Disguised}
  /\ WordsAmong(Tail(parts)) \cap (Hidden \cup {"."}) = {}

\* refused_as_dotfile(): dotfiles is the mount's switch.
RefusedAsDotfile(parts, dotfiles) == WordsAmong(parts) \cap Hidden # {} /\ ~dotfiles /\ ~IsWellKnown(parts)

\* Leading separators are no segments: trim_start_matches('/').
TrimSegments(parts) ==
  LET first == SelectInSeq(parts, LAMBDA p : p # NoName)
  IN  IF first = 0 THEN <<>> ELSE SubSeq(parts, first, Len(parts))

\* locate(): a directory is its index.html, and the real file is in the mount.
InMount(file) == IF file \in Files /\ Within(Root, file) THEN file ELSE Nowhere
IndexOf(path, found) == IF found \in Dirs THEN Canonical(Append(path, "index.html")) ELSE found
LocateAt(path) == IF path = Nowhere THEN Nowhere ELSE InMount(IndexOf(path, Canonical(path)))
LocateFile(parts) == LocateAt(SafeJoin(Root, TrimSegments(parts), FALSE))

\* locate_in(), and with it resolve_for_fuzzing().
LocateIn(parts, dotfiles) ==
  IF RefusedAsDotfile(TrimSegments(parts), dotfiles) THEN Nowhere ELSE LocateFile(parts)

\* sidecar_for(): the file beside it that was compressed beforehand, wherever a
\* link takes that name: what locate() asked of the file is not asked again.
SidecarPath(file) == Append(Front(file), Compressed[Last(file)])
SidecarFor(file) == IF file # Nowhere /\ Last(file) \in DOMAIN Compressed THEN Canonical(SidecarPath(file)) ELSE Nowhere
Chosen(file, sidecar) == IF sidecar \in Files THEN sidecar ELSE file

\* locate_for(), for a client that takes the coding: the bytes it is sent.
LocateFor(parts, dotfiles) == Chosen(LocateIn(parts, dotfiles), SidecarFor(LocateIn(parts, dotfiles)))

\* resolve_upload_path(): the parent is made canonical, for the file is yet to
\* be; the last component is not followed.
UploadTarget(target) == IF target \in DOMAIN Links \cup Dirs THEN Nowhere ELSE target
UploadIn(parent, name) ==
  IF parent \in Dirs /\ Within(Root, parent) THEN UploadTarget(Append(parent, name)) ELSE Nowhere
UploadAt(joined) == IF joined \in {Nowhere, Root} THEN Nowhere ELSE UploadIn(Canonical(Front(joined)), Last(joined))
ResolveUpload(parts, absolute) == UploadAt(SafeJoin(Root, parts, absolute))

\* safe_filename(): the last segment, invisible characters and outer dots off.
WithoutOuterDots(name) ==
  IF ToSet(name) \subseteq {"."} THEN <<"u", "p", "l", "o", "a", "d">>
  ELSE SubSeq(name, SelectInSeq(name, LAMBDA ch : ch # "."), SelectLastInSeq(name, LAMBDA ch : ch # "."))
LastSegment(s) == SubSeq(s, SelectLastInSeq(s, LAMBDA ch : ch \in {"/", "\\"}) + 1, Len(s))
SafeFilename(s) == WithoutOuterDots(LastSegment(s))

\* oracle() of static_resolve: skip empty and `.`, refuse `..`, follow a
\* directory to its index, require a file inside the canonical mount.
\* (No system call takes a NUL.)
IndexUnder(path) == IF Canonical(path) \in Dirs THEN Append(path, "index.html") ELSE path
ResolveOracle(parts) ==
  IF {"..", WithNul} \cap ToSet(parts) # {} THEN Nowhere
  ELSE InMount(Canonical(IndexUnder(Root \o Kept(parts))))

-----------------------------------------------------------------------------
(* Inputs *)

Begin == ~typing /\ typing' = TRUE /\ UNCHANGED <<text, rel, rooted>>

TypeText ==
  /\ typing /\ Len(text) < MaxText /\ rel = <<>>
  /\ \E ch \in Alphabet : text' = Append(text, ch)
  /\ UNCHANGED <<rel, rooted, typing>>

TypeSegment ==
  /\ typing /\ Len(rel) < MaxSegments /\ text = <<>>
  /\ \E seg \in Segments : rel' = Append(rel, seg)
  /\ rooted' \in BOOLEAN
  /\ UNCHANGED <<text, typing>>

PathsInit == text = <<>> /\ rel = <<>> /\ rooted = FALSE /\ typing = FALSE
PathsNext == Begin \/ TypeText \/ TypeSegment
PathsSpec == PathsInit /\ [][PathsNext]_pathVars

-----------------------------------------------------------------------------
(* Properties *)

\* Every law path_lexical states: normalize() is idempotent, keeps the root and
\* the style, leaves no `..` in an absolute path; basename() and dirname() split
\* a path; a join keeps the base and its root in front and promotes no bare
\* drive; an extension is a proper part of a name.  A joined path may still climb
\* out of its base by `..`, though never out of the root: only a text without
\* one stays under the base when normalized.  (normalize, join, basename, dirname)
PathLaws == rel = <<>> =>
  /\ CheckNormalized(text) /\ CheckNaming(text) /\ CheckJoined(text) /\ ParentWalkEnds(text)
  /\ Extension(text) # NoText => Len(Extension(text)) + 1 < Len(Basename(text))

\* The links the kernel followed on a path, and whether one of them led to a
\* place whose i-th component is this.
Followed(path) ==
  LET at == KernelWalk(path)
  IN  {Append(at[n - 1], path[n]) : n \in 1..Len(path)} \cap DOMAIN Links
LedTo(path, i, name) == \E p \in Followed(path) : i \in DOMAIN Links[p] /\ Links[p][i] = name

Locates(got, dotfiles) ==
  /\ got # Nowhere \/ dotfiles \/ WordsAmong(rel) \cap Hidden = {} => got = ResolveOracle(rel)
  /\ got # Nowhere => got \in Files /\ Within(Root, got)
  /\ got # Nowhere /\ ~dotfiles =>
       \A i \in (Len(Root) + 1)..Len(got) :
         got[i] = ".env" => LedTo(IndexUnder(Root \o Kept(rel)), i, ".env")

\* What is sent is the file that was located, or the sidecar beside it, which is
\* in the mount too unless the sidecar is itself a link.
Sends(file, sent) ==
  sent # file =>
    /\ sent \in Files
    /\ (sent = SidecarPath(file) /\ Within(Root, sent)) \/ SidecarPath(file) \in DOMAIN Links
Lands(target) ==
  target # Nowhere =>
    /\ Within(Root, target) /\ target # Root
    /\ Canonical(Front(target)) = Front(target)
    /\ target \notin DOMAIN Links \cup Dirs
IsName(name) == name # <<>> /\ name \notin {Dot, DotDot} /\ ToSet(name) \cap {"/", "\\"} = {}

\* A static path gives the file the oracle finds and never one outside the mount;
\* a hidden one (.env) only where the mount serves them, or when a link on that
\* very path led there.  A precompressed sidecar is sent from beside that file,
\* and from outside the mount only if it is a link: sidecar_for() does not check
\* where one leads.  An upload lands in the upload root, never on a link or a
\* directory, and a safe file name is a name.
\* (locate, sidecar_for, refused_as_dotfile, resolve_upload_path, safe_filename)
ContainmentLaws ==
  /\ \A dotfiles \in BOOLEAN :
       /\ Locates(LocateIn(rel, dotfiles), dotfiles)
       /\ Sends(LocateIn(rel, dotfiles), LocateFor(rel, dotfiles))
  /\ Lands(ResolveUpload(rel, rooted))
  /\ IsName(SafeFilename(text))

\* The path builtins keep the laws their fuzz target states, and no name, link
\* or `..` leads out of the directory it is joined to, but for the linked sidecar
\* that Sends names.
PathsStayInside == typing => PathLaws /\ ContainmentLaws
=============================================================================
