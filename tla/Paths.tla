------------------------------- MODULE Paths -------------------------------
(***************************************************************************)
(* Path::components, the iterator that takes a path apart from both ends,  *)
(* and PathBuf, which edits the text of a path with its help               *)
(* (src/path.rs, src/sys/unix/path.rs, src/sys/windows/path.rs).           *)
(* A path is a sequence of bytes behind one of four prefixes: none (Unix), *)
(* and on Windows C:, \\s\h and \\?\x, of which the last, a verbatim one,  *)
(* only knows the backslash.  Each call is a step.                         *)
(***************************************************************************)
EXTENDS Integers, Sequences, SequencesExt

CONSTANTS
  MaxBody,      \* bound: bytes behind the prefix
  MaxPush       \* bound: bytes of a path that is pushed

ASSUME PathAssumption == MaxBody \in Nat /\ MaxPush \in Nat

VARIABLES
  kind,          \* which prefix parse_prefix finds
  bytes,         \* the text of the PathBuf
  names,         \* the components it should have, by what was done to it
  comps,         \* the Components over it
  fromFront,     \* what next has returned
  fromBack       \* what next_back has returned

pathVars == <<kind, bytes, names, comps, fromFront, fromBack>>

Kinds == {"unix", "disk", "unc", "verbatim"}
PrefixOf(k) == CASE k = "unix" -> <<>>
                 [] k = "disk" -> <<"C", ":">>
                 [] k = "unc" -> <<"\\", "\\", "s", "\\", "h">>
                 [] k = "verbatim" -> <<"\\", "\\", "?", "\\", "x">>
MainSep(k) == IF k = "unix" THEN "/" ELSE "\\"

IsSepByte(k, b) == b = "/" \/ (k # "unix" /\ b = "\\")
IsSep(k, b) == IF k = "verbatim" THEN b = "\\" ELSE IsSepByte(k, b)
HasPhysicalRoot(k, s) ==
  /\ Len(s) > Len(PrefixOf(k))
  /\ IsSepByte(k, s[Len(PrefixOf(k)) + 1])

From(s, n) == SubSeq(s, n + 1, Len(s))
UpTo(s, n) == SubSeq(s, 1, n)

-----------------------------------------------------------------------------
(* Components *)

\* The values of State, in their order.
AtPrefix == 0
AtStartDir == 1
AtBody == 2
AtDone == 3

Component(what, raw) == [what |-> what, raw |-> raw]
RootDir == Component("RootDir", <<>>)
CurDir == Component("CurDir", <<>>)
Nothing == Component("None", <<>>)
Panic == Component("panic", <<>>)

Components(k, s) ==
  [kind |-> k, path |-> s, root |-> HasPhysicalRoot(k, s),
   front |-> AtPrefix, back |-> AtBody]

PrefixLen(c) == Len(PrefixOf(c.kind))
ImplicitRoot(c) == c.kind \in {"unc", "verbatim"}
Finished(c) == c.front = AtDone \/ c.back = AtDone \/ c.front > c.back

\* The slice behind the prefix panics when the prefix has been consumed.
IncludeCurDirPanics(c) ==
  ~c.root /\ ~ImplicitRoot(c) /\ Len(c.path) < PrefixLen(c)
IncludeCurDir(c) ==
  LET s == From(c.path, PrefixLen(c))
  IN  /\ ~c.root /\ ~ImplicitRoot(c)
      /\ s # <<>> /\ s[1] = "." /\ (Len(s) > 1 => IsSep(c.kind, s[2]))

LenBeforeBody(c) ==
  (IF c.front = AtPrefix THEN PrefixLen(c) ELSE 0)
  + (IF c.front <= AtStartDir /\ (c.root \/ IncludeCurDir(c)) THEN 1 ELSE 0)

ParseSingleComponent(k, s) ==
  IF s = <<".">> THEN IF k = "verbatim" THEN CurDir ELSE Nothing
  ELSE IF s = <<".", ".">> THEN Component("ParentDir", <<>>)
  ELSE IF s = <<>> THEN Nothing
  ELSE Component("Normal", s)

Seps(c, s) == {i \in DOMAIN s : IsSep(c.kind, s[i])}

\* The bytes that the first component and its separator take, and the component.
ParseNext(c) ==
  LET seps == Seps(c, c.path)
      n == IF seps = {} THEN Len(c.path) ELSE Min(seps)
  IN  [size |-> n,
       comp |-> ParseSingleComponent(c.kind, UpTo(c.path, IF seps = {} THEN n ELSE n - 1))]

\* The same from the other end.  Mutant: it looks at the whole of the path.
BodyStart_Mutant(c) == 0
BodyStart(c) == LenBeforeBody(c)

ParseNextBack(c) ==
  LET body == From(c.path, BodyStart(c))
      seps == Seps(c, body)
      last == IF seps = {} THEN 0 ELSE Max(seps)
  IN  [size |-> Len(body) - last + (IF seps = {} THEN 0 ELSE 1),
       comp |-> ParseSingleComponent(c.kind, From(body, last))]

DropFront(c, n) == [c EXCEPT !.path = From(@, n)]
DropBack(c, n) == [c EXCEPT !.path = UpTo(@, Len(@) - n)]
Gives(c, comp) == [c |-> c, comp |-> comp]

\* What is at StartDir: the root or the dot that a path may begin with.
StartDir(c) ==
  IF c.root THEN [size |-> 1, comp |-> RootDir]
  ELSE IF c.kind # "unix"
  THEN [size |-> 0, comp |-> IF c.kind = "unc" THEN RootDir ELSE Nothing]
  ELSE IF IncludeCurDir(c) THEN [size |-> 1, comp |-> CurDir]
  ELSE [size |-> 0, comp |-> Nothing]

\* Components::next.
RECURSIVE NextOf(_)
NextOf(c) ==
  LET prefix == UpTo(c.path, PrefixLen(c))
      start == StartDir(c)
      body == ParseNext(c)
      startDone == DropFront([c EXCEPT !.front = AtBody], start.size)
      bodyDone == DropFront(c, body.size)
  IN  IF Finished(c) THEN Gives(c, Nothing)
      ELSE IF c.front = AtPrefix /\ PrefixLen(c) > 0
      THEN Gives(DropFront([c EXCEPT !.front = AtStartDir], PrefixLen(c)),
                 Component("Prefix", prefix))
      ELSE IF c.front = AtPrefix THEN NextOf([c EXCEPT !.front = AtStartDir])
      ELSE IF c.front = AtStartDir
      THEN IF start.comp = Nothing THEN NextOf(startDone) ELSE Gives(startDone, start.comp)
      ELSE IF c.path = <<>> THEN NextOf([c EXCEPT !.front = AtDone])
      ELSE IF body.comp = Nothing THEN NextOf(bodyDone) ELSE Gives(bodyDone, body.comp)

\* Components::next_back.
RECURSIVE NextBackOf(_)
NextBackOf(c) ==
  LET start == StartDir(c)
      body == ParseNextBack(c)
      startDone == DropBack([c EXCEPT !.back = AtPrefix], start.size)
      bodyDone == DropBack(c, body.size)
  IN  IF Finished(c) THEN Gives(c, Nothing)
      ELSE IF c.back = AtBody /\ c.front <= AtStartDir /\ IncludeCurDirPanics(c)
      THEN Gives([c EXCEPT !.back = AtDone], Panic)
      ELSE IF c.back = AtBody /\ Len(c.path) > LenBeforeBody(c)
      THEN IF body.comp = Nothing THEN NextBackOf(bodyDone) ELSE Gives(bodyDone, body.comp)
      ELSE IF c.back = AtBody THEN NextBackOf([c EXCEPT !.back = AtStartDir])
      ELSE IF c.back = AtStartDir
      THEN IF start.comp = Nothing THEN NextBackOf(startDone)
           ELSE Gives(startDone, start.comp)
      ELSE Gives([c EXCEPT !.back = AtDone],
                 IF PrefixLen(c) > 0 THEN Component("Prefix", c.path) ELSE Nothing)

\* as_path: what is left, without the separators and dots at its ends.
RECURSIVE TrimLeft(_)
TrimLeft(c) ==
  IF c.path # <<>> /\ ParseNext(c).comp = Nothing
  THEN TrimLeft(DropFront(c, ParseNext(c).size)) ELSE c

RECURSIVE TrimRight(_)
TrimRight(c) ==
  IF Len(c.path) > LenBeforeBody(c) /\ ParseNextBack(c).comp = Nothing
  THEN TrimRight(DropBack(c, ParseNextBack(c).size)) ELSE c

AsPath(c) ==
  LET left == IF c.front = AtBody THEN TrimLeft(c) ELSE c
  IN  (IF c.back = AtBody THEN TrimRight(left) ELSE left).path

-----------------------------------------------------------------------------
(* PathBuf *)

ParentAndName(k, s) ==
  LET r == NextBackOf(Components(k, s))
  IN  [has |-> r.comp.what \in {"Normal", "CurDir", "ParentDir"},
       parent |-> AsPath(r.c), named |-> r.comp.what = "Normal"]

Popped(k, s) == IF ParentAndName(k, s).has THEN ParentAndName(k, s).parent ELSE s

HasRoot(k, q) == q # <<>> /\ IsSepByte(k, Head(q))

\* _push: a path with a root replaces all but the prefix; a separator is put in
\* between otherwise, except behind a lone drive.
Pushed(k, s, q) ==
  LET needSep == s # <<>> /\ ~IsSepByte(k, Last(s)) /\ ~(k = "disk" /\ s = PrefixOf(k))
  IN  IF HasRoot(k, q) THEN PrefixOf(k) \o q
      ELSE IF needSep THEN Append(s, MainSep(k)) \o q ELSE s \o q

-----------------------------------------------------------------------------
(* What a path means: split at every separator, without empty pieces and dots *)

Pieces(k, s) ==
  LET cuts == SetToSortSeq({0, Len(s) + 1} \cup {i \in DOMAIN s : IsSep(k, s[i])}, <)
  IN  [n \in 1..Len(cuts) - 1 |-> SubSeq(s, cuts[n] + 1, cuts[n + 1] - 1)]

NamesIn(k, s) ==
  LET ignored == IF k = "verbatim" THEN {<<>>} ELSE {<<>>, <<".">>}
      kept == SelectSeq(Pieces(k, s), LAMBDA p : p \notin ignored)
  IN  [n \in DOMAIN kept |-> ParseSingleComponent(k, kept[n])]

Meaning(k, s) ==
  LET body == From(s, Len(PrefixOf(k)))
  IN  (IF k = "unix" THEN <<>> ELSE <<Component("Prefix", PrefixOf(k))>>)
      \o (IF HasPhysicalRoot(k, s) \/ k = "unc" THEN <<RootDir>> ELSE <<>>)
      \o (IF k = "unix" /\ Pieces(k, body)[1] = <<".">> THEN <<CurDir>> ELSE <<>>)
      \o NamesIn(k, body)

HasFileName(ns) == ns # <<>> /\ Last(ns).what = "Normal"
\* file_name is None for these, parent is not.
EndsInDots(ns) == ns # <<>> /\ Last(ns).what \in {"CurDir", "ParentDir"}

\* pop "does nothing if self.file_name is None" by its doc, which the code does not
\* keep to for the dots at the end: it takes them away.
PopNames(ns) == IF HasFileName(ns) \/ EndsInDots(ns) THEN Front(ns) ELSE ns

PushNames(k, s, ns, q) ==
  IF HasRoot(k, q) THEN Meaning(k, PrefixOf(k) \o q)
  ELSE IF s = <<>> THEN Meaning(k, q)
  ELSE ns \o NamesIn(k, q)

-----------------------------------------------------------------------------
(* The calls *)

Texts(k, n) ==
  UNION {[1..m -> {"/", ".", "a"} \cup (IF k = "unix" THEN {} ELSE {"\\"})] : m \in 0..n}

\* The longer prefixes end at a separator or with the path.
Bodies(k) ==
  {b \in Texts(k, MaxBody) : k \in {"unc", "verbatim"} /\ b # <<>> => IsSep(k, b[1])}

InitPath ==
  /\ kind \in Kinds
  /\ \E b \in Bodies(kind) : bytes = PrefixOf(kind) \o b
  /\ names = Meaning(kind, bytes) /\ comps = Components(kind, bytes)
  /\ fromFront = <<>> /\ fromBack = <<>>

NextFront ==
  LET r == NextOf(comps)
  IN  /\ ~Finished(comps) /\ comps' = r.c
      /\ fromFront' = IF r.comp = Nothing THEN fromFront ELSE Append(fromFront, r.comp)
      /\ UNCHANGED <<kind, bytes, names, fromBack>>

NextBack ==
  LET r == NextBackOf(comps)
  IN  /\ ~Finished(comps) /\ comps' = r.c
      /\ fromBack' = IF r.comp = Nothing THEN fromBack ELSE Append(fromBack, r.comp)
      /\ UNCHANGED <<kind, bytes, names, fromFront>>

\* The text changes, and a new iteration may begin.
Edit(s, ns) ==
  /\ kind # "verbatim" /\ Len(s) <= Len(PrefixOf(kind)) + MaxBody
  /\ bytes' = s /\ names' = ns /\ comps' = Components(kind, s)
  /\ fromFront' = <<>> /\ fromBack' = <<>> /\ UNCHANGED kind

PopName == Edit(Popped(kind, bytes), PopNames(names))

PushPath(q) == Edit(Pushed(kind, bytes, q), PushNames(kind, bytes, names, q))

SetFileName(q) ==
  LET named == ParentAndName(kind, bytes).named
      s == IF named THEN Popped(kind, bytes) ELSE bytes
      ns == IF HasFileName(names) THEN PopNames(names) ELSE names
  IN  Edit(Pushed(kind, s, q), PushNames(kind, s, ns, q))

NextPath ==
  \/ NextFront \/ NextBack \/ PopName
  \/ \E q \in Texts(kind, MaxPush) : PushPath(q) \/ SetFileName(q)

-----------------------------------------------------------------------------
\* Taking a path apart, in any order of next and next_back, gives the components it
\* means, each once and in order, with no panic; what as_path says is left means
\* the ones that were not returned; and push, pop and set_file_name, which work on the
\* text with the help of this iterator, do to the components what they do to a list;
\* pop answers true and takes the last one away exactly if file_name is Some.  There
\* are two exceptions.  pop takes a `.' or `..' at the end away and answers true,
\* where its doc has it do nothing.  A drive without a root is left out as soon as
\* next_back is called.
ComponentsAgree ==
  LET driveRelative == kind = "disk" /\ ~HasPhysicalRoot(kind, bytes)
      left == IF kind = "unix" THEN Meaning(kind, AsPath(comps)) ELSE <<>>
      pop == ParentAndName(kind, bytes)
  IN  /\ Meaning(kind, bytes) = names
      /\ pop.named <=> HasFileName(names)
      /\ pop.has <=> HasFileName(names) \/ EndsInDots(names)
      /\ \/ driveRelative /\ fromBack # <<>>
         \/ /\ IsPrefix(fromFront, names) /\ IsPrefix(fromBack, Reverse(names))
            /\ Finished(comps) \/ kind = "unix" =>
                 fromFront \o left \o Reverse(fromBack) = names
=============================================================================
