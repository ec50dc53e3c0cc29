------------------------------ MODULE Library ------------------------------
(***************************************************************************)
(* The parts of the library that share no state with each other, side by   *)
(* side: a behaviour chooses one of them and the others stay as they are.  *)
(***************************************************************************)
EXTENDS RobinHood, BufferedWriters, Paths, ExitHandlers, ThreadLocals

VARIABLE object     \* which one this behaviour is about

libraryVars == <<object, hashVars, writerVars, pathVars, exitVars, localVars>>

\* The states that an object which is not used stays in.
NoTable == hash = [k \in Keys |-> 0] /\ table = NewTable(0) /\ present = {}
NoWriter ==
  /\ lineWriter = FALSE /\ newlines = {} /\ wbuf = <<>> /\ needFlush = FALSE
  /\ panicked = FALSE /\ sink = <<>> /\ accepted = 0 /\ recovered = FALSE
  /\ wpc = "idle" /\ call = NoCall
NoPath ==
  /\ kind = "unix" /\ bytes = <<>> /\ names = <<>>
  /\ comps = Components("unix", <<>>) /\ fromFront = <<>> /\ fromBack = <<>>

Init ==
  /\ InitExit /\ InitLocals
  /\ \/ object = "HashMap" /\ InitHash /\ NoWriter /\ NoPath
     \/ object = "BufWriter" /\ InitWriter /\ NoTable /\ NoPath
     \/ object = "PathBuf" /\ InitPath /\ NoTable /\ NoWriter
     \/ object \in {"at_exit", "thread_local"} /\ NoTable /\ NoWriter /\ NoPath

Next ==
  \/ /\ object = "HashMap" /\ NextHash
     /\ UNCHANGED <<object, writerVars, pathVars, exitVars, localVars>>
  \/ /\ object = "BufWriter" /\ NextWriter
     /\ UNCHANGED <<object, hashVars, pathVars, exitVars, localVars>>
  \/ /\ object = "PathBuf" /\ NextPath
     /\ UNCHANGED <<object, hashVars, writerVars, exitVars, localVars>>
  \/ /\ object = "at_exit" /\ NextExit
     /\ UNCHANGED <<object, hashVars, writerVars, pathVars, localVars>>
  \/ /\ object = "thread_local" /\ NextLocals
     /\ UNCHANGED <<object, hashVars, writerVars, pathVars, exitVars>>

\* Threads, statics and keys of one kind can be exchanged.
Symmetry ==
  Permutations(Users \ {Main}) \cup Permutations(Lazies)
  \cup Permutations(Locals) \cup Permutations(FastKeys)

Spec == Init /\ [][Next]_libraryVars
=============================================================================
