---------------------------- MODULE PolicyReload ----------------------------
(***************************************************************************)
(* The policy engine and its sources (policy/config/mod.rs): every         *)
(* decision checks the stamps of the home file and of its project's file,  *)
(* compiles the policy anew if one differs, and is taken by the compiled   *)
(* policy.  People edit the files at any time.                             *)
(*                                                                         *)
(* A file's text is a number, zero while there is no file.  A stamp is the *)
(* path the file resolves to and its modification time: a number too, of   *)
(* which no two files share one, but two texts of one file may.  Decisions *)
(* run on the runtime's threads: each access to a file or to a lock of the *)
(* engine is a step.  There is one engine, with one compiled policy, for   *)
(* the panes of every project.                                             *)
(***************************************************************************)
EXTENDS Naturals

CONSTANTS
    Tasks,         \* the decisions that may overlap
    Projects,      \* directories that may hold a project's file
    Home,          \* the home file
    NoProject,     \* a directory in no project
    NotKnown,      \* a pane that reported no directory
    Dirs,          \* the directories of the panes decided for
    Bad,           \* the texts that do not parse
    MaxEdits       \* bound: edits of the files

VARIABLES
    file,          \* file -> its text, and the stamp it has or had last
    edits,         \* how many edits there were
    making,        \* how far the engine is made
    compiled,      \* the compiled policy: its project root, the texts it read
    homeStamp, projectStamp,
    task,          \* task -> its place in evaluate and what it holds
    calm           \* history: whether every edit was made at rest, see Edit

engine == <<making, compiled, homeStamp, projectStamp>>
vars == <<file, edits, engine, task, calm>>

Files == Projects \cup {Home}

\* file_stamp: zero for a file that is not there.
Stamp(f) == IF file[f].text = 0 THEN 0 ELSE file[f].stamp

\* project_root: the project a directory is in, while it has a file.
Root(dir) == IF dir \in Projects /\ file[dir].text # 0 THEN dir ELSE NoProject

\* The text, and the stamp, of the project's file as seen from a directory.
ProjectText(dir) == IF dir \in Projects THEN file[dir].text ELSE 0
ProjectStamp(dir) == IF dir \in Projects THEN Stamp(dir) ELSE 0

Blank == [root |-> NoProject, home |-> 0, project |-> 0]
Idle == [at |-> "idle", dir |-> NoProject, home |-> 0, project |-> 0, changed |-> FALSE,
         new |-> Blank]

Init ==
    /\ file = [f \in Files |-> [text |-> 0, stamp |-> 0]] /\ edits = 0
    /\ making = "compile"
    /\ compiled = Blank /\ homeStamp = 0 /\ projectStamp = 0
    /\ task = [t \in Tasks |-> Idle]
    /\ calm = TRUE

-----------------------------------------------------------------------------
\* PolicyEngine::new(None), before the daemon takes its first call: the home
\* file is compiled, ...
Compile ==
    /\ making = "compile"
    /\ compiled' = [Blank EXCEPT !.home = file[Home].text]
    /\ making' = "stamp"
    /\ UNCHANGED <<file, edits, homeStamp, projectStamp, task, calm>>

\* ... and stamped; of no project there is no stamp.
StampNew ==
    /\ making = "stamp"
    /\ homeStamp' = Stamp(Home)
    /\ making' = "made"
    /\ UNCHANGED <<file, edits, compiled, projectStamp, task, calm>>

-----------------------------------------------------------------------------
\* A person writes, replaces or removes a file.  The new file may have the
\* stamp of the old one: two writes in one tick of the clock, or a
\* modification time that was kept.  An edit is made at rest when the engine
\* is made, no decision is under way and a text gets a stamp of its own.

At(t, place) == task[t].at = place
AtRest == making = "made" /\ \A t \in Tasks : At(t, "idle")

Edit(f) ==
    /\ edits < MaxEdits /\ edits' = edits + 1
    /\ \E text \in {0, edits'}, stamp \in {edits', file[f].stamp} \ {0} :
         /\ text # file[f].text
         /\ file' = [file EXCEPT ![f] = [text |-> text, stamp |-> stamp]]
         /\ calm' = (calm /\ AtRest /\ stamp = edits')
    /\ UNCHANGED <<engine, task>>

-----------------------------------------------------------------------------
\* check_reload(project_cwd)

Goes(t, place) == task' = [task EXCEPT ![t].at = place]

Begin(t) ==
    /\ making = "made" /\ At(t, "idle")
    /\ \E dir \in Dirs : task' = [task EXCEPT ![t] = [Idle EXCEPT !.at = "stampHome", !.dir = dir]]
    /\ UNCHANGED <<file, edits, engine, calm>>

StampHome(t) ==
    /\ At(t, "stampHome")
    /\ task' = [task EXCEPT ![t].at = "compareHome", ![t].home = Stamp(Home)]
    /\ UNCHANGED <<file, edits, engine, calm>>

\* Of a pane with no directory the project is neither stamped nor compared.
CompareHome(t) ==
    /\ At(t, "compareHome")
    /\ LET changed == task[t].home # homeStamp
           next == IF task[t].dir # NotKnown THEN "stampProject"
                   ELSE IF changed THEN "findRoot" ELSE "use"
       IN  task' = [task EXCEPT ![t].at = next, ![t].changed = changed]
    /\ UNCHANGED <<file, edits, engine, calm>>

StampProject(t) ==
    /\ At(t, "stampProject")
    /\ task' = [task EXCEPT ![t].at = "compareProject",
                            ![t].project = ProjectStamp(task[t].dir)]
    /\ UNCHANGED <<file, edits, engine, calm>>

CompareProject(t) ==
    /\ At(t, "compareProject")
    /\ Goes(t, IF task[t].changed \/ task[t].project # projectStamp THEN "findRoot" ELSE "use")
    /\ UNCHANGED <<file, edits, engine, calm>>

\* compile_config: the project's root is looked for again.
FindRoot(t) ==
    /\ At(t, "findRoot")
    /\ task' = [task EXCEPT ![t].at = "readHome", ![t].new.root = Root(task[t].dir)]
    /\ UNCHANGED <<file, edits, engine, calm>>

\* load_sources: a file that cannot be read is no source, and one that does
\* not parse ends the loading.
ReadHome(t) ==
    /\ At(t, "readHome")
    /\ task' = [task EXCEPT ![t].at = IF file[Home].text \in Bad \/ task[t].new.root = NoProject
                                        THEN "setCompiled" ELSE "readProject",
                            ![t].new.home = file[Home].text]
    /\ UNCHANGED <<file, edits, engine, calm>>

ReadProject(t) ==
    /\ At(t, "readProject")
    /\ task' = [task EXCEPT ![t].at = "setCompiled", ![t].new.project = ProjectText(task[t].dir)]
    /\ UNCHANGED <<file, edits, engine, calm>>

SetCompiled(t) ==
    /\ At(t, "setCompiled")
    /\ compiled' = task[t].new
    /\ Goes(t, "setHome")
    /\ UNCHANGED <<file, edits, making, homeStamp, projectStamp, calm>>

\* The stamps stored are those of before the policy was compiled.
SetHome(t) ==
    /\ At(t, "setHome")
    /\ homeStamp' = task[t].home
    /\ Goes(t, IF task[t].dir = NotKnown THEN "use" ELSE "setProject")
    /\ UNCHANGED <<file, edits, making, compiled, projectStamp, calm>>

SetProject(t) ==
    /\ At(t, "setProject")
    /\ projectStamp' = task[t].project
    /\ Goes(t, "use")
    /\ UNCHANGED <<file, edits, making, compiled, homeStamp, calm>>

\* evaluate: the policy that compiled() returns decides.
Use(t) ==
    /\ At(t, "use")
    /\ Goes(t, "idle")
    /\ UNCHANGED <<file, edits, engine, calm>>

Reload(t) ==
    \/ StampHome(t) \/ CompareHome(t) \/ StampProject(t) \/ CompareProject(t)
    \/ FindRoot(t) \/ ReadHome(t) \/ ReadProject(t)
    \/ SetCompiled(t) \/ SetHome(t) \/ SetProject(t)

Next ==
    \/ Compile \/ StampNew
    \/ \E f \in Files : Edit(f)
    \/ \E t \in Tasks : Begin(t) \/ Reload(t) \/ Use(t)

Spec == Init /\ [][Next]_vars

-----------------------------------------------------------------------------
\* Properties

\* The policy is compiled from the sources of a directory as they are; where
\* the home file does not parse, every command is denied whatever the project.
Holds(policy, dir) ==
    /\ policy.home = file[Home].text
    /\ policy.home \in Bad \/ policy.project = ProjectText(dir)

\* A decision for a pane in this directory would find nothing changed.
NothingToReload(dir) == homeStamp = Stamp(Home) /\ projectStamp = ProjectStamp(dir)

\* config/mod.rs, the policy is "reloaded on the first decision after a source
\* changes", and the project's is "found from the pane's directory": with no
\* decision under way, and every edit so far made at rest, a decision that
\* would reload nothing has a policy compiled from its own sources, whatever
\* panes were decided for before and however those decisions overlapped.
FreshPolicy ==
    calm /\ AtRest =>
        \A dir \in Dirs \ {NotKnown} : NothingToReload(dir) => Holds(compiled, dir)

\* The same of edits at any moment, of files whose stamps may be kept.
FreshAlways ==
    AtRest => \A dir \in Dirs \ {NotKnown} : NothingToReload(dir) => Holds(compiled, dir)

=============================================================================
