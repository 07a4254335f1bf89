--------------------------- MODULE MigrateImports ---------------------------
(***************************************************************************)
(* migrate-imports.js: rewrites, in all Solidity files of a project, the   *)
(* import paths that changed.  Every file operation is awaited, so a run   *)
(* can be cut off between any two, and in the middle of a write.  A file   *)
(* is the sequence of the paths that occur in its text, in import          *)
(* statements or elsewhere: the script replaces text, and comments count.  *)
(* What is between them is left out, for no update touches it.  A path and *)
(* its `Upgradeable` form are two paths.                                   *)
(***************************************************************************)
EXTENDS Integers, Sequences, SequencesExt, FiniteSets

CONSTANTS
    Files,        \* the .sol files below the given directories
    Paths,        \* what the texts name
    pathUpdates,  \* the pairs of an old and a new path, in the order of the table
    MaxImports,   \* the bound of occurrences of paths in a file
    MaxCrashes    \* the bound of runs that are cut off

OldPaths == {pathUpdates[i][1] : i \in DOMAIN pathUpdates}
NewPaths == {pathUpdates[i][2] : i \in DOMAIN pathUpdates}
NewOf(path) == pathUpdates[CHOOSE i \in DOMAIN pathUpdates : pathUpdates[i][1] = path][2]

\* As in the table: a path has one new path, and no new path is an old one too.
ASSUME TableAssumption ==
    /\ pathUpdates \in Seq(Paths \X Paths)
    /\ OldPaths \cap NewPaths = {}
    /\ \A i, j \in DOMAIN pathUpdates : pathUpdates[i][1] = pathUpdates[j][1] => i = j

ASSUME BoundsAssumption == MaxImports \in Nat /\ MaxCrashes \in Nat

Sources == UNION {[1 .. n -> Paths] : n \in 0 .. MaxImports}

VARIABLES
    content,  \* what is in each file
    queue,    \* the files of this run that are still to be updated
    held,     \* the file being updated and its updated text, <<>> if none
    runs,     \* whether a run is on
    ended,    \* whether the last run came to its end
    crashes,  \* how many were cut off
    begun,    \* history: what was in each file before the first run
    torn      \* history: the files of which a part was lost in a crash

vars == <<content, queue, held, runs, ended, crashes, begun, torn>>

\* Mutant: every path is taken for the last one of the table.
ReplaceAny(source, old, new) ==
    [i \in DOMAIN source |-> IF source[i] \in OldPaths THEN new ELSE source[i]]

\* String.replace with a string replaces its first occurrence, wherever it is.
ReplaceFirst(source, old, new) ==
    LET found == {i \in DOMAIN source : source[i] = old}
    IN  [i \in DOMAIN source |->
            IF i \in found /\ \A j \in found : i <= j THEN new ELSE source[i]]

updateImportPaths(source) ==
    FoldLeft(LAMBDA text, pair : ReplaceFirst(text, pair[1], pair[2]),
             source, pathUpdates)

Init ==
    /\ content \in [Files -> Sources] /\ begun = content
    /\ queue = {} /\ held = <<>> /\ runs = FALSE /\ ended = FALSE
    /\ crashes = 0 /\ torn = {}

\* Somebody runs the script, as often as they like: the files are listed.
Start ==
    /\ ~runs
    /\ runs' = TRUE /\ ended' = FALSE /\ queue' = Files
    /\ UNCHANGED <<content, held, crashes, begun, torn>>

\* Mutant: a file without the first path of the table is passed over.
ReadSkipping(file) ==
    /\ runs /\ held = <<>> /\ file \in queue
    /\ queue' = queue \ {file}
    /\ held' = IF pathUpdates[1][1] \in Range(content[file])
               THEN <<file, updateImportPaths(content[file])>> ELSE <<>>
    /\ UNCHANGED <<content, runs, ended, crashes, begun, torn>>

\* updateFile up to its write: nothing is written if nothing changes.
Read(file) ==
    /\ runs /\ held = <<>> /\ file \in queue
    /\ queue' = queue \ {file}
    /\ LET updated == updateImportPaths(content[file])
       IN  held' = IF updated # content[file] THEN <<file, updated>> ELSE <<>>
    /\ UNCHANGED <<content, runs, ended, crashes, begun, torn>>

\* Mutant: the text is appended to the file.
WriteAppends ==
    /\ held # <<>>
    /\ content' = [content EXCEPT ![held[1]] = @ \o held[2]] /\ held' = <<>>
    /\ UNCHANGED <<queue, runs, ended, crashes, begun, torn>>

\* writeFile replaces what is in the file.
Write ==
    /\ held # <<>>
    /\ content' = [content EXCEPT ![held[1]] = held[2]] /\ held' = <<>>
    /\ UNCHANGED <<queue, runs, ended, crashes, begun, torn>>

End ==
    /\ runs /\ queue = {} /\ held = <<>>
    /\ runs' = FALSE /\ ended' = TRUE
    /\ UNCHANGED <<content, queue, held, crashes, begun, torn>>

\* The run is cut off, or a file operation fails and main rejects.  A write that
\* was under way has emptied its file and written a part of the text, or not yet.
Crash ==
    /\ runs /\ crashes < MaxCrashes
    /\ \/ UNCHANGED <<content, torn>>
       \/ /\ held # <<>>
          /\ \E n \in 0 .. Len(held[2]) - 1 :
                content' = [content EXCEPT ![held[1]] = SubSeq(held[2], 1, n)]
          /\ torn' = torn \cup {held[1]}
    /\ runs' = FALSE /\ queue' = {} /\ held' = <<>> /\ crashes' = crashes + 1
    /\ UNCHANGED <<ended, begun>>

Next == Start \/ (\E file \in Files : Read(file)) \/ Write \/ End \/ Crash

Spec == Init /\ [][Next]_vars

\* Once begun, a run goes on; and whoever upgrades runs the script again.
Step == (\E file \in Files : Read(file)) \/ Write \/ End
FairSpec == Spec /\ WF_vars(Step) /\ WF_vars(Start)

-----------------------------------------------------------------------------

\* Every variable has its type: no file ever names more paths than it may.
TypeOK ==
    /\ content \in [Files -> Sources] /\ queue \subseteq Files
    /\ held = <<>> \/ held \in Files \X Sources
    /\ crashes \in 0 .. MaxCrashes

Old(source) == Range(source) \cap OldPaths

\* Whatever is cut off and run again, an occurrence of a path is as it was or has
\* become the new path, in its place, unless its file was torn.
OnlyPathsChange ==
    \A file \in Files \ torn :
       /\ Len(content[file]) = Len(begun[file])
       /\ \A i \in DOMAIN content[file] :
             \/ content[file][i] = begun[file][i]
             \/ /\ begun[file][i] \in OldPaths
                /\ content[file][i] = NewOf(begun[file][i])

\* A run that comes to its end leaves no old path in a file that has each of them
\* once, even if runs before it were cut off (migrate-imports.js:144-157).
Once(source) == \A i, j \in DOMAIN source :
                   i # j /\ source[i] \in OldPaths => source[i] # source[j]
Migrated ==
    ended => \A file \in Files : Once(begun[file]) => Old(content[file]) = {}

\* Run again and again, it gets there.
Converges == <>[](\A file \in Files : Old(content[file]) = {})
=============================================================================
