----------------------------- MODULE AssetFile -----------------------------
(***************************************************************************)
(* The asset inventory kept in a file (aegis/tools/assets_file.py): each   *)
(* lookup asks for the file's modification time and, when it is not the    *)
(* one last loaded, reads the whole file before it answers.  The file is   *)
(* somebody else's: it can change, or go, between the two.                 *)
(*                                                                         *)
(* A version is a state of the file; what a lookup answers is a function   *)
(* of the version it is answered from.  Times say little: two versions can *)
(* have the same one (edits within the clock's grain, a copy that keeps    *)
(* it), and a version can come back with the time it had.                  *)
(***************************************************************************)
EXTENDS Integers

CONSTANTS
    Readers,   \* threads of one process
    Versions,
    Valid,     \* versions that load: every entry is an asset
    mtimeOf    \* function: st_mtime of each version

NoFile == "no file"

ASSUME AssetFileAssumption ==
    /\ Valid \subseteq Versions /\ NoFile \notin Versions
    /\ mtimeOf \in [Versions -> Nat]

VARIABLES
    file,     \* the version at the path, or NoFile
    times,    \* history: modification times the path has had
    again,    \* history: the file at the path has a time it had before
    loaded,   \* _assets and _mtime
    lookup    \* what each reader is doing

assetVars == <<file, times, again, loaded, lookup>>

NoVersion == "nothing loaded"
NoMtime == -1

\* History: seen is what was at the path since the lookup began, and reused
\* whether some of it had a time the path had had before.
NoLookup == [at |-> "idle", mtime |-> NoMtime, seen |-> {}, reused |-> FALSE,
             answer |-> NoVersion]

TimesOf(f) == IF f = NoFile THEN {} ELSE {mtimeOf[f]}

\* FileAssetInventory.__init__ does not look at the file.  The threads of on
\* may look assets up; without any, the file is of no interest.
AssetInit(on) ==
    /\ file \in IF on = {} THEN {NoFile} ELSE Versions \cup {NoFile}
    /\ times = TimesOf(file) /\ again = FALSE
    /\ loaded = [version |-> NoVersion, mtime |-> NoMtime]
    /\ lookup = [r \in Readers |->
                    [NoLookup EXCEPT !.at = IF r \in on THEN "idle" ELSE "off"]]

StartLookup(r) ==
    /\ lookup[r].at \in {"idle", "returned", "raised"}
    /\ lookup' = [lookup EXCEPT ![r] = [NoLookup EXCEPT !.at = "locking", !.seen = {file},
                                                     !.reused = again]]
    /\ UNCHANGED <<file, times, again, loaded>>

Raises(r) == lookup' = [lookup EXCEPT ![r].at = "raised"]
Answers(r, v) == lookup' = [lookup EXCEPT ![r].at = "returned", ![r].answer = v]

\* Mutant: only a newer file is loaded.
NewerThanLoaded(m) == m > loaded.mtime

HasChanged(m) == m # loaded.mtime

\* _refresh takes the lock and asks for the file's time.  The lock is free
\* unless a reader is between this and its load.
Stat(r) ==
    /\ lookup[r].at = "locking"
    /\ \A q \in Readers : lookup[q].at # "loading"
    /\ \/ /\ file = NoFile
          /\ Raises(r)
       \/ /\ file # NoFile /\ HasChanged(mtimeOf[file])
          /\ lookup' = [lookup EXCEPT ![r].at = "loading", ![r].mtime = mtimeOf[file]]
       \/ /\ file # NoFile /\ ~HasChanged(mtimeOf[file])
          /\ Answers(r, loaded.version)
    /\ UNCHANGED <<file, times, again, loaded>>

\* load_inventory reads the file, as it is now.  A file that is gone or does
\* not load leaves what was loaded before, and its time, in place.
Load(r) ==
    /\ lookup[r].at = "loading"
    /\ \/ /\ file \notin Valid
          /\ Raises(r) /\ UNCHANGED loaded
       \/ /\ file \in Valid
          /\ loaded' = [version |-> file, mtime |-> lookup[r].mtime]
          /\ Answers(r, file)
    /\ UNCHANGED <<file, times, again>>

\* Somebody replaces the file, by a version of any age, or removes it.
Edit(f) ==
    /\ \E r \in Readers : lookup[r].at # "off"
    /\ f # file /\ file' = f
    /\ times' = times \cup TimesOf(f)
    /\ again' = (TimesOf(f) \cap times # {})
    /\ lookup' = [r \in Readers |->
                     IF lookup[r].at \in {"locking", "loading"}
                     THEN [lookup[r] EXCEPT !.seen = @ \cup {f}, !.reused = @ \/ again']
                     ELSE lookup[r]]
    /\ UNCHANGED loaded

LookupStep(r) == Stat(r) \/ Load(r)

-----------------------------------------------------------------------------
AssetTypeOK ==
    /\ file \in Versions \cup {NoFile} /\ times \subseteq Nat /\ again \in BOOLEAN
    /\ loaded \in [version: Valid \cup {NoVersion}, mtime: Nat \cup {NoMtime}]
    /\ lookup \in [Readers ->
          [at: {"off", "idle", "locking", "loading", "returned", "raised"},
           mtime: Nat \cup {NoMtime}, seen: SUBSET (Versions \cup {NoFile}),
           reused: BOOLEAN, answer: Valid \cup {NoVersion}]]

\* A lookup answers from a version that was at the path while it ran, never
\* from one replaced before, unless the file that was there then had a time the
\* path had had before ("reloading when it changes on disk": a change is a new
\* time); and it fails only when the file was missing or broken while it ran
\* ("Raises rather than returning a partial view").  So it is whatever the order
\* of edits, loads that fail and loads that overtake an edit, and a file with a
\* new time ends what a reused one did.
LookupFresh ==
    \A r \in Readers :
        /\ lookup[r].at = "returned" =>
              lookup[r].answer \in Valid /\ (lookup[r].answer \in lookup[r].seen \/ lookup[r].reused)
        /\ lookup[r].at = "raised" => \E f \in lookup[r].seen : f \notin Valid
=============================================================================
