------------------------------- MODULE MenuPath -------------------------------
(* The directory of the build menu (path_t in main.c): the text of the path    *)
(* and the length len that every operation leaves behind, each in its own way. *)
(* The text is a sequence of slashes and other characters; path[i] of the code *)
(* is path[i + 1] here.                                                        *)
EXTENDS Integers, Sequences

CONSTANTS DirLengths,   \* how long the names of directories are
          FileLengths,  \* and of macro files, with the ".kps" at the end
          MaxPath       \* how long paths become: a bound of the model

VARIABLES path, len,
          default_file, \* what write_to_default_file keeps: a directory and a name
          at,           \* "switch" outside of the menu, "files" in it, "lost" in memory
          removed       \* the last step was a ".."

vars == <<path, len, default_file, at, removed>>

None == [dir |-> << >>, name |-> 0]
Name(n) == [i \in 1 .. n |-> "x"]
strlen == Len(path)

\* path_new: the working directory and a slash.
path_new ==
  \E cwd \in {<<"/">>} \cup {<<"/">> \o Name(n) : n \in DirLengths}
             \cup {<<"/">> \o Name(n) \o <<"/">> \o Name(m) : n, m \in DirLengths} :
    /\ path = cwd \o <<"/">>
    /\ len = Len(cwd) + 2

Init == path_new /\ default_file = None /\ at = "switch" /\ removed = FALSE

\* path_set_and_split_path: the directory of the default file, and the length
\* of the file's own path.
EnterMenu ==
  /\ at = "switch" /\ at' = "files"
  /\ IF default_file = None THEN UNCHANGED <<path, len>>
     ELSE /\ path' = default_file.dir
          /\ len' = Len(default_file.dir) + default_file.name
  /\ removed' = FALSE
  /\ UNCHANGED default_file

\* c: back to the start.
CancelFiles ==
  /\ at = "files" /\ at' = "switch"
  /\ removed' = FALSE
  /\ UNCHANGED <<path, len, default_file>>

\* A macro file of this directory is built and becomes the default file.
OpenFile(n) ==
  /\ at = "files" /\ at' = "switch"
  /\ default_file' \in {default_file, [dir |-> path, name |-> n]}
  /\ removed' = FALSE
  /\ UNCHANGED <<path, len>>

\* path_add_dir with another name than "..".
AddDir(n) ==
  /\ at = "files" /\ strlen + n < MaxPath
  /\ path' = path \o Name(n) \o <<"/">>
  /\ len' = Len(path')
  /\ removed' = FALSE
  /\ UNCHANGED <<default_file, at>>

-----------------------------------------------------------------------------
(* path_remove_dir.                                                           *)

\* len is 0 after a removal that came to the root.
AtRoot ==
  /\ at = "files" /\ len = 0
  /\ removed' = TRUE
  /\ UNCHANGED <<path, len, default_file, at>>

\* The search begins two characters before the one that len - 1 is taken for.
First == len - 3

\* Where it may find a slash: the last one of the text up to there, or what
\* lies behind the terminating null character at index strlen.
Slashes == {i \in 0 .. strlen - 1 : path[i + 1] = "/" /\ (i <= First)}
Found == {i \in Slashes : \A j \in Slashes : j <= i} \cup (strlen + 1 .. First)

RemoveDir ==
  /\ at = "files" /\ len # 0
  /\ \E slash_i \in Found :
       /\ path' = IF slash_i < strlen THEN SubSeq(path, 1, slash_i + 1) ELSE path
       /\ len' = slash_i
  /\ removed' = TRUE
  /\ UNCHANGED <<default_file, at>>

\* It begins before the text: it reads and writes foreign memory.
RemoveDirBefore ==
  /\ at = "files" /\ len # 0 /\ First < 0
  /\ at' = "lost" /\ removed' = TRUE
  /\ UNCHANGED <<path, len, default_file>>

Next ==
  \/ EnterMenu \/ CancelFiles \/ AtRoot \/ RemoveDir \/ RemoveDirBefore
  \/ \E n \in FileLengths : OpenFile(n)
  \/ \E n \in DirLengths : AddDir(n)

Spec == Init /\ [][Next]_vars

-----------------------------------------------------------------------------

Parent(p) ==
  IF Len(p) = 1 THEN p
  ELSE LET slashes == {i \in 1 .. Len(p) - 1 : p[i] = "/"}
       IN  SubSeq(p, 1, CHOOSE i \in slashes : \A j \in slashes : j <= i)

\* ".." goes to the parent directory: "Index without counting the last '/'"
\* (main.c:1250), and stays at the root: "At root already. Don't go back."
\* (main.c:1249).
DotDotIsParent ==
  [][removed' => at' = "files" /\ path' = Parent(path)]_vars
=============================================================================
