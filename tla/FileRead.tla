------------------------------ MODULE FileRead ------------------------------
(***************************************************************************)
(* The resolver of files (sources/file.rs: read).  Other programs change   *)
(* the file system all the time, so every call of it finds what it finds:  *)
(* canonicalize leads to any place, and the place that was checked holds   *)
(* anything when it is opened.  Directories above it are taken to stay, as *)
(* the design accepts.  A path is the sequence of its names.               *)
(***************************************************************************)
EXTENDS Integers, Sequences, SequencesExt

CONSTANTS
    Readers,       \* the calls
    Paths,         \* requested paths, ".." and "." among their names
    Places,        \* real paths of files
    RealPath,      \* configured root -> the real paths it may have; <<>> is "/"
    Protected,     \* config, database and key directories, and their real paths
    MaxSize,       \* max_bytes
    FileSizes,
    Gone           \* what cannot be resolved

VARIABLE reading

NoRead == [pc |-> "none"]

FileInit == reading = [c \in Readers |-> NoRead]

Below(place, dir) == IsPrefix(dir, place)

ReadEnds(c, what, size) ==
    reading' = [reading EXCEPT ![c] = [pc |-> "done", what |-> what, size |-> size]]

\* effective_roots, of the real paths the roots have now.
Usable(place) ==
    /\ place \notin {Gone, <<>>}
    /\ \A p \in Protected : ~Below(place, p) /\ ~Below(p, place)

EffectiveRoots(real) == {place \in {real[r] : r \in DOMAIN real} : Usable(place)}

\* From the reading of the uri to the checks of the real path: the path as it
\* is written, the roots, the path below a root, the real path below one too.
Lexical(path) == \A i \in 1..Len(path) : path[i] \notin {"..", "."}

Admissible(place, roots) ==
    /\ \E r \in roots : Below(place, r)
    /\ \A p \in Protected : ~Below(place, p)

Locate(c, allow, path) ==
    /\ reading[c] = NoRead
    /\ \E real \in {f \in [allow -> UNION {RealPath[r] : r \in allow}] :
                        \A r \in allow : f[r] \in RealPath[r]} :
          LET roots == EffectiveRoots(real) IN
          CASE ~Lexical(path) -> ReadEnds(c, "unavailable", 0)
            [] Lexical(path) /\ roots = {} -> ReadEnds(c, "not_configured", 0)
            [] Lexical(path) /\ roots # {} /\ (\A r \in allow \cup roots : ~Below(path, r))
                 -> ReadEnds(c, "unavailable", 0)
            [] OTHER ->
                 \/ \E place \in {x \in Places : Admissible(x, roots)} :
                        reading' = [reading EXCEPT ![c] =
                            [pc |-> "located", place |-> place, roots |-> roots]]
                 \/ ReadEnds(c, "unavailable", 0)

BadUri(c) == reading[c] = NoRead /\ ReadEnds(c, "invalid_uri", 0)

Opened(c, place) ==
    \/ \E size \in {s \in FileSizes : s <= MaxSize} :
          reading' = [reading EXCEPT ![c] =
              [pc |-> "opened", place |-> place, roots |-> reading[c].roots]]
    \/ ReadEnds(c, "too_large", 0)

\* O_NOFOLLOW: a link in place of the file is an error; so is anything that
\* is not a regular file.
Open(c) ==
    /\ reading[c].pc = "located"
    /\ \/ Opened(c, reading[c].place)
       \/ ReadEnds(c, "unavailable", 0)

\* The file may have grown since its size was read.
ReadFile(c) ==
    /\ reading[c].pc = "opened"
    /\ \/ \E size \in FileSizes :
             IF size > MaxSize THEN ReadEnds(c, "too_large", 0) ELSE ReadEnds(c, "resolved", size)
       \/ \E what \in {"read_failed", "binary"} : ReadEnds(c, what, 0)

ReadStep(c) == Open(c) \/ ReadFile(c)

-----------------------------------------------------------------------------
(* What is opened lies where it was checked: below a root, and not below a *)
(* directory of gaia's own, whatever takes its place in between.           *)
FileReachesOnlyAllowed ==
    \A c \in Readers : reading[c].pc = "opened" =>
        /\ \E r \in reading[c].roots : Below(reading[c].place, r)
        /\ \A p \in Protected : ~Below(reading[c].place, p)
=============================================================================
