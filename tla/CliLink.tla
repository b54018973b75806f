------------------------------- MODULE CliLink -------------------------------
(***************************************************************************)
(* The desktop links the command line tool into ~/.local/bin.  The user is *)
(* shown what is there and confirms it; by the time the link is made other *)
(* programs may have put something else there, at any step.  Whatever it   *)
(* replaces is first moved into a private directory, looked at again, and  *)
(* only then removed; what turns out not to be the link the user confirmed *)
(* is moved back, or kept where the user is told.                          *)
(***************************************************************************)
EXTENDS Naturals, FiniteSets

CONSTANTS
    Inodes,    \* inode numbers, used again once free
    Targets,   \* what a symbolic link may say
    Cli,       \* the absolute path of the bundled tool
    Aliases,   \* other targets that resolve to the bundled tool
    Opaque,    \* targets that are not UTF-8 and cannot be confirmed
    MaxKept,   \* bound on the private directories left behind
    Nothing

ASSUME TargetsAreKnown == Cli \in Targets /\ Aliases \cup Opaque \subseteq Targets \ {Cli}

Link(i, t) == [kind |-> "link", ino |-> i, target |-> t]
File(i) == [kind |-> "file", ino |-> i, target |-> Nothing]
Entries == {Link(i, t) : i \in Inodes, t \in Targets} \cup {File(i) : i \in Inodes}

Answers == {"ok", "refused", "displaced", "crashed"}

ASSUME NothingIsNothing == Nothing \notin Targets \cup Inodes \cup Entries /\ Nothing \notin Answers

VARIABLES
    place,     \* what is at ~/.local/bin/gaia
    step,      \* where create_at stands
    expected,  \* expected_target: what the user confirmed, Nothing for none
    before,    \* the entry as create_at first saw it
    stage,     \* `previous` in the private directory of this call
    kept,      \* what was left in private directories, and whether the user was told
    answer,    \* the answer of the last call
    removed,   \* the entry the desktop removed last, and what was confirmed then
    touched    \* whether another program acted during the last call

linkVars == <<place, step, expected, before, stage, kept, answer, removed, touched>>

LinkInit ==
    /\ place \in Entries \cup {Nothing}
    /\ step = "idle" /\ expected = Nothing /\ before = Nothing /\ stage = Nothing
    /\ kept = {} /\ answer = Nothing /\ removed = Nothing /\ touched = FALSE

Used == {e.ino : e \in {place, stage} \ {Nothing}} \cup {k.entry.ino : k \in kept}

\* status_at, Nothing when the link cannot be told.
StatusAt(e) ==
    CASE e = Nothing -> "missing"
      [] e # Nothing /\ e.kind = "file" -> "not_symlink"
      [] e # Nothing /\ e.kind = "link" /\ e.target \in Opaque -> Nothing
      [] e # Nothing /\ e.kind = "link" /\ e.target \in Aliases \cup {Cli} -> "ok"
      [] OTHER -> "wrong_target"

Returns(what) == step' = "idle" /\ answer' = what

-----------------------------------------------------------------------------
(* create_at                                                               *)

\* The user confirms what status showed, at some time, and asks for the link.
Create(e) ==
    /\ step = "idle"
    /\ expected' = e
    /\ touched' = FALSE /\ before' = Nothing
    /\ CASE StatusAt(place) = "ok" -> Returns("ok")
         [] \/ StatusAt(place) = "missing" /\ e = Nothing
            \/ StatusAt(place) = "wrong_target" /\ place.target = e
              -> step' = "open" /\ answer' = Nothing
         [] OTHER -> Returns("refused")
    /\ UNCHANGED <<place, stage, kept, removed>>

\* The directory is opened, and the entry in it read anew.
Stat ==
    /\ step = "open"
    /\ \/ place = Nothing /\ expected = Nothing /\ step' = "create" /\ UNCHANGED <<answer, before>>
       \/ /\ place # Nothing /\ expected # Nothing
          /\ place.kind = "link"
          /\ step' = "confirm" /\ before' = place /\ UNCHANGED answer
       \/ /\ (place = Nothing) # (expected = Nothing) \/ (place # Nothing /\ place.kind # "link")
          /\ Returns("refused") /\ UNCHANGED before
       \/ Returns("refused") /\ UNCHANGED before     \* mkdir or open fails
    /\ UNCHANGED <<place, expected, stage, kept, removed, touched>>

\* symlinkat makes a link only where nothing is.
MakesLink == \E i \in Inodes \ Used : place' = Link(i, Cli)

CreateMissing ==
    /\ step = "create"
    /\ \/ place = Nothing /\ MakesLink /\ Returns("ok")
       \/ Returns("refused") /\ UNCHANGED place
    /\ UNCHANGED <<expected, before, stage, kept, removed, touched>>

\* confirm_link: the same inode, a link, and the target the user confirmed.
Confirmed(e) ==
    /\ e # Nothing /\ e.kind = "link"
    /\ e.ino = before.ino /\ e.target = expected

Confirm ==
    /\ step = "confirm"
    /\ \/ Confirmed(place) /\ step' = "move" /\ UNCHANGED answer
       \/ Returns("refused")                 \* not confirmed, or no directory
    /\ UNCHANGED <<place, expected, before, stage, kept, removed, touched>>

MoveExisting ==
    /\ step = "move"
    /\ \/ place # Nothing /\ stage' = place /\ place' = Nothing /\ step' = "staged" /\ UNCHANGED answer
       \/ Returns("refused") /\ UNCHANGED <<place, stage>>
    /\ UNCHANGED <<expected, before, kept, removed, touched>>

\* What was moved may not be what was confirmed a moment ago.
ConfirmStaged ==
    /\ step = "staged"
    /\ step' = IF Confirmed(stage) THEN "publish" ELSE "restore"
    /\ UNCHANGED <<place, expected, before, stage, kept, answer, removed, touched>>

\* A private directory that is not empty stays where it is.
Left(how) == kept' = kept \cup {[entry |-> stage, how |-> how]} /\ stage' = Nothing

PublishReplacement_Abandons ==
    /\ step = "publish"
    /\ \/ /\ place = Nothing /\ MakesLink /\ step' = "published"
          /\ UNCHANGED <<answer, stage, kept>>
       \/ Returns("refused") /\ Left("untold") /\ UNCHANGED place
    /\ UNCHANGED <<expected, before, removed, touched>>

PublishReplacement ==
    /\ step = "publish"
    /\ \/ place = Nothing /\ MakesLink /\ step' = "published"
       \/ step' = "restore" /\ UNCHANGED place
    /\ UNCHANGED <<expected, before, stage, kept, answer, removed, touched>>

\* The old link goes; where it cannot, an error says that the link is made and
\* where the old one stays.
RemovePrevious ==
    /\ step = "published"
    /\ \/ /\ Confirmed(stage)
          /\ stage' = Nothing /\ removed' = [entry |-> stage, confirmed |-> expected]
          /\ Returns("ok") /\ UNCHANGED kept
       \/ Left("told") /\ Returns("ok") /\ UNCHANGED removed
    /\ UNCHANGED <<place, expected, before, touched>>

RestorePrevious_Replacing ==
    /\ step = "restore"
    /\ place' = stage /\ stage' = Nothing /\ Returns("refused")
    /\ removed' = IF place = Nothing THEN removed
                  ELSE [entry |-> place, confirmed |-> expected]
    /\ UNCHANGED <<expected, before, kept, touched>>

\* renameat with NOREPLACE: what was moved goes back only where nothing is.
RestorePrevious ==
    /\ step = "restore"
    /\ \/ place = Nothing /\ place' = stage /\ stage' = Nothing /\ Returns("refused") /\ UNCHANGED kept
       \/ Left("told") /\ Returns("displaced") /\ UNCHANGED place
    /\ UNCHANGED <<expected, before, removed, touched>>

-----------------------------------------------------------------------------
(* Other programs, and the end of the desktop.                             *)

OthersPut(e) ==
    /\ e.ino \notin Used
    /\ place' = e
    /\ touched' = TRUE
    /\ UNCHANGED <<step, expected, before, stage, kept, answer, removed>>

OthersRemove ==
    /\ place # Nothing
    /\ place' = Nothing
    /\ touched' = TRUE
    /\ UNCHANGED <<step, expected, before, stage, kept, answer, removed>>

\* The process is killed in the middle: what was moved stays, and nobody is told.
Killed ==
    /\ step # "idle"
    /\ IF stage = Nothing THEN UNCHANGED <<stage, kept>> ELSE Left("crash")
    /\ Returns("crashed")
    /\ UNCHANGED <<place, expected, before, removed, touched>>

Creating ==
    \/ \E e \in (Targets \ Opaque) \cup {Nothing} : Create(e)
    \/ Stat \/ CreateMissing \/ Confirm \/ MoveExisting \/ ConfirmStaged
    \/ PublishReplacement \/ RemovePrevious \/ RestorePrevious

LinkNext ==
    \/ Cardinality(kept) < MaxKept /\ (Creating \/ Killed)
    \/ \E e \in Entries : OthersPut(e)
    \/ OthersRemove

LinkSpec == LinkInit /\ [][LinkNext]_linkVars

-----------------------------------------------------------------------------
LinkTypeOK ==
    /\ place \in Entries \cup {Nothing} /\ stage \in Entries \cup {Nothing}
    /\ before \in Entries \cup {Nothing}
    /\ step \in {"idle", "open", "create", "confirm", "move", "staged", "publish",
               "published", "restore"}
    /\ stage # Nothing <=> step \in {"staged", "publish", "published", "restore"}
    /\ expected \in (Targets \ Opaque) \cup {Nothing}
    /\ kept \subseteq [entry : Entries, how : {"told", "untold", "crash"}]
    /\ answer \in Answers \cup {Nothing}
    /\ removed \in [entry : Entries, confirmed : Targets] \cup {Nothing}
    /\ touched \in BOOLEAN

(* Nothing is removed that the user did not confirm: no file, and no link  *)
(* to anything but the confirmed target, even where another program puts   *)
(* one in the way between two looks at it.                                 *)
RemovesOnlyConfirmed ==
    removed # Nothing =>
        removed.entry.kind = "link" /\ removed.entry.target = removed.confirmed

(* What was moved away is in its place again, or the user was told where   *)
(* it is kept; only a call that did not return leaves it untold.           *)
KeptIsTold == \A k \in kept : k.how # "untold"

(* A call that succeeds leaves the bundled tool linked, unless another     *)
(* program took the link away meanwhile; one that refuses leaves the place *)
(* as it found it.                                                         *)
AnswersHold ==
    step = "idle" /\ ~touched =>
        /\ answer = "ok" => StatusAt(place) = "ok"
        /\ answer = "refused" /\ before # Nothing => place = before

(* A call's answer tells what became of the place and of what was there.   *)
AnswersTell == KeptIsTold /\ AnswersHold
=============================================================================
