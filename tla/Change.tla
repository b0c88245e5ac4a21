------------------------------- MODULE Change -------------------------------
(***************************************************************************)
(* What a verb promises of the project it runs on, as its user sees it     *)
(* between verbs: a get or a remove carries exactly its one edit of the    *)
(* dep block or leaves the whole project as it found it, nothing else      *)
(* writes the dep block, a frozen run and a `pkg vendor` write no lock,    *)
(* what a repository refuses changes nothing, only a sync and `pkg vendor` *)
(* write trees, a sync removes none before its lock was writable, and a    *)
(* verb that died leaves a lockfile that pins nothing or is whole.         *)
(*                                                                         *)
(* Module Project implements it: there a verb is many steps over four      *)
(* places on the disk, and the undo of a change is four steps more.        *)
(***************************************************************************)
EXTENDS Naturals

CONSTANTS Key, NoBids, NoLock, NoTree

VARIABLES
  shown,     \* the project as it stood when no verb ran: the package
             \* file's dep block, the lock, its file, the vendor tree
  running,   \* a verb runs
  verb,      \* which, or the last one that did
  answer     \* what it answered, "none" before and once something else happened

view == <<shown, running, verb, answer>>

Died == {"died", "threw"}

Init ==
  /\ shown.lock = NoLock /\ shown.lockFile = "absent"
  /\ running = FALSE /\ verb = "sync" /\ answer = "none"

Begin ==
  /\ ~running /\ running' = TRUE
  /\ answer' = "none"
  /\ UNCHANGED shown

SameLock == shown'.lock = shown.lock /\ shown'.lockFile = shown.lockFile

\* One minimum raised, and none dropped; or one dependency dropped.
Raised(from, to) == \E k \in Key : from[k] < to[k] /\ to = [from EXCEPT ![k] = to[k]]
Dropped(from, to) == \E k \in Key : from[k] # 0 /\ to = [from EXCEPT ![k] = 0]

Carried ==
  CASE verb = "get"    -> \/ shown'.declared = shown.declared
                          \/ Raised(shown.declared, shown'.declared)
    [] verb = "remove" -> Dropped(shown.declared, shown'.declared)
    [] OTHER           -> shown'.declared = shown.declared

\* A tree may be replaced, but none is gone.
KeepsTrees ==
  \A k \in Key : shown.vendor[k] # NoTree => shown'.vendor[k] # NoTree

\* The running verb answers.  A frozen sync that refuses has replaced trees
\* all the same (Project's FrozenLeavesBuild is violated).
Answer ==
  /\ running /\ running' = FALSE
  /\ verb' = verb /\ answer' \notin Died \union {"none"}
  /\ IF verb \in {"get", "remove"} /\ answer' # "ok" THEN UNCHANGED shown ELSE Carried
  /\ answer' = "refused" => UNCHANGED shown
  /\ answer' \in {"frozen", "error"} \/ verb = "vendor" => KeepsTrees
  /\ verb \in {"tidy", "refreeze"} => shown'.vendor = shown.vendor
  /\ verb \in {"frozen", "vendor"} => SameLock
  /\ verb = "refreeze" /\ answer' # "ok" => SameLock
  /\ shown'.lockFile # shown.lockFile => shown'.lockFile = "whole"

\* The running verb dies: what it was writing may be torn.
Die ==
  /\ running /\ running' = FALSE
  /\ verb' = verb /\ answer' \in Died
  /\ \/ Carried
     \/ shown'.declared = shown.declared
     \/ verb \in {"get", "remove"} /\ shown'.declared = NoBids
  /\ verb = "vendor" => SameLock
  /\ verb \in {"tidy", "refreeze"} => shown'.vendor = shown.vendor
  /\ verb = "frozen" => SameLock \/ shown'.lockFile = "torn"
  /\ shown'.lockFile = "torn" => shown'.lock = NoLock

\* Something other than a verb: an edit of the package file or of a tree.
Disturb ==
  /\ ~running /\ running' = FALSE
  /\ answer' = "none"
  /\ SameLock

Next == Begin \/ Answer \/ Die \/ Disturb

Spec == Init /\ [][Next]_view
=============================================================================
