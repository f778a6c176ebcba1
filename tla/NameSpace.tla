----------------------------- MODULE NameSpace -----------------------------
(***************************************************************************)
(* What a directory tree promises: names lead to objects, a name leads to  *)
(* one object, and no name goes but the one that was asked to go.          *)
(***************************************************************************)
EXTENDS FiniteSets

CONSTANTS Root, Directory       \* objects that hold names

VARIABLE entries                \* a set of [dir, name, object]

Free(d, n) == \A e \in entries : e.dir # d \/ e.name # n
Empty(d) == \A e \in entries : e.dir # d

Init == \A e \in entries : e.dir = Root

\* A new object, or the new place of one that is being moved.
Add(e) == Free(e.dir, e.name)

\* The old place of one that was moved, a file, or a directory that is empty.
Remove(e) ==
    \/ e.object \notin Directory
    \/ Empty(e.object)
    \/ \E other \in entries' : other.object = e.object

Rename(old, new) ==
    /\ old.dir = new.dir /\ old.object = new.object
    /\ Free(new.dir, new.name)

Next ==
    LET gone == entries \ entries'
        come == entries' \ entries
    IN
    \/ gone = {} /\ \E e \in come : come = {e} /\ Add(e)
    \/ come = {} /\ \E e \in gone : gone = {e} /\ Remove(e)
    \/ \E old \in gone, new \in come : gone = {old} /\ come = {new} /\ Rename(old, new)

Spec == Init /\ [][Next]_entries
=============================================================================
