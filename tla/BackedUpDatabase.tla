---------------------------- MODULE BackedUpDatabase ----------------------------
(***************************************************************************)
(* What a project promises for its data, without files, connections and    *)
(* locks: a database that commits and restores change in one step each,    *)
(* and backups that are its states of some moment and never change.  The   *)
(* content of a database is the number of its last commit, or Torn.        *)
(***************************************************************************)
EXTENDS Naturals

CONSTANTS
  Actors,  \* who makes and restores backups
  Names,   \* the names of backups
  None,    \* no such backup; nothing at hand; no promise any more
  Partial, \* a backup that is not finished
  Torn     \* a copy of such a backup

VARIABLES
  value,   \* what the database holds, or None: the project was deleted, or
           \* something happened that the program does not handle
  latest,  \* the number of the last commit
  saved,   \* the backups
  copied,  \* what each actor has read of the database, to save it
  fetched  \* what each actor has read of a backup, to restore it

vars == <<value, latest, saved, copied, fetched>>

Init ==
  /\ value = 0 /\ latest = 0
  /\ saved = [n \in Names |-> None]
  /\ copied = [a \in Actors |-> None]
  /\ fetched = [a \in Actors |-> None]

Commit ==
  /\ value \notin {None, Torn}
  /\ value' = latest + 1 /\ latest' = latest + 1
  /\ UNCHANGED <<saved, copied, fetched>>

\* A backup is the state of the moment in which it was started.
Snapshot(a, n) ==
  /\ value # None /\ saved[n] = None
  /\ copied' = [copied EXCEPT ![a] = value]
  /\ saved' = [saved EXCEPT ![n] = Partial]
  /\ UNCHANGED <<value, latest, fetched>>

Save(a, n) ==
  /\ value # None /\ saved[n] = Partial /\ copied[a] # None
  /\ saved' = [saved EXCEPT ![n] = copied[a]]
  /\ copied' = [copied EXCEPT ![a] = None]
  /\ UNCHANGED <<value, latest, fetched>>

Remove(n) ==
  /\ value # None
  /\ saved' = [saved EXCEPT ![n] = None]
  /\ UNCHANGED <<value, latest, copied, fetched>>

Fetch(a, n) ==
  /\ value # None /\ saved[n] # None
  /\ fetched' = [fetched EXCEPT ![a] = IF saved[n] = Partial THEN Torn ELSE saved[n]]
  /\ UNCHANGED <<value, latest, saved, copied>>

Restore(a) ==
  /\ value # None /\ fetched[a] # None
  /\ value' = fetched[a]
  /\ fetched' = [fetched EXCEPT ![a] = None]
  /\ UNCHANGED <<latest, saved, copied>>

\* The backup or restore of a has ended, in whatever way.
GiveUp(a) ==
  /\ value # None
  /\ copied' = [copied EXCEPT ![a] = None]
  /\ fetched' = [fetched EXCEPT ![a] = None]
  /\ UNCHANGED <<value, latest, saved>>

\* A crash loses nothing but what was under way.
Crash ==
  /\ value # None
  /\ copied' = [a \in Actors |-> None]
  /\ fetched' = [a \in Actors |-> None]
  /\ UNCHANGED <<value, latest, saved>>

\* The last step of which something is said.
End == value' = None

Next ==
  \/ Commit \/ Crash \/ End
  \/ \E n \in Names : Remove(n)
  \/ \E a \in Actors : Restore(a) \/ GiveUp(a)
  \/ \E a \in Actors, n \in Names : Snapshot(a, n) \/ Save(a, n) \/ Fetch(a, n)

Spec == Init /\ [][Next]_vars

(* Every copy there is, of whatever age, is a state that the database was  *)
(* committed in, unless it was taken from a backup before that was         *)
(* finished; nothing is a mixture of two states.                           *)
Known == (0..latest) \cup {Torn}
OnlyCommitted ==
  value # None =>
    /\ value \in Known
    /\ \A n \in Names : saved[n] \in Known \cup {None, Partial}
    /\ \A a \in Actors : copied[a] \in Known \cup {None} /\ fetched[a] \in Known \cup {None}
=============================================================================
