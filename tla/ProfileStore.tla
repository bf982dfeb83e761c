---------------------------- MODULE ProfileStore ----------------------------
(***************************************************************************)
(* internal/connections: Add, Load and Save on the profile file, shared by *)
(* every relvo process of the user.  Adders run `relvo connections add`;   *)
(* readers load the file without the lock, as every other start does.      *)
(*                                                                         *)
(* The directory is a set of inodes: one may bear the name of the profile  *)
(* file, others a temporary name.  A process that is killed leaves its     *)
(* temporary file behind and the kernel drops its lock.  A profile is      *)
(* represented by its name.  Nobody edits the file by hand meanwhile, and  *)
(* the machine itself does not go down.                                    *)
(***************************************************************************)
EXTENDS Integers, Sequences, FiniteSets

CONSTANTS
    Adders,     \* processes inside connections.Add
    Readers,    \* processes inside connections.Load
    Names,      \* profile names that are not blank
    Inodes,     \* bounds the files that exist at the same time
    Partial,    \* what an inode holds before all of its content is written
    Nothing     \* no file, no process, a blank name

ASSUME NothingAssumption == Nothing \notin Adders \cup Names \cup Inodes

ASSUME PartialAssumption == Partial \notin Seq(Names)

VARIABLES
    path,       \* the inode of the profile file
    data,       \* the content of each inode
    temps,      \* inodes that bear a temporary name
    lock,       \* the adder that holds the flock on path + ".lock"
    pc,         \* where each adder is
    name,       \* the profile each adder adds
    loaded,     \* the profiles each adder has read
    temp,       \* the temporary file each adder has created
    done,       \* the adder's Save has replaced the file
    reading,    \* the inode each reader has opened
    orphans,    \* history: temporary files of processes that were killed
    acked       \* history: names whose Add returned without an error

adderVars == <<pc, name, loaded, temp, done>>
vars == <<path, data, temps, lock, adderVars, reading, orphans, acked>>

Elements(s) == {s[i] : i \in 1..Len(s)}

(* The profiles in the file; a file that does not exist holds none. *)
Content == IF path = Nothing THEN <<>> ELSE data[path]

Init ==
    /\ path = Nothing
    /\ data = [i \in Inodes |-> Partial]
    /\ temps = {} /\ orphans = {} /\ acked = {}
    /\ lock = Nothing
    /\ pc = [p \in Adders |-> "idle"]
    /\ name = [p \in Adders |-> Nothing]
    /\ loaded = [p \in Adders |-> <<>>]
    /\ temp = [p \in Adders |-> Nothing]
    /\ done = [p \in Adders |-> FALSE]
    /\ reading = [r \in Readers |-> Nothing]

-----------------------------------------------------------------------------
(* Add *)

(* Until the lock file is open an error leaves nothing behind. *)
Start(p) ==
    /\ pc[p] = "idle"
    /\ \E n \in Names \cup {Nothing} : name' = [name EXCEPT ![p] = n]
    /\ pc' = [pc EXCEPT ![p] = "waiting"]
    /\ UNCHANGED <<path, data, temps, lock, loaded, temp, done, reading, orphans, acked>>

(* Seeded fault: the lock is shared. *)
LockIgnored == TRUE

LockFree == lock = Nothing

(* Flock, which is retried when a signal interrupts it. *)
Acquire(p) ==
    /\ pc[p] = "waiting" /\ LockFree
    /\ lock' = p
    /\ pc' = [pc EXCEPT ![p] = "locked"]
    /\ UNCHANGED <<path, data, temps, name, loaded, temp, done, reading, orphans, acked>>

Taken(s, n) == n \in Elements(s)

(* Load under the lock, and the checks of the new profile that pass. *)
LoadLocked(p) ==
    /\ pc[p] = "locked"
    /\ Content # Partial
    /\ name[p] # Nothing /\ ~Taken(Content, name[p])
    /\ loaded' = [loaded EXCEPT ![p] = Content]
    /\ pc' = [pc EXCEPT ![p] = "loaded"]
    /\ UNCHANGED <<path, data, temps, lock, name, temp, done, reading, orphans, acked>>

(* Load fails, or a check does: a blank or known name, or Resolve. *)
AddRefused(p) ==
    /\ pc[p] = "locked"
    /\ pc' = [pc EXCEPT ![p] = "unlock"]
    /\ UNCHANGED <<path, data, temps, lock, name, loaded, temp, done, reading, orphans,
                   acked>>

-----------------------------------------------------------------------------
(* Save *)

Free(i) == i # path /\ i \notin temps /\ \A r \in Readers : reading[r] # i

CreateTemp(p) ==
    /\ pc[p] = "loaded"
    /\ \E i \in Inodes :
          /\ Free(i)
          /\ data' = [data EXCEPT ![i] = Partial]
          /\ temps' = temps \cup {i}
          /\ temp' = [temp EXCEPT ![p] = i]
    /\ pc' = [pc EXCEPT ![p] = "writing"]
    /\ UNCHANGED <<path, lock, name, loaded, done, reading, orphans, acked>>

(* Chmod, Write, Sync and Close. *)
WriteTemp(p) ==
    /\ pc[p] = "writing"
    /\ data' = [data EXCEPT ![temp[p]] = Append(loaded[p], name[p])]
    /\ pc' = [pc EXCEPT ![p] = "written"]
    /\ UNCHANGED <<path, temps, lock, name, loaded, temp, done, reading, orphans, acked>>

(* Seeded fault: the file is replaced before it is written. *)
CreatedOrWritten(p) == pc[p] \in {"writing", "written"}

Written(p) == pc[p] = "written"

Rename(p) ==
    /\ Written(p)
    /\ path' = temp[p]
    /\ temps' = temps \ {temp[p]}
    /\ done' = [done EXCEPT ![p] = TRUE]
    /\ pc' = [pc EXCEPT ![p] = "cleanup"]
    /\ UNCHANGED <<data, lock, name, loaded, temp, reading, orphans, acked>>

(* Any of these steps may fail, with the temporary file half written. *)
SaveFails(p) ==
    /\ pc[p] \in {"loaded", "writing", "written"}
    /\ pc' = [pc EXCEPT ![p] = "cleanup"]
    /\ UNCHANGED <<path, data, temps, lock, name, loaded, temp, done, reading, orphans,
                   acked>>

(* Seeded fault: a failed Save leaves its file behind. *)
NotRemoved(p) == temps

(* The deferred Remove finds nothing once the file has been renamed. *)
Removed(p) == temps \ {temp[p]}

Cleanup(p) ==
    /\ pc[p] = "cleanup"
    /\ temps' = Removed(p)
    /\ temp' = [temp EXCEPT ![p] = Nothing]
    /\ pc' = [pc EXCEPT ![p] = "unlock"]
    /\ UNCHANGED <<path, data, lock, name, loaded, done, reading, orphans, acked>>

-----------------------------------------------------------------------------
(* Leaving Add, and being killed *)

Forget(p) ==
    /\ name' = [name EXCEPT ![p] = Nothing]
    /\ loaded' = [loaded EXCEPT ![p] = <<>>]
    /\ temp' = [temp EXCEPT ![p] = Nothing]
    /\ done' = [done EXCEPT ![p] = FALSE]
    /\ pc' = [pc EXCEPT ![p] = "idle"]

(* Seeded fault: an Add that fails keeps the lock. *)
LockKeptOnError(p) == IF done[p] THEN Nothing ELSE p

LockAfter(p) == Nothing

Unlock(p) ==
    /\ pc[p] = "unlock"
    /\ lock' = LockAfter(p)
    /\ acked' = IF done[p] THEN acked \cup {name[p]} ELSE acked
    /\ Forget(p)
    /\ UNCHANGED <<path, data, temps, reading, orphans>>

Kill(p) ==
    /\ pc[p] # "idle"
    /\ lock' = IF lock = p THEN Nothing ELSE lock
    /\ orphans' = orphans \cup (temps \cap {temp[p]})
    /\ Forget(p)
    /\ UNCHANGED <<path, data, temps, reading, acked>>

-----------------------------------------------------------------------------
(* Load by a process that does not take the lock *)

OpenFile(r) ==
    /\ reading[r] = Nothing /\ path # Nothing
    /\ reading' = [reading EXCEPT ![r] = path]
    /\ UNCHANGED <<path, data, temps, lock, adderVars, orphans, acked>>

ReadFile(r) ==
    /\ reading[r] # Nothing
    /\ reading' = [reading EXCEPT ![r] = Nothing]
    /\ UNCHANGED <<path, data, temps, lock, adderVars, orphans, acked>>

-----------------------------------------------------------------------------
Proceed(p) ==
    \/ LoadLocked(p) \/ AddRefused(p) \/ CreateTemp(p) \/ WriteTemp(p) \/ Rename(p)
    \/ SaveFails(p) \/ Cleanup(p) \/ Unlock(p)

Next ==
    \/ \E p \in Adders : Start(p) \/ Acquire(p) \/ Proceed(p) \/ Kill(p)
    \/ \E r \in Readers : OpenFile(r) \/ ReadFile(r)

Spec == Init /\ [][Next]_vars

(* System calls return, and flock wakes every waiter in the end. *)
Fairness == \A p \in Adders : WF_vars(Proceed(p)) /\ SF_vars(Acquire(p))

FairSpec == Spec /\ Fairness

-----------------------------------------------------------------------------
(* Properties *)

Points == {"idle", "waiting", "locked", "loaded", "writing", "written", "cleanup",
           "unlock"}

TypeOK ==
    /\ path \in Inodes \cup {Nothing}
    /\ data \in [Inodes -> Seq(Names) \cup {Partial}]
    /\ temps \subseteq Inodes /\ orphans \subseteq Inodes
    /\ lock \in Adders \cup {Nothing}
    /\ pc \in [Adders -> Points]
    /\ name \in [Adders -> Names \cup {Nothing}]
    /\ loaded \in [Adders -> Seq(Names)]
    /\ temp \in [Adders -> Inodes \cup {Nothing}]
    /\ done \in [Adders -> BOOLEAN]
    /\ reading \in [Readers -> Inodes \cup {Nothing}]
    /\ acked \subseteq Names

(***************************************************************************)
(* The file is always whole, and so is what a reader has opened, although  *)
(* readers take no lock and adders may be killed at any point (Save        *)
(* replaces the file by a rename).                                         *)
(***************************************************************************)
ReadersSeeWhole ==
    /\ Content # Partial
    /\ \A r \in Readers : reading[r] # Nothing => data[reading[r]] # Partial

(***************************************************************************)
(* No two profiles in the file have the same name, whoever added them.     *)
(***************************************************************************)
NamesUnique == \A i, j \in 1..Len(Content) : Content[i] = Content[j] => i = j

(***************************************************************************)
(* A temporary file belongs to an Add that is still running or to one that *)
(* was killed: Add itself never leaves one, whichever of its steps failed. *)
(***************************************************************************)
NoStrayTemps == temps \subseteq orphans \cup {temp[p] : p \in Adders}

(***************************************************************************)
(* The file is a Registry: a list that grows by one new name at a time,    *)
(* from which nothing reported as saved ever disappears.                   *)
(***************************************************************************)
Shared == INSTANCE Registry WITH saved <- Content, acked <- acked

FileIsRegistry == Shared!Spec

(***************************************************************************)
(* Whoever waits for the lock gets it or is killed, and then returns: no   *)
(* failure and no death of another process keeps the lock taken.           *)
(***************************************************************************)
AddEnds == \A p \in Adders : pc[p] = "waiting" ~> pc[p] = "idle"
=============================================================================
