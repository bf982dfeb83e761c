---------------------------- MODULE ProfileProofs ----------------------------
(***************************************************************************)
(* Proofs about ProfileStore, for any number of processes, names and       *)
(* files: the file is always whole, its names differ, no temporary file is *)
(* left behind, and the file implements Registry.                          *)
(***************************************************************************)
EXTENDS ProfileStore, TLAPS

Inside == {"locked", "loaded", "writing", "written", "cleanup", "unlock"}
Saving == {"loaded", "writing", "written"}

(* Only the holder of the lock is inside Add. *)
LockOK == \A p \in Adders : pc[p] \in Inside <=> lock = p

(* Temporary names are borne by other files than those readers can reach. *)
TempsOK ==
    /\ path \notin temps
    /\ \A r \in Readers : reading[r] \notin temps
    /\ \A p \in Adders : pc[p] \in {"writing", "written"} => temp[p] \in temps
    /\ \A p \in Adders : temp[p] # Nothing => pc[p] \in {"writing", "written", "cleanup"}

(* What an adder has read is still in the file when it replaces it. *)
AdderOK(p) ==
    /\ pc[p] \in Saving =>
          loaded[p] = Content /\ name[p] \in Names /\ name[p] \notin Elements(Content)
    /\ pc[p] = "written" => data[temp[p]] = Append(loaded[p], name[p])
    /\ done[p] => /\ pc[p] \in {"cleanup", "unlock"}
                  /\ name[p] \in Names /\ name[p] \in Elements(Content)

AddersOK == \A p \in Adders : AdderOK(p)

AckedOK == acked \subseteq Elements(Content)

StoreInvariant ==
    /\ TypeOK /\ LockOK /\ TempsOK /\ AddersOK /\ AckedOK
    /\ ReadersSeeWhole /\ NamesUnique /\ NoStrayTemps

-----------------------------------------------------------------------------
(* Lists of names *)

LEMMA ContentTyped ==
  ASSUME TypeOK, Content # Partial
  PROVE  Content \in Seq(Names)
BY DEF TypeOK, Content

LEMMA ElementsAppend ==
  ASSUME NEW s \in Seq(Names), NEW n \in Names
  PROVE  Elements(Append(s, n)) = Elements(s) \cup {n}
<1> DEFINE t == Append(s, n)
<1>1. /\ Len(s) \in Nat /\ Len(t) = Len(s) + 1 /\ t[Len(s) + 1] = n
      /\ \A i \in 1..Len(s) : t[i] = s[i]
  OBVIOUS
<1>2. \A i \in 1..Len(t) : t[i] \in Elements(s) \cup {n} BY <1>1 DEF Elements
<1>3. \A x \in Elements(s) : \E i \in 1..Len(t) : x = t[i]
  <2> SUFFICES ASSUME NEW i \in 1..Len(s) PROVE \E j \in 1..Len(t) : s[i] = t[j]
    BY DEF Elements
  <2>1. i \in 1..Len(t) /\ t[i] = s[i] BY <1>1
  <2> QED BY <2>1
<1>4. \E i \in 1..Len(t) : n = t[i] BY <1>1
<1> HIDE DEF t
<1> QED BY <1>2, <1>3, <1>4 DEF Elements, t

LEMMA UniqueAppend ==
  ASSUME NEW s \in Seq(Names), NEW n \in Names, n \notin Elements(s),
         \A i, j \in 1..Len(s) : s[i] = s[j] => i = j
  PROVE  \A i, j \in 1..Len(Append(s, n)) :
            Append(s, n)[i] = Append(s, n)[j] => i = j
<1> DEFINE t == Append(s, n)
<1>1. /\ Len(s) \in Nat /\ Len(t) = Len(s) + 1 /\ t[Len(s) + 1] = n
      /\ \A i \in 1..Len(s) : t[i] = s[i] /\ s[i] # n
  BY DEF Elements
<1> HIDE DEF t
<1>2. SUFFICES ASSUME NEW i \in 1..Len(t), NEW j \in 1..Len(t), t[i] = t[j] PROVE i = j
  BY DEF t
<1>3. CASE i \in 1..Len(s) /\ j \in 1..Len(s) BY <1>1, <1>2, <1>3
<1>4. CASE i = Len(s) + 1 \/ j = Len(s) + 1 BY <1>1, <1>2, <1>4
<1> QED BY <1>1, <1>3, <1>4

(***************************************************************************)
(* Steps that change no file: they preserve what is said about the content *)
(* and what readers see.                                                   *)
(***************************************************************************)
LEMMA SameContent ==
  ASSUME ReadersSeeWhole, NamesUnique, UNCHANGED <<path, data, reading>>
  PROVE  Content' = Content /\ ReadersSeeWhole' /\ NamesUnique'
BY DEF Content, ReadersSeeWhole, NamesUnique

-----------------------------------------------------------------------------
(* One lemma per action *)

LEMMA InitOK ==
  ASSUME Init PROVE StoreInvariant
<1> USE NothingAssumption, PartialAssumption DEF Init
<1>e. <<>> \in Seq(Names) OBVIOUS
<1>0. Content = <<>> /\ <<>> # Partial BY <1>e DEF Content
<1>1. TypeOK BY <1>e DEF TypeOK, Points
<1>2. LockOK BY DEF LockOK, Inside
<1>3. TempsOK BY DEF TempsOK
<1>4. AddersOK BY DEF AddersOK, AdderOK, Saving
<1>5. AckedOK BY DEF AckedOK
<1>6. ReadersSeeWhole BY <1>0 DEF ReadersSeeWhole
<1>7. NamesUnique BY <1>0 DEF NamesUnique
<1>8. NoStrayTemps BY DEF NoStrayTemps
<1> QED BY <1>1, <1>2, <1>3, <1>4, <1>5, <1>6, <1>7, <1>8 DEF StoreInvariant

LEMMA StartStep ==
  ASSUME StoreInvariant, NEW p \in Adders, Start(p) PROVE StoreInvariant'
<1> USE DEF StoreInvariant, Start
<1>0. Content' = Content /\ ReadersSeeWhole' /\ NamesUnique' BY SameContent
<1>1. TypeOK' BY DEF TypeOK, Points
<1>2. LockOK' BY DEF TypeOK, LockOK, Inside
<1>3. TempsOK' BY DEF TypeOK, TempsOK
<1>4. AddersOK' BY <1>0 DEF TypeOK, AddersOK, AdderOK, Saving
<1>5. AckedOK' BY <1>0 DEF AckedOK
<1>6. NoStrayTemps' BY DEF NoStrayTemps
<1> QED BY <1>0, <1>1, <1>2, <1>3, <1>4, <1>5, <1>6

LEMMA AcquireStep ==
  ASSUME StoreInvariant, NEW p \in Adders, Acquire(p) PROVE StoreInvariant'
<1> USE DEF StoreInvariant, Acquire
<1>0. Content' = Content /\ ReadersSeeWhole' /\ NamesUnique' BY SameContent
<1>1. TypeOK' BY DEF TypeOK, Points
<1>2. LockOK' BY NothingAssumption DEF TypeOK, LockOK, LockFree, Inside
<1>3. TempsOK' BY DEF TypeOK, TempsOK
<1>4. AddersOK' BY <1>0 DEF TypeOK, AddersOK, AdderOK, Saving
<1>5. AckedOK' BY <1>0 DEF AckedOK
<1>6. NoStrayTemps' BY DEF NoStrayTemps
<1> QED BY <1>0, <1>1, <1>2, <1>3, <1>4, <1>5, <1>6

LEMMA LoadStep ==
  ASSUME StoreInvariant, NEW p \in Adders, LoadLocked(p) PROVE StoreInvariant'
<1> USE DEF StoreInvariant, LoadLocked
<1>0. Content' = Content /\ ReadersSeeWhole' /\ NamesUnique' BY SameContent
<1>1. TypeOK' BY ContentTyped DEF TypeOK, Points
<1>2. LockOK' BY DEF TypeOK, LockOK, Inside
<1>3. TempsOK' BY DEF TypeOK, TempsOK
<1>4. AddersOK' BY <1>0 DEF TypeOK, AddersOK, AdderOK, Saving, Taken
<1>5. AckedOK' BY <1>0 DEF AckedOK
<1>6. NoStrayTemps' BY DEF NoStrayTemps
<1> QED BY <1>0, <1>1, <1>2, <1>3, <1>4, <1>5, <1>6

(* Both go on to release something without having saved anything. *)
LEMMA FailStep ==
  ASSUME StoreInvariant, NEW p \in Adders, AddRefused(p) \/ SaveFails(p)
  PROVE  StoreInvariant'
<1> USE DEF StoreInvariant
<1>a. /\ \E q \in {"unlock", "cleanup"} : pc' = [pc EXCEPT ![p] = q]
      /\ pc[p] \in Inside \ {"cleanup", "unlock"}
      /\ pc[p] # "locked" => pc' = [pc EXCEPT ![p] = "cleanup"]
      /\ UNCHANGED <<path, data, temps, lock, name, loaded, temp, done, reading,
                     orphans, acked>>
  BY DEF AddRefused, SaveFails, Inside
<1>0. Content' = Content /\ ReadersSeeWhole' /\ NamesUnique' BY <1>a, SameContent
<1>1. TypeOK' BY <1>a DEF TypeOK, Points
<1>2. LockOK' BY <1>a DEF TypeOK, LockOK, Inside
<1>3. TempsOK' BY <1>a DEF TypeOK, TempsOK
<1>4. AddersOK' BY <1>0, <1>a DEF TypeOK, AddersOK, AdderOK, Saving
<1>5. AckedOK' BY <1>0, <1>a DEF AckedOK
<1>6. NoStrayTemps' BY <1>a DEF NoStrayTemps
<1> QED BY <1>0, <1>1, <1>2, <1>3, <1>4, <1>5, <1>6

LEMMA CreateTempStep ==
  ASSUME StoreInvariant, NEW p \in Adders, CreateTemp(p) PROVE StoreInvariant'
<1> USE DEF StoreInvariant
<1>a. PICK i \in Inodes : /\ Free(i) /\ data' = [data EXCEPT ![i] = Partial]
                          /\ temps' = temps \cup {i} /\ temp' = [temp EXCEPT ![p] = i]
  BY DEF CreateTemp
<1>b. /\ pc[p] = "loaded" /\ pc' = [pc EXCEPT ![p] = "writing"]
      /\ UNCHANGED <<path, lock, name, loaded, done, reading, orphans, acked>>
  BY DEF CreateTemp
<1>c. \A q \in Adders : q # p => pc[q] \notin Inside BY <1>b DEF LockOK, Inside
<1>0. Content' = Content BY <1>a, <1>b DEF Content, Free, TypeOK
<1>1. TypeOK' BY <1>a, <1>b DEF TypeOK, Points
<1>2. LockOK' BY <1>b DEF TypeOK, LockOK, Inside
<1>3. TempsOK' BY <1>a, <1>b DEF TypeOK, TempsOK, Free
<1>4. AddersOK' BY <1>0, <1>a, <1>b, <1>c DEF TypeOK, AddersOK, AdderOK, Saving, Inside
<1>5. AckedOK' BY <1>0, <1>b DEF AckedOK
<1>6. ReadersSeeWhole' BY <1>0, <1>a, <1>b DEF ReadersSeeWhole, Free, TypeOK
<1>7. NamesUnique' BY <1>0 DEF NamesUnique
<1>8. NoStrayTemps'
  <2>1. \A q \in Adders : q # p => temp'[q] = temp[q] BY <1>a DEF TypeOK
  <2>2. temp'[p] = i BY <1>a DEF TypeOK
  <2>3. temp[p] \notin temps BY <1>b, NothingAssumption DEF TempsOK, TypeOK
  <2> QED BY <1>a, <1>b, <2>1, <2>2, <2>3 DEF NoStrayTemps
<1> QED BY <1>1, <1>2, <1>3, <1>4, <1>5, <1>6, <1>7, <1>8

LEMMA WriteTempStep ==
  ASSUME StoreInvariant, NEW p \in Adders, WriteTemp(p) PROVE StoreInvariant'
<1> USE DEF StoreInvariant
<1>a. /\ pc[p] = "writing" /\ pc' = [pc EXCEPT ![p] = "written"]
      /\ data' = [data EXCEPT ![temp[p]] = Append(loaded[p], name[p])]
      /\ UNCHANGED <<path, temps, lock, name, loaded, temp, done, reading, orphans, acked>>
  BY DEF WriteTemp
<1>b. temp[p] \in temps /\ temp[p] \in Inodes BY <1>a DEF TempsOK, TypeOK
<1>c. \A q \in Adders : q # p => pc[q] \notin Inside BY <1>a DEF LockOK, Inside
<1>d. name[p] \in Names /\ loaded[p] \in Seq(Names)
  BY <1>a DEF AddersOK, AdderOK, Saving, TypeOK
<1>e. Append(loaded[p], name[p]) \in Seq(Names) BY <1>d
<1>0. Content' = Content BY <1>a, <1>b DEF Content, TempsOK, TypeOK
<1>1. TypeOK' BY <1>a, <1>b, <1>e DEF TypeOK, Points
<1>2. LockOK' BY <1>a DEF TypeOK, LockOK, Inside
<1>3. TempsOK' BY <1>a DEF TypeOK, TempsOK
<1>4. AddersOK' BY <1>0, <1>a, <1>b, <1>c DEF TypeOK, AddersOK, AdderOK, Saving, Inside
<1>5. AckedOK' BY <1>0, <1>a DEF AckedOK
<1>6. ReadersSeeWhole' BY <1>0, <1>a, <1>b DEF ReadersSeeWhole, TempsOK, TypeOK
<1>7. NamesUnique' BY <1>0 DEF NamesUnique
<1>8. NoStrayTemps' BY <1>a DEF NoStrayTemps
<1> QED BY <1>1, <1>2, <1>3, <1>4, <1>5, <1>6, <1>7, <1>8

(* The only step that changes the content: one new name at the end. *)
LEMMA RenameAppends ==
  ASSUME StoreInvariant, NEW p \in Adders, Rename(p)
  PROVE  /\ Content \in Seq(Names) /\ name[p] \in Names
         /\ name[p] \notin Elements(Content)
         /\ Content' = Append(Content, name[p])
<1>1. /\ loaded[p] = Content /\ name[p] \in Names /\ name[p] \notin Elements(Content)
      /\ data[temp[p]] = Append(loaded[p], name[p])
  BY DEF StoreInvariant, AddersOK, AdderOK, Saving, Rename, Written
<1>2. temp[p] # Nothing
  BY NothingAssumption DEF StoreInvariant, TempsOK, TypeOK, Rename, Written
<1> QED BY <1>1, <1>2 DEF StoreInvariant, TypeOK, Content, Rename

LEMMA RenameStep ==
  ASSUME StoreInvariant, NEW p \in Adders, Rename(p) PROVE StoreInvariant'
<1> USE DEF StoreInvariant
<1>a. /\ pc[p] = "written" /\ pc' = [pc EXCEPT ![p] = "cleanup"]
      /\ path' = temp[p] /\ temps' = temps \ {temp[p]} /\ done' = [done EXCEPT ![p] = TRUE]
      /\ UNCHANGED <<data, lock, name, loaded, temp, reading, orphans, acked>>
  BY DEF Rename, Written
<1>b. temp[p] \in temps /\ temp[p] \in Inodes BY <1>a DEF TempsOK, TypeOK
<1>c. \A q \in Adders : q # p => pc[q] \notin Inside BY <1>a DEF LockOK, Inside
<1>0. /\ Content \in Seq(Names) /\ name[p] \in Names /\ name[p] \notin Elements(Content)
      /\ Content' = Append(Content, name[p])
  BY RenameAppends
<1>d. Elements(Content') = Elements(Content) \cup {name[p]} BY <1>0, ElementsAppend
<1>1. TypeOK' BY <1>a, <1>b DEF TypeOK, Points
<1>2. LockOK' BY <1>a DEF TypeOK, LockOK, Inside
<1>3. TempsOK' BY <1>a, <1>c DEF TypeOK, TempsOK, Inside
<1>4. AddersOK'
  <2> SUFFICES ASSUME NEW q \in Adders PROVE AdderOK(q)' BY DEF AddersOK
  <2>1. CASE q = p BY <2>1, <1>0, <1>a, <1>d DEF TypeOK, AdderOK, Saving
  <2>2. CASE q # p
    <3>1. pc'[q] = pc[q] /\ pc[q] \notin Inside /\ done'[q] = done[q]
      BY <2>2, <1>a, <1>c DEF TypeOK
    <3>2. ~done[q] BY <3>1 DEF AddersOK, AdderOK, Inside
    <3> QED BY <3>1, <3>2 DEF AdderOK, Saving, Inside
  <2> QED BY <2>1, <2>2
<1>5. AckedOK' BY <1>a, <1>d DEF AckedOK
<1>6. ReadersSeeWhole'
  <2>1. Content' \in Seq(Names) BY <1>0
  <2> QED BY <2>1, <1>a, PartialAssumption DEF ReadersSeeWhole
<1>7. NamesUnique' BY <1>0, UniqueAppend DEF NamesUnique
<1>8. NoStrayTemps' BY <1>a DEF NoStrayTemps
<1> QED BY <1>1, <1>2, <1>3, <1>4, <1>5, <1>6, <1>7, <1>8

LEMMA CleanupStep ==
  ASSUME StoreInvariant, NEW p \in Adders, Cleanup(p) PROVE StoreInvariant'
<1> USE DEF StoreInvariant
<1>a. /\ pc[p] = "cleanup" /\ pc' = [pc EXCEPT ![p] = "unlock"]
      /\ temps' = temps \ {temp[p]} /\ temp' = [temp EXCEPT ![p] = Nothing]
      /\ UNCHANGED <<path, data, lock, name, loaded, done, reading, orphans, acked>>
  BY DEF Cleanup, Removed
<1>c. \A q \in Adders : q # p => pc[q] \notin Inside BY <1>a DEF LockOK, Inside
<1>0. Content' = Content /\ ReadersSeeWhole' /\ NamesUnique' BY <1>a, SameContent
<1>1. TypeOK' BY <1>a DEF TypeOK, Points
<1>2. LockOK' BY <1>a DEF TypeOK, LockOK, Inside
<1>3. TempsOK' BY <1>a, <1>c DEF TypeOK, TempsOK, Inside
<1>4. AddersOK' BY <1>0, <1>a, <1>c DEF TypeOK, AddersOK, AdderOK, Saving, Inside
<1>5. AckedOK' BY <1>0, <1>a DEF AckedOK
<1>6. NoStrayTemps'
  <2>1. \A q \in Adders : q # p => temp'[q] = temp[q] BY <1>a DEF TypeOK
  <2> QED BY <1>a, <2>1 DEF NoStrayTemps
<1> QED BY <1>0, <1>1, <1>2, <1>3, <1>4, <1>5, <1>6

LEMMA UnlockStep ==
  ASSUME StoreInvariant, NEW p \in Adders, Unlock(p) PROVE StoreInvariant'
<1> USE DEF StoreInvariant, Unlock, Forget
<1>c. \A q \in Adders : q # p => pc[q] \notin Inside BY DEF LockOK, Inside
<1>d. done[p] => name[p] \in Names /\ name[p] \in Elements(Content)
  BY DEF AddersOK, AdderOK
<1>0. Content' = Content /\ ReadersSeeWhole' /\ NamesUnique' BY SameContent
<1>1. TypeOK'
  <2>1. <<>> \in Seq(Names) OBVIOUS
  <2> QED BY <1>d, <2>1 DEF TypeOK, Points, LockAfter
<1>2. LockOK' BY <1>c, NothingAssumption DEF TypeOK, LockOK, LockAfter, Inside
<1>3. TempsOK' BY DEF TypeOK, TempsOK
<1>4. AddersOK' BY <1>0, <1>c DEF TypeOK, AddersOK, AdderOK, Saving, Inside
<1>5. AckedOK' BY <1>0, <1>d DEF AckedOK
<1>6. NoStrayTemps'
  <2>1. \A q \in Adders : q # p => temp'[q] = temp[q] BY DEF TypeOK
  <2>2. temp[p] \notin temps BY NothingAssumption DEF TempsOK, TypeOK
  <2> QED BY <2>1, <2>2 DEF NoStrayTemps
<1> QED BY <1>0, <1>1, <1>2, <1>3, <1>4, <1>5, <1>6

LEMMA KillStep ==
  ASSUME StoreInvariant, NEW p \in Adders, Kill(p) PROVE StoreInvariant'
<1> USE DEF StoreInvariant, Kill, Forget
<1>0. Content' = Content /\ ReadersSeeWhole' /\ NamesUnique' BY SameContent
<1>1. TypeOK'
  <2>1. <<>> \in Seq(Names) OBVIOUS
  <2> QED BY <2>1 DEF TypeOK, Points
<1>2. LockOK' BY NothingAssumption DEF TypeOK, LockOK, Inside
<1>3. TempsOK' BY DEF TypeOK, TempsOK
<1>4. AddersOK' BY <1>0 DEF TypeOK, AddersOK, AdderOK, Saving
<1>5. AckedOK' BY <1>0 DEF AckedOK
<1>6. NoStrayTemps'
  <2>1. \A q \in Adders : q # p => temp'[q] = temp[q] BY DEF TypeOK
  <2> QED BY <2>1 DEF NoStrayTemps
<1> QED BY <1>0, <1>1, <1>2, <1>3, <1>4, <1>5, <1>6

LEMMA ReaderStep ==
  ASSUME StoreInvariant, NEW r \in Readers, OpenFile(r) \/ ReadFile(r)
  PROVE  StoreInvariant'
<1> USE DEF StoreInvariant
<1>a. /\ \E i \in {path, Nothing} : reading' = [reading EXCEPT ![r] = i]
      /\ UNCHANGED <<path, data, temps, lock, adderVars, orphans, acked>>
  BY DEF OpenFile, ReadFile
<1>0. Content' = Content BY <1>a DEF Content
<1>1. TypeOK' BY <1>a DEF TypeOK, Points, adderVars
<1>2. LockOK' BY <1>a DEF LockOK, Inside, adderVars
<1>3. TempsOK' BY <1>a, NothingAssumption DEF TypeOK, TempsOK, adderVars
<1>4. AddersOK' BY <1>0, <1>a DEF AddersOK, AdderOK, Saving, adderVars
<1>5. AckedOK' BY <1>0, <1>a DEF AckedOK
<1>6. ReadersSeeWhole' BY <1>0, <1>a DEF ReadersSeeWhole, Content, TypeOK
<1>7. NamesUnique' BY <1>0 DEF NamesUnique
<1>8. NoStrayTemps' BY <1>a DEF NoStrayTemps, adderVars
<1> QED BY <1>1, <1>2, <1>3, <1>4, <1>5, <1>6, <1>7, <1>8

LEMMA StepOK ==
  ASSUME StoreInvariant, [Next]_vars PROVE StoreInvariant'
<1>1. CASE UNCHANGED vars
  BY <1>1 DEF StoreInvariant, vars, adderVars, TypeOK, LockOK, TempsOK, AddersOK, AdderOK,
              AckedOK, ReadersSeeWhole, NamesUnique, NoStrayTemps, Content
<1>2. CASE \E r \in Readers : OpenFile(r) \/ ReadFile(r) BY <1>2, ReaderStep
<1>3. CASE \E p \in Adders : Start(p) \/ Acquire(p) \/ Proceed(p) \/ Kill(p)
  BY <1>3, StartStep, AcquireStep, LoadStep, FailStep, CreateTempStep, WriteTempStep,
     RenameStep, CleanupStep, UnlockStep, KillStep DEF Proceed
<1> QED BY <1>1, <1>2, <1>3 DEF Next

-----------------------------------------------------------------------------
(***************************************************************************)
(* StoreInvariant is inductive: it holds in every reachable state.         *)
(***************************************************************************)
THEOREM StoreInvariance == Spec => []StoreInvariant
<1>1. Init => StoreInvariant BY InitOK
<1>2. StoreInvariant /\ [Next]_vars => StoreInvariant' BY StepOK
<1> QED BY <1>1, <1>2, PTL DEF Spec

(***************************************************************************)
(* Whatever number of processes load the file while others are adding to   *)
(* it or are killed, they read a whole file.                               *)
(***************************************************************************)
THEOREM WholeFile == Spec => []ReadersSeeWhole
<1>1. StoreInvariant => ReadersSeeWhole BY DEF StoreInvariant
<1> QED BY <1>1, StoreInvariance, PTL

(***************************************************************************)
(* Any number of concurrent additions leaves all names in the file         *)
(* different, and no temporary file of an Add that returned.               *)
(***************************************************************************)
THEOREM UniqueNames == Spec => []NamesUnique /\ []NoStrayTemps
<1>1. StoreInvariant => NamesUnique /\ NoStrayTemps BY DEF StoreInvariant
<1> QED BY <1>1, StoreInvariance, PTL

(* Every step appends a new name, acknowledges one, or changes neither. *)
LEMMA RegistryStep ==
  ASSUME StoreInvariant, [Next]_vars PROVE [Shared!Next]_(Shared!rvars)
<1> USE DEF Shared!rvars, Shared!Next, Shared!Append1, Shared!Acknowledge,
            Shared!Elements
<1>1. CASE \E p \in Adders : Rename(p)
  <2> PICK p \in Adders : Rename(p) BY <1>1
  <2>1. /\ name[p] \in Names /\ name[p] \notin Elements(Content)
        /\ Content' = Append(Content, name[p])
    BY RenameAppends
  <2>2. acked' = acked BY DEF Rename
  <2> QED BY <2>1, <2>2 DEF Elements
<1>2. CASE \E p \in Adders : Unlock(p)
  <2> PICK p \in Adders : Unlock(p) BY <1>2
  <2>1. Content' = Content BY DEF Unlock, Content
  <2>2. CASE done[p]
    <3>1. name[p] \in Names /\ name[p] \in Elements(Content)
      BY <2>2 DEF StoreInvariant, AddersOK, AdderOK
    <3>2. acked' = acked \cup {name[p]} BY <2>2 DEF Unlock
    <3> QED BY <2>1, <3>1, <3>2 DEF Elements
  <2>3. CASE ~done[p] BY <2>1, <2>3 DEF Unlock
  <2> QED BY <2>2, <2>3
<1>3. CASE \E p \in Adders : CreateTemp(p)
  BY <1>3 DEF StoreInvariant, TypeOK, CreateTemp, Content, Free
<1>4. CASE \E p \in Adders : WriteTemp(p)
  BY <1>4 DEF StoreInvariant, TypeOK, TempsOK, WriteTemp, Content
<1>5. CASE \/ UNCHANGED vars \/ \E r \in Readers : OpenFile(r) \/ ReadFile(r)
           \/ \E p \in Adders : \/ Start(p) \/ Acquire(p) \/ LoadLocked(p) \/ AddRefused(p)
                                \/ SaveFails(p) \/ Cleanup(p) \/ Kill(p)
  <2>1. UNCHANGED <<path, data, acked>>
    BY <1>5 DEF vars, OpenFile, ReadFile, Start, Acquire, LoadLocked, AddRefused,
                SaveFails, Cleanup, Kill
  <2> QED BY <2>1 DEF Content
<1> QED BY <1>1, <1>2, <1>3, <1>4, <1>5 DEF Next, Proceed

(***************************************************************************)
(* The shared file implements Registry: no addition is lost, doubled or    *)
(* undone, and none that was reported disappears.                          *)
(***************************************************************************)
THEOREM Refinement == Spec => FileIsRegistry
<1>1. Init => Shared!Init BY DEF Init, Shared!Init, Content
<1>2. StoreInvariant /\ [Next]_vars => [Shared!Next]_(Shared!rvars) BY RegistryStep
<1> QED BY <1>1, <1>2, StoreInvariance, PTL DEF Spec, FileIsRegistry, Shared!Spec
=============================================================================
