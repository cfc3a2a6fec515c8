----------------------------- MODULE BootProofs -----------------------------
(***************************************************************************)
(* How many keys and root certificates a certificate authority shows, for  *)
(* any number of keys, starts, stops, repairs and looks that fail.         *)
(***************************************************************************)
EXTENDS Boot, FiniteSetTheorems, TLAPS

HasKey == {"root", "saving root", "ready", "serving"}

BootTypes ==
    /\ rootMode \in {"loaded", "reissued"}
    /\ keyFile \in Key \cup {Absent, Torn}
    /\ rootFile \in Root \cup {Absent, Torn}
    /\ phase \in Phases
    /\ starts \in Nat
    /\ keyMisses \in Nat
    /\ rootMisses \in Nat

\* What has been served with, and what is safe in its file, with it one more.
Counted(used, file, Kind, misses) ==
    /\ IsFiniteSet(used)
    /\ IF file \in Kind
       THEN Cardinality(used \cup {file}) <= misses + 1
       ELSE Cardinality(used) <= misses

\* Until a key is complete in its file nothing is made with it, and the process
\* holds what the file says.
KeyInv ==
    /\ phase = "saving key" => key \in Key /\ keyFile = Torn
    /\ phase \in HasKey => keyFile \in Key /\ key = keyFile
    /\ Counted(signers, keyFile, Key, keyMisses)
    /\ signers = {} => shown = {}

\* The key file changes but once where no look misses it, so that every root
\* there is, in the file or in memory, is under its key.
RootInv ==
    keyMisses = 0 =>
        /\ keyFile \notin Key => rootFile = Absent
        /\ rootFile \in Root => rootFile[1] = keyFile
        /\ phase \in {"saving root", "ready", "serving"} => root[1] = keyFile

\* A root that is loaded at every start is shown only once it is in its file.
LoadedRootInv ==
    rootMode = "loaded" =>
        /\ phase = "saving root" => rootFile = Torn
        /\ phase \in {"ready", "serving"} => root = rootFile /\ rootFile \in Root
        /\ Counted(shown, rootFile, Root, rootMisses)

MemoryInv == phase \in {"saving root", "ready", "serving"} => root \in Root

BootInv == BootTypes /\ KeyInv /\ RootInv /\ LoadedRootInv /\ MemoryInv

LEMMA FilesDistinct ==
    /\ Absent \notin Key /\ Torn \notin Key
    /\ Absent \notin Root /\ Torn \notin Root
    /\ Absent # Torn
BY BootAssumption DEF Root

-----------------------------------------------------------------------------
(* Counting what has been shown *)

\* Nothing is counted at first.
LEMMA CountedFirst ==
    ASSUME NEW file, NEW Kind, file \notin Kind
    PROVE  Counted({}, file, Kind, 0)
BY FS_EmptySet DEF Counted

\* What is counted is within the bound.
LEMMA CountedBounds ==
    ASSUME NEW used, NEW file, NEW Kind, NEW misses \in Nat, Counted(used, file, Kind, misses)
    PROVE  /\ Cardinality(used) <= 1 + misses
           /\ misses = 0 /\ file \notin Kind => used = {}
<1>1. IsFiniteSet(used) /\ Cardinality(used) \in Nat
    BY FS_CardinalityType DEF Counted
<1>2. CASE file \in Kind
    <2>1. PICK more : more = used \cup {file}
        OBVIOUS
    <2>2. IsFiniteSet(more) /\ Cardinality(more) <= misses + 1
        BY <1>1, <1>2, <2>1, FS_AddElement DEF Counted
    <2>3. Cardinality(used) <= Cardinality(more) /\ Cardinality(more) \in Nat
        BY <2>1, <2>2, FS_Subset, FS_CardinalityType
    <2> QED
        BY <1>1, <1>2, <2>2, <2>3
<1>3. CASE file \notin Kind
    <2>1. Cardinality(used) <= misses
        BY <1>3 DEF Counted
    <2>2. misses = 0 => Cardinality(used) = 0
        BY <1>1, <2>1
    <2>3. Cardinality(used) = 0 => used = {}
        BY <1>1, FS_EmptySet
    <2> QED
        BY <1>1, <2>1, <2>2, <2>3
<1> QED
    BY <1>2, <1>3

\* A file that is lost is paid by the look that missed it.
LEMMA CountedLost ==
    ASSUME NEW used, NEW file, NEW Kind, NEW misses \in Nat, Counted(used, file, Kind, misses),
           NEW other, other \notin Kind
    PROVE  Counted(used, other, Kind, misses + 1)
<1>1. Cardinality(used) <= 1 + misses
    BY CountedBounds
<1> QED
    BY <1>1 DEF Counted

\* A file that held nothing yet may hold anything.
LEMMA CountedWritten ==
    ASSUME NEW used, NEW file, NEW Kind, NEW misses \in Nat, Counted(used, file, Kind, misses),
           file \notin Kind, NEW other
    PROVE  Counted(used, other, Kind, misses)
<1>1. IsFiniteSet(used) /\ Cardinality(used) <= misses /\ Cardinality(used) \in Nat
    BY FS_CardinalityType DEF Counted
<1>2. Cardinality(used \cup {other}) =
          IF other \in used THEN Cardinality(used) ELSE Cardinality(used) + 1
    BY <1>1, FS_AddElement
<1>3. Cardinality(used \cup {other}) <= misses + 1
    BY <1>1, <1>2
<1> QED
    BY <1>1, <1>3 DEF Counted

\* What is in its file is used without being counted again.
LEMMA CountedUsed ==
    ASSUME NEW used, NEW file, NEW Kind, NEW misses \in Nat, Counted(used, file, Kind, misses),
           file \in Kind
    PROVE  Counted(used \cup {file}, file, Kind, misses)
<1>1. IsFiniteSet(used \cup {file}) /\ (used \cup {file}) \cup {file} = used \cup {file}
    BY FS_AddElement DEF Counted
<1> QED
    BY <1>1 DEF Counted

-----------------------------------------------------------------------------
(* The steps *)

LEMMA InitBoot == Init => BootInv
<1> SUFFICES ASSUME Init PROVE BootInv
    OBVIOUS
<1> USE FilesDistinct
<1>1. Counted(signers, keyFile, Key, keyMisses) /\ Counted(shown, rootFile, Root, rootMisses)
    BY CountedFirst DEF Init
<1> QED
    BY <1>1
    DEF Init, BootInv, BootTypes, KeyInv, RootInv, LoadedRootInv, MemoryInv, HasKey, Phases

\* A start leaves the root and what has been served alone; a key is generated
\* where a look found none.
LEMMA StartBoot == BootInv /\ Start => BootInv'
<1> SUFFICES ASSUME BootInv, Start PROVE BootInv'
    OBVIOUS
<1> USE FilesDistinct
<1>0. /\ phase = "down" /\ starts' = starts + 1
      /\ UNCHANGED <<rootMode, rootFile, root, rootMisses, signers, shown>>
    BY DEF Start
<1>1. CASE SeesNoKey /\ GenerateKey
    <2>1. key' \in Key /\ keyFile' = Torn /\ phase' = "saving key"
        BY <1>1 DEF GenerateKey
    <2>2. \/ keyFile = Absent /\ keyMisses' = keyMisses
          \/ keyMisses' = keyMisses + 1
        BY <1>1 DEF SeesNoKey
    <2>3. keyMisses \in Nat /\ Counted(signers, keyFile, Key, keyMisses)
        BY DEF BootInv, BootTypes, KeyInv
    <2>4. Counted(signers, Torn, Key, keyMisses')
        <3>1. keyFile = Absent => Counted(signers, Torn, Key, keyMisses)
            BY <2>3, CountedWritten
        <3>2. Counted(signers, Torn, Key, keyMisses + 1)
            BY <2>3, CountedLost
        <3> QED
            BY <2>2, <3>1, <3>2
    <2>5. BootTypes'
        <3>1. keyMisses' \in Nat
            BY <2>2, <2>3
        <3>2. keyFile' \in Key \cup {Absent, Torn} /\ phase' \in Phases
            BY <2>1 DEF Phases
        <3>3. starts' \in Nat
            BY <1>0 DEF BootInv, BootTypes
        <3> QED
            BY <1>0, <3>1, <3>2, <3>3 DEF BootInv, BootTypes
    <2>6. KeyInv'
        BY <1>0, <2>1, <2>4 DEF BootInv, KeyInv, HasKey
    <2>7. RootInv'
        <3>1. keyMisses' = 0 => keyMisses = 0 /\ keyFile = Absent
            BY <2>2, <2>3
        <3>2. keyMisses' = 0 => rootFile = Absent
            BY <3>1 DEF BootInv, RootInv
        <3> QED
            BY <1>0, <2>1, <3>2 DEF RootInv
    <2>8. LoadedRootInv' /\ MemoryInv'
        BY <1>0, <2>1 DEF BootInv, LoadedRootInv, MemoryInv
    <2> QED
        BY <2>5, <2>6, <2>7, <2>8 DEF BootInv
<1>2. CASE LoadKey /\ UNCHANGED keyMisses
    <2>1. keyFile \in Key /\ key' = keyFile /\ phase' = "root" /\ UNCHANGED <<keyFile, keyMisses>>
        BY <1>2 DEF LoadKey
    <2> QED
        BY <1>0, <2>1
        DEF BootInv, BootTypes, KeyInv, RootInv, LoadedRootInv, MemoryInv, HasKey, Phases
<1> QED
    BY <1>1, <1>2 DEF Start

LEMMA SaveKeyBoot == BootInv /\ SaveKey => BootInv'
<1> SUFFICES ASSUME BootInv, SaveKey PROVE BootInv'
    OBVIOUS
<1> USE FilesDistinct
<1>1. /\ key \in Key /\ keyFile = Torn /\ keyFile' = key /\ phase' = "root"
      /\ UNCHANGED <<rootMode, rootFile, key, root, starts, keyMisses, rootMisses, signers, shown>>
    BY DEF SaveKey, BootInv, KeyInv
<1>2. keyMisses \in Nat /\ Counted(signers, keyFile, Key, keyMisses)
    BY DEF BootInv, BootTypes, KeyInv
<1>3. Counted(signers, key, Key, keyMisses)
    BY <1>1, <1>2, CountedWritten
<1>4. keyMisses = 0 => rootFile = Absent
    BY <1>1 DEF BootInv, RootInv
<1>5. BootTypes' /\ KeyInv' /\ RootInv'
    BY <1>1, <1>3, <1>4 DEF BootInv, BootTypes, KeyInv, RootInv, HasKey, Phases
<1>6. LoadedRootInv' /\ MemoryInv'
    BY <1>1 DEF BootInv, LoadedRootInv, MemoryInv
<1> QED
    BY <1>5, <1>6 DEF BootInv

\* A root file that is opened for writing was absent, or a look missed it, or
\* it is never read.
LEMMA OpenRootBoot == BootInv /\ OpenRoot => BootInv'
<1> SUFFICES ASSUME BootInv, OpenRoot PROVE BootInv'
    OBVIOUS
<1> USE FilesDistinct
<1>0. /\ phase = "root" /\ root' = <<key, starts>> /\ rootFile' = Torn /\ phase' = "saving root"
      /\ UNCHANGED <<rootMode, keyFile, key, starts, keyMisses, signers, shown>>
    BY DEF OpenRoot
<1>1. root' \in Root /\ root'[1] = keyFile /\ keyFile \in Key /\ key = keyFile
    BY <1>0 DEF BootInv, BootTypes, KeyInv, HasKey, Root
<1>2. \/ UNCHANGED rootMisses
      \/ rootMisses' = rootMisses + 1
    BY DEF OpenRoot, SeesNoRoot
<1>3. BootTypes' /\ KeyInv' /\ RootInv' /\ MemoryInv'
    <2>1. rootMisses' \in Nat /\ rootFile' \in Root \cup {Absent, Torn} /\ phase' \in Phases
        <3>1. rootMisses \in Nat
            BY DEF BootInv, BootTypes
        <3>2. rootMisses' \in Nat
            BY <1>2, <3>1
        <3> QED
            BY <1>0, <3>2 DEF Phases
    <2>2. BootTypes'
        BY <1>0, <2>1 DEF BootInv, BootTypes
    <2>3. KeyInv'
        BY <1>0 DEF BootInv, KeyInv, HasKey
    <2>4. RootInv' /\ MemoryInv'
        BY <1>0, <1>1 DEF BootInv, RootInv, MemoryInv
    <2> QED
        BY <2>2, <2>3, <2>4
<1>4. LoadedRootInv'
    <2>1. SUFFICES ASSUME rootMode = "loaded" PROVE Counted(shown, Torn, Root, rootMisses')
        BY <1>0 DEF LoadedRootInv
    <2>2. rootMisses \in Nat /\ Counted(shown, rootFile, Root, rootMisses)
        BY <2>1 DEF BootInv, BootTypes, LoadedRootInv
    <2>3. \/ rootFile = Absent /\ rootMisses' = rootMisses
          \/ rootMisses' = rootMisses + 1
        BY <2>1 DEF OpenRoot, SeesNoRoot
    <2>4. rootFile = Absent => Counted(shown, Torn, Root, rootMisses)
        BY <2>2, CountedWritten
    <2>5. Counted(shown, Torn, Root, rootMisses + 1)
        BY <2>2, CountedLost
    <2> QED
        BY <2>3, <2>4, <2>5
<1> QED
    BY <1>3, <1>4 DEF BootInv

LEMMA SaveRootBoot == BootInv /\ (SaveRoot \/ SaveRootFails) => BootInv'
<1> SUFFICES ASSUME BootInv, SaveRoot \/ SaveRootFails PROVE BootInv'
    OBVIOUS
<1> USE FilesDistinct
<1>1. /\ phase = "saving root" /\ phase' = "ready"
      /\ rootFile' = root \/ (rootMode = "reissued" /\ rootFile' = rootFile)
      /\ UNCHANGED <<rootMode, keyFile, key, root, starts, keyMisses, rootMisses, signers, shown>>
    BY DEF SaveRoot, SaveRootFails
<1>2. keyFile \in Key /\ root \in Root /\ (keyMisses = 0 => root[1] = keyFile)
    BY <1>1 DEF BootInv, KeyInv, RootInv, MemoryInv, HasKey
<1>3. BootTypes' /\ KeyInv' /\ RootInv' /\ MemoryInv'
    BY <1>1, <1>2
    DEF BootInv, BootTypes, KeyInv, RootInv, MemoryInv, HasKey, Phases
<1>4. LoadedRootInv'
    <2>1. SUFFICES ASSUME rootMode = "loaded" PROVE Counted(shown, root, Root, rootMisses)
        BY <1>1, <1>2 DEF LoadedRootInv
    <2>2. rootMisses \in Nat /\ Counted(shown, rootFile, Root, rootMisses) /\ rootFile = Torn
        BY <1>1, <2>1 DEF BootInv, BootTypes, LoadedRootInv
    <2> QED
        BY <2>2, CountedWritten
<1> QED
    BY <1>3, <1>4 DEF BootInv

LEMMA LoadRootBoot == BootInv /\ LoadRoot => BootInv'
BY FilesDistinct
DEF LoadRoot, BootInv, BootTypes, KeyInv, RootInv, LoadedRootInv, MemoryInv, HasKey, Phases

\* The key and the root a process serves with are in their files.
LEMMA ServeBoot == BootInv /\ Serve => BootInv'
<1> SUFFICES ASSUME BootInv, Serve PROVE BootInv'
    OBVIOUS
<1>0. /\ phase = "ready" /\ phase' = "serving"
      /\ signers' = signers \cup {key} /\ shown' = shown \cup {root}
      /\ UNCHANGED <<rootMode, keyFile, rootFile, key, root, starts, keyMisses, rootMisses>>
    BY DEF Serve
<1>1. keyFile \in Key /\ key = keyFile /\ keyMisses \in Nat /\ Counted(signers, keyFile, Key, keyMisses)
    BY <1>0 DEF BootInv, BootTypes, KeyInv, HasKey
<1>2. Counted(signers \cup {keyFile}, keyFile, Key, keyMisses)
    BY <1>1, CountedUsed
<1>3. BootTypes' /\ KeyInv'
    BY <1>0, <1>1, <1>2 DEF BootInv, BootTypes, KeyInv, HasKey, Phases
<1>4. RootInv' /\ MemoryInv'
    BY <1>0 DEF BootInv, RootInv, MemoryInv
<1>5. LoadedRootInv'
    <2>1. SUFFICES ASSUME rootMode = "loaded"
                   PROVE  /\ root = rootFile /\ rootFile \in Root
                          /\ Counted(shown \cup {root}, rootFile, Root, rootMisses)
        BY <1>0 DEF LoadedRootInv
    <2>2. /\ root = rootFile /\ rootFile \in Root /\ rootMisses \in Nat
          /\ Counted(shown, rootFile, Root, rootMisses)
        BY <1>0, <2>1 DEF BootInv, BootTypes, LoadedRootInv
    <2>3. Counted(shown \cup {rootFile}, rootFile, Root, rootMisses)
        BY <2>2, CountedUsed
    <2> QED
        BY <2>2, <2>3
<1> QED
    BY <1>3, <1>4, <1>5 DEF BootInv

LEMMA StopBoot == BootInv /\ Stop => BootInv'
BY DEF Stop, BootInv, BootTypes, KeyInv, RootInv, LoadedRootInv, MemoryInv, HasKey, Phases

\* What a torn file held has been counted when it was lost.
LEMMA RemoveTornBoot == BootInv /\ RemoveTorn => BootInv'
<1> SUFFICES ASSUME BootInv, RemoveTorn PROVE BootInv'
    OBVIOUS
<1> USE FilesDistinct
<1>0. /\ phase = "down"
      /\ keyFile' = IF keyFile = Torn THEN Absent ELSE keyFile
      /\ rootFile' = IF rootFile = Torn THEN Absent ELSE rootFile
      /\ UNCHANGED <<rootMode, phase, key, root, starts, keyMisses, rootMisses, signers, shown>>
    BY DEF RemoveTorn
<1>1. Counted(signers, keyFile', Key, keyMisses)
    <2>1. keyMisses \in Nat /\ Counted(signers, keyFile, Key, keyMisses)
        BY DEF BootInv, BootTypes, KeyInv
    <2>2. keyFile = Torn => Counted(signers, Absent, Key, keyMisses)
        BY <2>1, CountedWritten
    <2> QED
        BY <1>0, <2>1, <2>2
<1>2. rootMode = "loaded" => Counted(shown, rootFile', Root, rootMisses)
    <2>1. SUFFICES ASSUME rootMode = "loaded" PROVE Counted(shown, rootFile', Root, rootMisses)
        OBVIOUS
    <2>2. rootMisses \in Nat /\ Counted(shown, rootFile, Root, rootMisses)
        BY <2>1 DEF BootInv, BootTypes, LoadedRootInv
    <2>3. rootFile = Torn => Counted(shown, Absent, Root, rootMisses)
        BY <2>2, CountedWritten
    <2> QED
        BY <1>0, <2>2, <2>3
<1>3. BootTypes' /\ KeyInv' /\ RootInv' /\ MemoryInv'
    BY <1>0, <1>1 DEF BootInv, BootTypes, KeyInv, RootInv, MemoryInv, HasKey, Phases
<1>4. LoadedRootInv'
    BY <1>0, <1>2 DEF LoadedRootInv
<1> QED
    BY <1>3, <1>4 DEF BootInv

LEMMA NextBoot == BootInv /\ [Next]_vars => BootInv'
<1>1. BootInv /\ UNCHANGED vars => BootInv'
    <2>1. UNCHANGED vars => (BootTypes' <=> BootTypes) /\ (KeyInv' <=> KeyInv)
        BY DEF vars, BootTypes, KeyInv
    <2>2. UNCHANGED vars =>
              (RootInv' <=> RootInv) /\ (LoadedRootInv' <=> LoadedRootInv) /\ (MemoryInv' <=> MemoryInv)
        BY DEF vars, RootInv, LoadedRootInv, MemoryInv
    <2> QED
        BY <2>1, <2>2 DEF BootInv
<1> QED
    BY <1>1, StartBoot, SaveKeyBoot, OpenRootBoot, SaveRootBoot, LoadRootBoot, ServeBoot,
       StopBoot, RemoveTornBoot
    DEF Next, Progress

-----------------------------------------------------------------------------

\* What the starting process maintains, for every key, start, stop and repair.
THEOREM BootInvariant == Spec => []BootInv
BY InitBoot, NextBoot, PTL DEF Spec

\* Whatever interrupts a start, certificates are signed with one key, and with
\* one more for each look that missed the key file.
THEOREM IdentityKept == Spec => []OneIdentity
<1>1. BootInv => OneIdentity
    BY CountedBounds DEF BootInv, BootTypes, KeyInv, OneIdentity
<1> QED
    BY <1>1, BootInvariant, PTL

\* Where no look missed the key file, the root a process serves with is signed
\* by the key it signs with.
THEOREM RootsMatch == Spec => []RootMatchesKey
<1>1. BootInv => RootMatchesKey
    BY DEF BootInv, KeyInv, RootInv, HasKey, RootMatchesKey
<1> QED
    BY <1>1, BootInvariant, PTL

\* Where the root is loaded at a start, clients see one, and one more for each
\* look that missed it.
THEOREM RootKept == Spec => []OneRoot
<1>1. BootInv => OneRoot
    BY CountedBounds DEF BootInv, BootTypes, LoadedRootInv, OneRoot
<1> QED
    BY <1>1, BootInvariant, PTL

-----------------------------------------------------------------------------
(* An authority that has served serves again *)

\* Every file the next step of a start reads is there and complete: the key is
\* loaded, the root loaded or made, the rest reads no file.
Unhindered ==
    /\ phase # "saving key"
    /\ phase = "down" => keyFile \in Key
    /\ phase = "root" => rootMode = "reissued" \/ rootFile \in Root

\* The steps a start has before it serves at most.
StepsToServe ==
    CASE phase = "down" -> 5
      [] phase = "saving key" -> 4
      [] phase = "root" -> 3
      [] phase = "saving root" -> 2
      [] phase = "ready" -> 1
      [] phase = "serving" -> 0

\* An authority that has served once, and whose looks missed no file, never
\* meets a torn file where it would have to read it, wherever its later starts
\* are interrupted: there is no step at which a start gives up (loadOrGenKey,
\* load_key, load_or_create_root_cert).
THEOREM ServedIsUnhindered == Spec => [](shown # {} /\ Misses = 0 => Unhindered)
<1>1. BootInv => (shown # {} /\ Misses = 0 => Unhindered)
    <2> SUFFICES ASSUME BootInv, shown # {}, Misses = 0 PROVE Unhindered
        OBVIOUS
    <2>0. keyMisses \in Nat /\ rootMisses \in Nat /\ keyMisses = 0 /\ rootMisses = 0
        BY DEF BootInv, BootTypes, Misses
    <2>1. keyFile \in Key
        <3>1. signers # {} /\ Counted(signers, keyFile, Key, keyMisses)
            BY DEF BootInv, KeyInv
        <3> QED
            BY <2>0, <3>1, CountedBounds
    <2>2. phase # "saving key"
        BY <2>1, FilesDistinct DEF BootInv, KeyInv
    <2>3. rootMode = "reissued" \/ rootFile \in Root
        <3>1. SUFFICES ASSUME rootMode # "reissued" PROVE rootFile \in Root
            OBVIOUS
        <3>2. Counted(shown, rootFile, Root, rootMisses)
            BY <3>1 DEF BootInv, BootTypes, LoadedRootInv
        <3> QED
            BY <2>0, <3>2, CountedBounds
    <2> QED
        BY <2>1, <2>2, <2>3 DEF Unhindered
<1> QED
    BY <1>1, BootInvariant, PTL

\* Every step of a start brings it nearer to serving, and only a stop takes it
\* back: a start does not run in circles.
THEOREM StartsAdvance ==
    Spec => [][/\ Start \/ Progress => StepsToServe' < StepsToServe
               /\ StepsToServe' > StepsToServe => Stop]_vars
<1>1. BootInv /\ [Next]_vars =>
          [/\ Start \/ Progress => StepsToServe' < StepsToServe
           /\ StepsToServe' > StepsToServe => Stop]_vars
    <2> SUFFICES ASSUME BootInv, Next
                 PROVE  /\ Start \/ Progress => StepsToServe' < StepsToServe
                        /\ StepsToServe' > StepsToServe => Stop
        OBVIOUS
    <2>1. Start \/ Progress => StepsToServe' < StepsToServe
        <3>1. Start => StepsToServe = 5 /\ (StepsToServe' = 4 \/ StepsToServe' = 3)
            BY DEF Start, GenerateKey, LoadKey, StepsToServe
        <3>2. SaveKey => StepsToServe = 4 /\ StepsToServe' = 3
            BY DEF SaveKey, StepsToServe
        <3>3. OpenRoot \/ LoadRoot =>
                  StepsToServe = 3 /\ (StepsToServe' = 2 \/ StepsToServe' = 1)
            BY DEF OpenRoot, LoadRoot, StepsToServe
        <3>4. SaveRoot \/ SaveRootFails => StepsToServe = 2 /\ StepsToServe' = 1
            BY DEF SaveRoot, SaveRootFails, StepsToServe
        <3>5. Serve => StepsToServe = 1 /\ StepsToServe' = 0
            BY DEF Serve, StepsToServe
        <3> QED
            BY <3>1, <3>2, <3>3, <3>4, <3>5 DEF Progress
    <2>2. RemoveTorn => StepsToServe' = StepsToServe
        BY DEF RemoveTorn, StepsToServe
    <2>3. StepsToServe \in Nat /\ StepsToServe' \in Nat
        BY NextBoot DEF BootInv, BootTypes, Phases, StepsToServe
    <2> QED
        BY <2>1, <2>2, <2>3 DEF Next
<1> QED
    BY <1>1, BootInvariant, PTL DEF Spec

=============================================================================
