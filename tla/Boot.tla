-------------------------------- MODULE Boot --------------------------------
(***************************************************************************)
(* How a port of nip-ca-server starts: it loads the CA key from its file,  *)
(* or generates one and writes the file; then it loads the self-signed     *)
(* root certificate from its file, or makes one and writes that file; then *)
(* it serves.  A file is opened, which creates it empty, and written; the  *)
(* process can stop anywhere.  The Python, Go and Java ports load the root *)
(* they find, the Rust port makes a new one at every start and never reads *)
(* the file.  Every port takes a look that fails (exists, os.Stat, Go's    *)
(* os.ReadFile of the root) for a file that is not there, and writes over  *)
(* it: a look at an existing file may miss it.  The passphrase is the same *)
(* at every start.                                                         *)
(***************************************************************************)
EXTENDS Naturals, FiniteSets

CONSTANTS
    Key,           \* the key pairs that may be generated
    Absent, Torn,  \* a file that does not exist, or is not completely written
    MaxStarts,     \* bound on the starts of the process
    MaxMisses      \* bound on the looks that miss an existing file

ASSUME BootAssumption ==
    /\ Absent \notin Key \cup Key \X Nat
    /\ Torn \notin Key \cup Key \X Nat
    /\ Absent # Torn
    /\ MaxStarts \in Nat
    /\ MaxMisses \in Nat

VARIABLES
    rootMode,           \* "loaded", or "reissued" at every start (Rust); never changes
    keyFile, rootFile,  \* the contents of the two files
    phase,              \* how far the process has come
    key, root,          \* what it holds in memory
    generated,          \* the keys generated so far
    starts,             \* the starts so far
    keyMisses, rootMisses,  \* the looks so far that missed an existing file
    signers, shown      \* the keys and roots that have been served with

vars == <<rootMode, keyFile, rootFile, phase, key, root, generated, starts,
          keyMisses, rootMisses, signers, shown>>

\* A root certificate: the key that signed it, and what tells it from others
\* under that key (serial and validity).
Root == Key \X Nat

Phases == {"down", "saving key", "root", "saving root", "ready", "serving"}

Init ==
    /\ rootMode \in {"loaded", "reissued"}
    /\ keyFile = Absent /\ rootFile = Absent
    /\ phase = "down"
    /\ key = Absent /\ root = Absent
    /\ generated = {} /\ starts = 0
    /\ keyMisses = 0 /\ rootMisses = 0
    /\ signers = {} /\ shown = {}

Misses == keyMisses + rootMisses

\* A look finds no key file: there is none, or the look fails.
SeesNoKey ==
    \/ keyFile = Absent /\ UNCHANGED keyMisses
    \/ keyFile # Absent /\ Misses < MaxMisses /\ keyMisses' = keyMisses + 1

\* The same for the root.
SeesNoRoot ==
    \/ rootFile = Absent /\ UNCHANGED rootMisses
    \/ rootFile # Absent /\ Misses < MaxMisses /\ rootMisses' = rootMisses + 1

\* The key is generated and its file opened for writing.
GenerateKey ==
    \E k \in Key \ generated :
        /\ key' = k
        /\ generated' = generated \cup {k}
        /\ keyFile' = Torn
        /\ phase' = "saving key"

\* The key is decrypted from its file; one that is not complete cannot be.
LoadKey ==
    /\ keyFile \in Key
    /\ key' = keyFile
    /\ phase' = "root"
    /\ UNCHANGED <<keyFile, generated>>

\* Mutant: the generated key is not saved.
StartUnsaved ==
    /\ phase = "down"
    /\ starts < MaxStarts
    /\ starts' = starts + 1
    /\ IF keyFile = Absent
       THEN \E k \in Key \ generated :
                /\ key' = k
                /\ generated' = generated \cup {k}
                /\ phase' = "root"
                /\ UNCHANGED keyFile
       ELSE LoadKey
    /\ UNCHANGED <<rootMode, rootFile, root, keyMisses, rootMisses, signers, shown>>

\* Mutant: a key that was loaded is written back.
StartResaves ==
    /\ phase = "down"
    /\ starts < MaxStarts
    /\ starts' = starts + 1
    /\ IF keyFile = Absent
       THEN GenerateKey
       ELSE /\ keyFile \in Key
            /\ key' = keyFile
            /\ keyFile' = Torn
            /\ phase' = "saving key"
            /\ UNCHANGED generated
    /\ UNCHANGED <<rootMode, rootFile, root, keyMisses, rootMisses, signers, shown>>

\* The process starts.  It gives up on a key file that it sees and cannot read.
Start ==
    /\ phase = "down"
    /\ starts < MaxStarts
    /\ starts' = starts + 1
    /\ \/ SeesNoKey /\ GenerateKey
       \/ LoadKey /\ UNCHANGED keyMisses
    /\ UNCHANGED <<rootMode, rootFile, root, rootMisses, signers, shown>>

\* The key file is complete.
SaveKey ==
    /\ phase = "saving key"
    /\ keyFile' = key
    /\ phase' = "root"
    /\ UNCHANGED <<rootMode, rootFile, key, root, generated, starts, keyMisses, rootMisses,
                   signers, shown>>

\* Mutant: a root that exists is replaced.
OpenRootAlways ==
    /\ phase = "root"
    /\ root' = <<key, starts>>
    /\ rootFile' = Torn
    /\ phase' = "saving root"
    /\ UNCHANGED <<rootMode, keyFile, key, generated, starts, keyMisses, rootMisses,
                   signers, shown>>

\* The root is made and its file opened for writing.
OpenRoot ==
    /\ phase = "root"
    /\ \/ rootMode = "reissued" /\ UNCHANGED rootMisses
       \/ rootMode = "loaded" /\ SeesNoRoot
    /\ root' = <<key, starts>>
    /\ rootFile' = Torn
    /\ phase' = "saving root"
    /\ UNCHANGED <<rootMode, keyFile, key, generated, starts, keyMisses, signers, shown>>

\* The root file is complete.
SaveRoot ==
    /\ phase = "saving root"
    /\ rootFile' = root
    /\ phase' = "ready"
    /\ UNCHANGED <<rootMode, keyFile, key, root, generated, starts, keyMisses, rootMisses,
                   signers, shown>>

\* The Rust port goes on when the root file cannot be written.
SaveRootFails ==
    /\ rootMode = "reissued"
    /\ phase = "saving root"
    /\ phase' = "ready"
    /\ UNCHANGED <<rootMode, keyFile, rootFile, key, root, generated, starts, keyMisses, rootMisses,
                   signers, shown>>

\* The root is loaded.
LoadRoot ==
    /\ phase = "root"
    /\ rootMode = "loaded"
    /\ rootFile \in Root
    /\ root' = rootFile
    /\ phase' = "ready"
    /\ UNCHANGED <<rootMode, keyFile, rootFile, key, generated, starts, keyMisses, rootMisses,
                   signers, shown>>

\* Certificates are signed with the key and handed out with the root.
Serve ==
    /\ phase = "ready"
    /\ phase' = "serving"
    /\ signers' = signers \cup {key}
    /\ shown' = shown \cup {root}
    /\ UNCHANGED <<rootMode, keyFile, rootFile, key, root, generated, starts,
                   keyMisses, rootMisses>>

\* The process stops: killed, out of disk space, or on a root file that it sees
\* and cannot read or parse.  (In Go, to see the root is to read it.)
Stop ==
    /\ phase # "down"
    /\ phase' = "down"
    /\ key' = Absent /\ root' = Absent
    /\ UNCHANGED <<rootMode, keyFile, rootFile, generated, starts, keyMisses, rootMisses,
                   signers, shown>>

\* The operator removes the files that keep the process from starting.
RemoveTorn ==
    /\ phase = "down"
    /\ keyFile = Torn \/ rootFile = Torn
    /\ keyFile' = IF keyFile = Torn THEN Absent ELSE keyFile
    /\ rootFile' = IF rootFile = Torn THEN Absent ELSE rootFile
    /\ UNCHANGED <<rootMode, phase, key, root, generated, starts, keyMisses, rootMisses,
                   signers, shown>>

Progress == SaveKey \/ OpenRoot \/ SaveRoot \/ SaveRootFails \/ LoadRoot \/ Serve

Next == Start \/ Progress \/ Stop \/ RemoveTorn

Spec == Init /\ [][Next]_vars

\* The container is restarted unless it was stopped, and a process that has
\* started goes on.
FairSpec == Spec /\ WF_vars(Start) /\ WF_vars(Progress)

-----------------------------------------------------------------------------

\* All certificates are signed with one key, through every crash and every
\* repair, but for one more with each look that missed the key file: no process
\* serves with a key that is not yet safe in its file.
OneIdentity == Cardinality(signers) <= 1 + keyMisses

\* A chain handed out verifies: the root that is served is signed by the key
\* that signs the leaves, also when root and key are of different starts.
\* (After a look that missed the key, a root that is loaded is the old key's.)
RootMatchesKey == phase = "serving" /\ keyMisses = 0 => root[1] = key

\* The trust anchor a client has seen is the one every later start serves with,
\* in the ports that load it, but for one more with each look that missed it.
OneRoot == rootMode = "loaded" => Cardinality(shown) <= 1 + rootMisses

\* A process that has served once serves again after any stop, without help
\* from an operator, unless a look misses a file: later starts leave nothing
\* half written that they read.
ComesBack ==
    shown # {} /\ starts < MaxStarts ~> phase = "serving" \/ starts = MaxStarts \/ Misses > 0

=============================================================================
