------------------------------- MODULE Deployment -------------------------------
(***************************************************************************)
(* How a server and a client come to run: the operator's commands (cli.py), *)
(* the files they write and read (config.py, crypto.py, auth.py), and what *)
(* the programs load when they start.  Of a configuration the encryption   *)
(* key and the scanned directories are kept.  A key pair is a number; 0    *)
(* stands for a file that is not there.  The server's own pair is made the *)
(* same way and read by no program.                                        *)
(***************************************************************************)
EXTENDS Integers

CONSTANTS
    Keys,       \* base64 texts of 32 bytes
    NoConfig,   \* the configuration file does not exist
    MaxPairs    \* bound: key pairs made

ASSUME PairsAssumption == MaxPairs \in Nat \ {0}
ASSUME KeysAssumption == Keys # {} /\ NoConfig \notin Keys \union {""}

VARIABLES
    conf,           \* encryption_key of each program's configuration file
    private,        \* client_private.pem
    public,         \* client_public.pem
    making,         \* gen-keys: the pair whose public half is still to be saved
    registered,     \* the public key that clients.toml names for the client
    running,        \* what each program that runs has loaded
    pairs,          \* bound: pairs made so far
    interrupted     \* history: gen-keys ended between its two files

files == <<conf, private, public, making, registered, pairs, interrupted>>
setupVars == <<conf, private, public, making, registered, running, pairs, interrupted>>

Programs == {"server", "client"}
Loaded == [up : BOOLEAN, key : Keys \union {""}, pair : Nat]
Down == [up |-> FALSE, key |-> "", pair |-> 0]
Up(key, pair) == [up |-> TRUE, key |-> key, pair |-> pair]

Bare ==
    /\ conf = [p \in Programs |-> NoConfig]
    /\ private = 0 /\ public = 0 /\ making = 0 /\ registered = 0 /\ pairs = 0
    /\ running = [p \in Programs |-> Down]
    /\ interrupted = FALSE

\* Everything done once, and both programs started.
Ready(key) ==
    /\ conf = [p \in Programs |-> key]
    /\ private = 1 /\ public = 1 /\ making = 0 /\ registered = 1 /\ pairs = 1
    /\ running = [p \in Programs |-> Up(key, 1)]
    /\ interrupted = FALSE

\* --init: the default configuration, which has no key; an existing file is
\* left alone.
CreateConfig(p) ==
    /\ conf[p] = NoConfig
    /\ conf' = [conf EXCEPT ![p] = ""]
    /\ UNCHANGED <<private, public, making, registered, running, pairs, interrupted>>

\* The operator edits the configuration.
SetKey(p, key) ==
    /\ conf[p] # NoConfig
    /\ conf' = [conf EXCEPT ![p] = key]
    /\ UNCHANGED <<private, public, making, registered, running, pairs, interrupted>>

NewPair == pairs + 1

\* --gen-keys: refuses when there is a private key, else saves one ...
SavePrivateKey ==
    /\ private = 0 /\ making = 0 /\ pairs < MaxPairs
    /\ pairs' = NewPair /\ private' = NewPair /\ making' = NewPair
    /\ UNCHANGED <<conf, public, registered, running, interrupted>>

SavedMutant == IF public = 0 THEN making ELSE public   \* mutant: an existing file is kept
Saved == making
\* ... and then its public half, over any that is there;
SavePublicKey ==
    /\ making # 0
    /\ public' = Saved
    /\ making' = 0
    /\ UNCHANGED <<conf, private, registered, running, pairs, interrupted>>

\* the program may end in between.
InterruptGenKeys ==
    /\ making # 0
    /\ making' = 0
    /\ interrupted' = TRUE
    /\ UNCHANGED <<conf, private, public, registered, running, pairs>>

\* The operator removes the private key, and registers the public one.
RemovePrivateKey ==
    /\ private # 0
    /\ private' = 0
    /\ UNCHANGED <<conf, public, making, registered, running, pairs, interrupted>>

Register ==
    /\ public # 0
    /\ registered' = public
    /\ UNCHANGED <<conf, private, public, making, running, pairs, interrupted>>

\* _validate_encryption_key
Valid(key) == key \in Keys

\* The registry, which is read once: a client that is not in it, or whose key
\* file is not there, is unknown.
KnownKey == registered

\* McGoServer.__init__: the configuration must be valid.
StartServer(basenamesDiffer) ==
    /\ ~running["server"].up /\ Valid(conf["server"]) /\ basenamesDiffer
    /\ running' = [running EXCEPT !["server"] = Up(conf["server"], KnownKey)]
    /\ UNCHANGED files

StopServer ==
    /\ running["server"].up
    /\ running' = [running EXCEPT !["server"] = Down]
    /\ UNCHANGED files

\* McGoClient.__init__: the private key must be there.
StartClient ==
    /\ ~running["client"].up /\ Valid(conf["client"]) /\ private # 0
    /\ running' = [running EXCEPT !["client"] = Up(conf["client"], private)]
    /\ UNCHANGED files

FileStep ==
    \/ \E p \in Programs : CreateConfig(p) \/ \E key \in Keys : SetKey(p, key)
    \/ SavePrivateKey \/ SavePublicKey \/ InterruptGenKeys
    \/ RemovePrivateKey \/ Register

DeployNext == FileStep \/ StopServer \/ StartClient \/ \E differ \in BOOLEAN : StartServer(differ)

DeployInit == Bare \/ \E key \in Keys : Ready(key)
DeploySpec == DeployInit /\ [][DeployNext]_setupVars

-----------------------------------------------------------------------------
\* Every variable has its type.
DeployTypeOK ==
    /\ conf \in [Programs -> Keys \union {"", NoConfig}]
    /\ {private, public, making, registered, pairs} \subseteq Nat
    /\ running \in [Programs -> Loaded]
    /\ interrupted \in BOOLEAN

\* The two key files belong together, however often keys are removed and made
\* again, unless --gen-keys was interrupted between them (cli.py:110-111).
KeysBelongTogether ==
    ~interrupted /\ making = 0 /\ private # 0 => public = private

=============================================================================
