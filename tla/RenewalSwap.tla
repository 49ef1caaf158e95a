---------------------------- MODULE RenewalSwap ----------------------------
(***************************************************************************)
(* How an agent replaces its client key and certificate on disk            *)
(* (internal/agent/renewal/swap.go, manager.go) and what its next boot     *)
(* makes of an interrupted replacement (cmd/mockingbird/config.go).        *)
(*                                                                         *)
(* A file's content is the number of the pair it belongs to; 0 is a file   *)
(* that is not there.  A key and a certificate match when their numbers    *)
(* are equal.  A step is one system call that changes the directory.       *)
(***************************************************************************)
EXTENDS Integers

CONSTANTS
    MaxPairs,     \* bound: pairs birdcage ever issues
    MaxFaults,    \* bound: system calls that fail
    MaxCrashes    \* bound: process deaths

ASSUME SwapConstants == MaxPairs \in Nat \ {0} /\ MaxFaults \in Nat /\ MaxCrashes \in Nat

VARIABLES
    key,       \* the live key file
    cert,      \* the live certificate file
    newKey,    \* the staged key file
    newCert,   \* the staged certificate file
    issued,    \* the last pair birdcage issued
    client,    \* the pair the running client presents, 0 while booting
    pc,
    faults,
    crashes

files == <<key, cert, newKey, newCert>>
vars  == <<files, issued, client, pc, faults, crashes>>

TypeOK ==
    /\ key \in 1..MaxPairs
    /\ cert \in 1..MaxPairs
    /\ newKey \in 0..MaxPairs
    /\ newCert \in 0..MaxPairs
    /\ issued \in 1..MaxPairs
    /\ client \in 0..MaxPairs
    /\ pc \in {"run", "stageKey", "stageCert", "recover", "swapKey", "swapCert",
               "discardKey", "switch", "load", "dead"}
    /\ faults \in 0..MaxFaults
    /\ crashes \in 0..MaxCrashes

\* An enrolled agent that has booted.
Init ==
    /\ key = 1 /\ cert = 1
    /\ newKey = 0 /\ newCert = 0
    /\ issued = 1
    /\ client = 1
    /\ pc = "run"
    /\ faults = 0
    /\ crashes = 0

\* Where RecoverPendingSwap returns to: the boot, or StageAndSwap.
Recovered == IF client = 0 THEN "load" ELSE "switch"

\* Where an error leads: a failed boot is started again, a failed Tick is
\* tried again on the next heartbeat.
Failed == IF client = 0 THEN "recover" ELSE "run"

Fault ==
    /\ faults < MaxFaults
    /\ faults' = faults + 1
    /\ pc' = Failed

-----------------------------------------------------------------------------
\* Tick: past the half-life, birdcage signs a fresh key.
Tick ==
    /\ pc = "run"
    /\ issued < MaxPairs
    /\ issued' = issued + 1
    /\ pc' = "stageKey"
    /\ UNCHANGED <<files, client, faults, crashes>>

\* atomicfile.Write of the staged key.  It fails before its rename, or
\* after it, when the directory cannot be synced.
StageKey ==
    /\ pc = "stageKey"
    /\ \/ newKey' = issued /\ pc' = "stageCert" /\ UNCHANGED faults
       \/ newKey' \in {newKey, issued} /\ Fault
    /\ UNCHANGED <<key, cert, newCert, issued, client, crashes>>

StageCert_IgnoresError ==
    /\ pc = "stageCert"
    /\ pc' = "swapKey"
    /\ \/ newCert' = issued /\ UNCHANGED faults
       \/ faults < MaxFaults /\ faults' = faults + 1 /\ UNCHANGED newCert
    /\ UNCHANGED <<key, cert, newKey, issued, client, crashes>>

\* atomicfile.Write of the staged certificate.
StageCert ==
    /\ pc = "stageCert"
    /\ \/ newCert' = issued /\ pc' = "recover" /\ UNCHANGED faults
       \/ newCert' \in {newCert, issued} /\ Fault
    /\ UNCHANGED <<key, cert, newKey, issued, client, crashes>>

RecoverPendingSwap_ForgetsCert ==
    /\ pc = "recover"
    /\ pc' = CASE newKey # 0 /\ newCert # 0 -> "swapKey"
               [] newKey # 0 /\ newCert = 0 -> "discardKey"
               [] OTHER                     -> Recovered
    /\ UNCHANGED <<files, issued, client, faults, crashes>>

\* RecoverPendingSwap looks at which halves are staged.
RecoverPendingSwap ==
    /\ pc = "recover"
    /\ pc' = CASE newKey # 0 /\ newCert # 0 -> "swapKey"
               [] newKey = 0 /\ newCert # 0 -> "swapCert"
               [] newKey # 0 /\ newCert = 0 -> "discardKey"
               [] OTHER                     -> Recovered
    /\ UNCHANGED <<files, issued, client, faults, crashes>>

SwapKey_IgnoresError ==
    /\ pc = "swapKey"
    /\ pc' = "swapCert"
    /\ \/ key' = newKey /\ newKey' = 0 /\ UNCHANGED faults
       \/ faults < MaxFaults /\ faults' = faults + 1 /\ UNCHANGED <<key, newKey>>
    /\ UNCHANGED <<cert, newCert, issued, client, crashes>>

\* Rename the staged key over the live one.
SwapKey ==
    /\ pc = "swapKey"
    /\ \/ key' = newKey /\ newKey' = 0 /\ pc' = "swapCert" /\ UNCHANGED faults
       \/ Fault /\ UNCHANGED <<key, newKey>>
    /\ UNCHANGED <<cert, newCert, issued, client, crashes>>

SwapCert_CleansUp ==
    /\ pc = "swapCert"
    /\ newCert' = 0
    /\ \/ cert' = newCert /\ pc' = Recovered /\ UNCHANGED faults
       \/ Fault /\ UNCHANGED cert
    /\ UNCHANGED <<key, newKey, issued, client, crashes>>

\* Rename the staged certificate over the live one.
SwapCert ==
    /\ pc = "swapCert"
    /\ \/ cert' = newCert /\ newCert' = 0 /\ pc' = Recovered /\ UNCHANGED faults
       \/ Fault /\ UNCHANGED <<cert, newCert>>
    /\ UNCHANGED <<key, newKey, issued, client, crashes>>

DiscardKey_Applies ==
    /\ pc = "discardKey"
    /\ key' = newKey
    /\ newKey' = 0
    /\ pc' = Recovered
    /\ UNCHANGED <<cert, newCert, issued, client, faults, crashes>>

\* Remove a staged key that has no certificate.
DiscardKey ==
    /\ pc = "discardKey"
    /\ \/ newKey' = 0 /\ pc' = Recovered /\ UNCHANGED faults
       \/ Fault /\ UNCHANGED newKey
    /\ UNCHANGED <<key, cert, newCert, issued, client, crashes>>

\* Tick: SwapClientCert, and the Manager's own copy.
SwitchClient ==
    /\ pc = "switch"
    /\ \/ client' = issued /\ pc' = "run" /\ UNCHANGED faults
       \/ Fault /\ UNCHANGED client
    /\ UNCHANGED <<files, issued, crashes>>

\* loadConfig reads the live files and client.New pairs them; an agent
\* whose files do not match cannot start, now or ever.
LoadPair ==
    /\ pc = "load"
    /\ IF key = cert
       THEN client' = key /\ pc' = "run"
       ELSE pc' = "dead" /\ UNCHANGED client
    /\ UNCHANGED <<files, issued, faults, crashes>>

\* The process dies and is started again.
Crash ==
    /\ crashes < MaxCrashes
    /\ pc # "dead"
    /\ crashes' = crashes + 1
    /\ client' = 0
    /\ pc' = "recover"
    /\ UNCHANGED <<files, issued, faults>>

Step ==
    \/ StageKey \/ StageCert \/ RecoverPendingSwap \/ SwapKey \/ SwapCert
    \/ DiscardKey \/ SwitchClient \/ LoadPair

Next == Tick \/ Step \/ Crash

Spec == Init /\ [][Next]_vars

\* A started operation goes on.
FairSpec == Spec /\ WF_vars(Step)

-----------------------------------------------------------------------------
\* The pair a boot would end up with: what is live, unless recovery would
\* put what is staged in its place.
BootKey  == IF newKey # 0 /\ newCert # 0 THEN newKey ELSE key
BootCert == IF newCert # 0 THEN newCert ELSE cert

\* While no system call has failed, a boot would find a matching pair at
\* every instant: "always either the old, fully-working pair or the new,
\* fully-working pair -- never a mix" (renewal's package comment).
PairNeverMixed == faults = 0 => BootKey = BootCert

\* The files a booting agent reads match, the recovery pass having run.
LoadedPairMatches == pc = "load" => key = cert

\* Whatever fails and whenever the process dies, the live files are "only
\* ever key-ahead-of-certificate" (renewal's package comment).
KeyNeverBehind == cert <= key

\* The two-file swap, seen through the certificate a boot would find, is the
\* replacement of one pair by a newer one in a single step, whatever fails;
\* PairNeverMixed says when the key goes with it.
Atomic == INSTANCE PairSwap WITH pair <- BootCert
SwapIsAtomic == Atomic!Spec

\* A boot that finds an interrupted swap gets the agent running again: the
\* recovery pass "always finishes the swap deterministically rather than
\* leaving it stuck" (renewal's package comment), unless a system call fails.
RecoveryFinishes == (client = 0 /\ faults = 0) ~> (client # 0 \/ faults # 0)
=============================================================================
