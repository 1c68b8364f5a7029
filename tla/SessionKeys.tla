----------------------------- MODULE SessionKeys -----------------------------
(***************************************************************************)
(* The session key of one user in the mini app (lib/sessionKey.ts).  The   *)
(* seed is kept in Telegram's CloudStorage, which the user's devices       *)
(* share, and in the localStorage of the device that uses it; the cloud's  *)
(* copy wins.  A CloudStorage call that fails looks like one that found    *)
(* nothing, or like one that saved.                                        *)
(*                                                                         *)
(* A lookup is a call of getOrCreateSessionKey: a device makes one when a  *)
(* page derives the vault address and one when the user activates it, and  *)
(* the two may overlap.                                                    *)
(***************************************************************************)
EXTENDS Faults

CONSTANTS
    Device,
    MaxKeys                     \* bound on generated keys

NoKey == 0
Key == 1..MaxKeys
Lookup == Device \X {"derive", "activate"}
DeviceOf(c) == c[1]

VARIABLES
    cloud,          \* the seed in CloudStorage
    local,          \* device -> the seed in its localStorage
    backfill,       \* device -> a seed on its way to the cloud, unattended
    lookup,         \* call -> where it is, and its key
    generated,      \* number of keys that were generated
    disturbed       \* a CloudStorage call failed or lost its caller, or two
                    \* devices at once had found no key in the cloud

keyVars == <<cloud, local, backfill, lookup, generated, disturbed>>

KeysInit ==
    /\ cloud = NoKey
    /\ local = [d \in Device |-> NoKey]
    /\ backfill = [d \in Device |-> NoKey]
    /\ lookup = [c \in Lookup |-> [at |-> "idle", seed |-> NoKey]]
    /\ generated = 0
    /\ disturbed = FALSE

To(c, at, seed) == lookup' = [lookup EXCEPT ![c] = [at |-> at, seed |-> seed]]

getOrCreateSessionKey(c) ==
    /\ lookup[c].at = "idle"
    /\ To(c, "cloudGet", NoKey)
    /\ UNCHANGED <<cloud, local, backfill, generated, disturbed>>
Returned(c) ==
    /\ To(c, "idle", NoKey)
    /\ UNCHANGED <<cloud, local, backfill, generated, disturbed>>

(* The cloud's answer.  Whoever gets none will look on the device, and is   *)
(* without a saved key until it has found or saved one.                     *)
Keyless == {"localGet", "cloudSet"}
cloudGet(c, ok) ==
    LET found == IF ok THEN cloud ELSE NoKey IN
    /\ lookup[c].at = "cloudGet"
    /\ FaultUnless(ok)
    /\ To(c, IF found = NoKey THEN "localGet" ELSE "done", found)
    /\ disturbed' = \/ disturbed \/ ~ok
                    \/ /\ found = NoKey
                       /\ \E b \in Lookup : DeviceOf(b) # DeviceOf(c) /\ lookup[b].at \in Keyless
    /\ UNCHANGED <<cloud, local, backfill, generated>>

(* There is no key: a fresh one goes to localStorage, then to the cloud.    *)
Generate(c) ==
    /\ generated < MaxKeys
    /\ generated' = generated + 1
    /\ local' = [local EXCEPT ![DeviceOf(c)] = generated']
    /\ To(c, "cloudSet", generated')
    /\ UNCHANGED backfill

(* The rest of loadSeed: this device's copy, which also goes to the cloud.  *)
loadSeed(c) ==
    LET d == DeviceOf(c) IN
    /\ lookup[c].at = "localGet"
    /\ \/ local[d] = NoKey /\ Generate(c)
       \/ /\ local[d] # NoKey
          /\ To(c, "done", local[d])
          /\ backfill' = [backfill EXCEPT ![d] = local[d]]
          /\ UNCHANGED <<local, generated>>
    /\ UNCHANGED <<cloud, disturbed, faults>>

FpersistSeed(c, ok) ==                      \* localStorage only
    /\ lookup[c].at = "cloudSet"
    /\ To(c, "done", lookup[c].seed)
    /\ UNCHANGED <<cloud, disturbed, faults, local, backfill, generated>>
persistSeed(c, ok) ==
    /\ lookup[c].at = "cloudSet"
    /\ FaultUnless(ok)
    /\ To(c, "done", lookup[c].seed)
    /\ cloud' = IF ok THEN lookup[c].seed ELSE cloud
    /\ disturbed' = (disturbed \/ ~ok)
    /\ UNCHANGED <<local, backfill, generated>>

backfillLands(d, ok) ==
    /\ backfill[d] # NoKey
    /\ FaultUnless(ok)
    /\ cloud' = IF ok THEN backfill[d] ELSE cloud
    /\ backfill' = [backfill EXCEPT ![d] = NoKey]
    /\ disturbed' = (disturbed \/ ~ok)
    /\ UNCHANGED <<local, lookup, generated>>

(* The page is closed: what it was saving goes on unattended.               *)
LookupsStop(d) ==
    LET saving == {c \in Lookup : DeviceOf(c) = d /\ lookup[c].at = "cloudSet"} IN
    /\ lookup' = [c \in Lookup |-> IF DeviceOf(c) = d THEN [at |-> "idle", seed |-> NoKey]
                                   ELSE lookup[c]]
    /\ backfill' = IF saving = {} THEN backfill ELSE [backfill EXCEPT ![d] = local[d]]
    /\ disturbed' = (disturbed \/ saving # {})
    /\ UNCHANGED <<cloud, local, generated>>

KeysNext ==
    \/ \E c \in Lookup : loadSeed(c)
    \/ \E ok \in BOOLEAN :
        \/ \E c \in Lookup : cloudGet(c, ok) \/ persistSeed(c, ok)
        \/ \E d \in Device : backfillLands(d, ok)

KeysTypeOK ==
    /\ cloud \in Key \cup {NoKey}
    /\ local \in [Device -> Key \cup {NoKey}]
    /\ backfill \in [Device -> Key \cup {NoKey}]
    /\ lookup \in [Lookup -> [at : {"idle", "cloudGet", "localGet", "cloudSet", "done"},
                              seed : Key \cup {NoKey}]]
    /\ generated \in 0..MaxKeys
    /\ disturbed \in BOOLEAN
=============================================================================
