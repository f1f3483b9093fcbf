----------------------------- MODULE EncryptCommand -----------------------------
(***************************************************************************)
(* The command `encrypt` around the changes: it reads the device's key     *)
(* file before a change and saves the new key after it.  Any device may    *)
(* join while a change runs on another.  New words are typed back before a *)
(* change begins, so it begins with words somebody knows.                  *)
(***************************************************************************)
EXTENDS EncryptionChange

CONSTANT Devices

ASSUME DevicesAssumption == Admins \subseteq Devices

VARIABLES
  keyFile,  \* the key in each device's key file
  saving,   \* the key its command was given, and has not saved yet
  joining,  \* devices that found the store encrypted and are about to read its header
  lasted    \* keys the store had while it was open (observer)

deviceVars == <<keyFile, saving, joining>>
commandVars == <<changeVars, deviceVars, lasted>>

CommandTypeOK ==
  /\ TypeOK
  /\ keyFile \in [Devices -> Keys \cup {NoKey}] /\ saving \in [Devices -> Keys \cup {NoKey}]
  /\ joining \in SUBSET Devices /\ lasted \in SUBSET Keys

Busy(d) == saving[d] # NoKey \/ d \in joining \/ (d \in Admins /\ pc[d] # "idle")

\* Changing the words and rotating need the store's key in the key file.
MayRun(a, kind) == kind \in {"words", "rotate"} => keyFile[a] = head["encryption"].key

Encrypt(a, kind) ==
  /\ ~Busy(a) /\ MayRun(a, kind)
  /\ Inspect(a, kind)
  /\ UNCHANGED deviceVars

Recover(a) ==
  /\ ~Busy(a)
  /\ \/ \E mode \in Recoveries : ClaimRecovery(a, mode)
     \/ TakeOverRecovery(a)
  /\ UNCHANGED deviceVars

\* Mutant: the key is saved as soon as the header is in place.
KeepsKeyEarly(a) == pc[a] = "release" \/ pc[a] = "swap"

\* A change gives its key when it is over, unless it was undone or only new
\* words were set.
KeepsKey(a) ==
  /\ pc[a] = "release" /\ pc'[a] = "idle"
  /\ job[a].mode = "finish" \/ (job[a].mode = "run" /\ job[a].kind # "words")

Proceed(a) ==
  /\ Step(a)
  /\ saving' = IF KeepsKey(a) THEN [saving EXCEPT ![a] = job[a].hdr.key] ELSE saving
  /\ UNCHANGED <<keyFile, joining>>

\* The command fails or the device stops before the store's change is over.
StopsShort(a) == Faults(a) /\ UNCHANGED deviceVars

\* Mutant: joining does not look at the lock.
LookAtHeader(d) == head["encryption"] # NoHeader

\* `--join` looks at the store, then reads its header and unlocks it with the
\* words typed; wrong ones end it.
FindsEncrypted(d) == Classify = "encrypted"

LookAtStore(d) ==
  /\ ~Busy(d) /\ FindsEncrypted(d)
  /\ joining' = joining \cup {d}
  /\ UNCHANGED <<changeVars, keyFile, saving>>

ReadHeader(d) ==
  /\ d \in joining
  /\ joining' = joining \ {d}
  /\ \/ head["encryption"] # NoHeader /\ saving' = [saving EXCEPT ![d] = head["encryption"].key]
     \/ UNCHANGED saving
  /\ UNCHANGED <<changeVars, keyFile>>

\* The key goes to a new file, which a rename puts in the key file's place.
SaveKey(d) ==
  /\ saving[d] # NoKey
  /\ keyFile' = [keyFile EXCEPT ![d] = saving[d]]
  /\ saving' = [saving EXCEPT ![d] = NoKey]
  /\ UNCHANGED <<changeVars, joining>>

\* Writing fails or the device stops: the key file stays as it was.
SaveFails(d) ==
  /\ saving[d] # NoKey
  /\ saving' = [saving EXCEPT ![d] = NoKey]
  /\ Fault
  /\ UNCHANGED <<layoutVars, pc, job, keyFile, joining>>

--------------------------------------------------------------------------------
CommandInit ==
  /\ ChangeInit
  /\ keyFile \in [Devices -> {NoKey, agreed.key}]
  /\ saving = [d \in Devices |-> NoKey] /\ joining = {}
  /\ lasted = {agreed.key} \ {NoKey}

CommandNext ==
  /\ \/ \E a \in Admins :
          \/ \E kind \in Kinds : Encrypt(a, kind)
          \/ Recover(a) \/ Proceed(a) \/ StopsShort(a)
     \/ \E d \in Devices : LookAtStore(d) \/ ReadHeader(d) \/ SaveKey(d) \/ SaveFails(d)
     \/ LateDevice /\ UNCHANGED deviceVars
  /\ lasted' = IF lock' THEN lasted ELSE lasted \cup ({head'["encryption"].key} \ {NoKey})

CommandSpec == CommandInit /\ [][CommandNext]_commandVars

--------------------------------------------------------------------------------
\* A key file holds a key that the store, as an open store, had: never that of
\* a change which was undone after all, with which the device would be refused
\* a plaintext store (open.rs `opening`) and no command takes it away (encrypt.rs
\* `set_up`, `join`, `recover`: `save_key_file` comes last).
KeysLast == ~lock => \A d \in Devices : keyFile[d] \in lasted \cup {NoKey}
================================================================================
